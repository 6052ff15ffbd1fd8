-------------------------------- MODULE Rules --------------------------------
(***************************************************************************)
(* The rules engine (crates/automation/src/rules/mod.rs), the event stream *)
(* it listens to (crates/services/src/events.rs) and the session actions   *)
(* that wait for it (crates/services/src/session.rs).                      *)
(*                                                                         *)
(* The engine lives on the driver thread: a turn of the loop is one step.  *)
(* Crossings and loads are deferred to a turn of their own; events come    *)
(* from a listener thread.                                                 *)
(***************************************************************************)
EXTENDS Naturals, SequencesExt, Subsequence

CONSTANTS
  Books,      \* what config.toml may write: functions from RuleIds
  PerSecond,  \* RuleConfig::FIRINGS_PER_SECOND
  MaxLoads,   \* bound: loads and changes of the variable the rules name
  MaxQueue    \* bound: tasks deferred at a time

RuleIds  == {"a", "b"}
Triggers == {"unwritten", "off", "x", "notX", "named", "started", "ending"}

ASSUME RulesAssumption ==
  /\ {PerSecond, MaxLoads, MaxQueue} \subseteq Nat \ {0}
  /\ Books \subseteq [RuleIds -> [on : Triggers, text : {1, 2}]]

VARIABLES
  setup,     \* setup_shell has returned
  book,      \* Engine.written
  var,       \* the variable rules may name: its type, "none" while undeclared
  x,         \* the reading the edges are on
  running,   \* Engine.running: what each loaded rule was loaded from, and its Edge
  serial,    \* Engine.serial
  tasks,     \* deferred to a later turn: crossings, and books to load
  due,       \* what the event being delivered is still to fire
  delivering,\* the driver thread is in on_event
  listener,  \* the listener thread: none, spawned, listening
  stray,     \* a listener told to go is still registered; what it holds
  heard,     \* events on their way to the driver thread
  spent,     \* Engine.budgets, in this second
  suspended, \* Engine.suspended
  failing,   \* the failures filed under a rule
  misfired,  \* history: a firing ran another rule than was noticed
  session,   \* the session action: up, waiting, ended
  late,      \* its grace has passed
  owed       \* history: rules the session's end was announced to

rulesVars == <<setup, book, var, x, running, serial, tasks, due, delivering, listener,
               stray, heard, spent, suspended, failing, misfired, session,
               late, owed>>

NotLoaded == [serial |-> 0, rule |-> [on |-> "unwritten", text |-> 1], meaning |-> "none",
              seen |-> "never"]
Loaded(r) == r.serial # 0
Fire(id, r) == [do |-> "fire", id |-> id, serial |-> r.serial, rule |-> r.rule]
Load(b)     == [do |-> "load", book |-> b]

RulesTypeOK ==
  /\ {setup, late, delivering, misfired} \subseteq BOOLEAN
  /\ book \in [RuleIds -> [on : Triggers, text : {1, 2}]]
  /\ var \in {"none", "number", "text"} /\ x \in {"yes", "no", "error"}
  /\ \A id \in RuleIds :
       /\ running[id].serial \in 0 .. MaxLoads /\ running[id].seen \in {"never", "yes", "no"}
       /\ running[id].serial <= serial
       /\ spent[id] \in 0 .. PerSecond + 1
  /\ listener \in {"none", "spawned", "listening"} /\ stray \in {"none", "free", "holding"}
  /\ session \in {"up", "waiting", "ended"}
  /\ suspended \cup failing \subseteq RuleIds

RulesInit ==
  /\ setup = FALSE /\ late = FALSE /\ session = "up" /\ owed = {}
  /\ book = [id \in RuleIds |-> NotLoaded.rule]
  /\ \E b \in Books : tasks = <<Load(b)>>
  /\ var \in {"none", "number"} /\ x \in {"yes", "no", "error"}
  /\ running = [id \in RuleIds |-> NotLoaded] /\ serial = 0
  /\ due = <<>> /\ delivering = FALSE /\ heard = <<>> /\ listener = "none" /\ stray = "none"
  /\ spent = [id \in RuleIds |-> 0] /\ suspended = {} /\ failing = {} /\ misfired = FALSE

-----------------------------------------------------------------------------
(* What an edge's expression gives as the reading stands.                  *)
Value(rule, reading) ==
  IF reading = "error" THEN "error"
  ELSE CASE rule.on \in {"x", "named"} -> reading
         [] rule.on = "notX"           -> IF reading = "yes" THEN "no" ELSE "yes"
         [] OTHER                      -> "error"

IsEdge(rule) == rule.on \in {"x", "notX", "named"}

(* Edge::observe: the first answer only records, a failure moves nothing.  *)
Crosses(r, now) == r.seen = "no" /\ now = "yes"
Seen(r, now)    == IF now = "error" THEN r.seen ELSE now

(* Those of the rules, in the order they are written.                      *)
Order        == <<"a", "b">>
InOrder(ids) == Picked(Order, {i \in DOMAIN Order : Order[i] \in ids})

(* watch_edge: the effects of the loaded edges, as the reading is now. A   *)
(* crossing defers a firing, of the rule as it is loaded.                  *)
Watches(r) == Loaded(r) /\ IsEdge(r.rule)
Noticed(loaded, now) ==
  LET crossed == {id \in RuleIds : Watches(loaded[id])
                                     /\ Crosses(loaded[id], Value(loaded[id].rule, now))}
      order   == InOrder(crossed)
  IN  [i \in DOMAIN order |-> Fire(order[i], loaded[order[i]])]
Watched(loaded, now) ==
  [id \in RuleIds |->
     IF Watches(loaded[id]) THEN [loaded[id] EXCEPT !.seen = Seen(loaded[id], Value(loaded[id].rule, now))]
                            ELSE loaded[id]]

(* The reactive pass that follows a change: `later` is what was deferred.  *)
Reacts(loaded, now, later) ==
  /\ x' = now
  /\ running' = Watched(loaded, now)
  /\ tasks' = later \o Noticed(loaded, now)
  /\ Len(tasks') <= MaxQueue

-----------------------------------------------------------------------------
(* A plausible slip: the text alone is compared.                           *)
SameText(r, rule, v) == Loaded(r) /\ r.rule = rule

(* check::prepare_all and reconcile: a rule whose text and whose meaning   *)
(* are unchanged keeps running, every other is stopped, and started if it  *)
(* is still written and has no mistake.                                    *)
Meaning(rule, v) == IF rule.on = "named" THEN v ELSE "none"
Prepared(rule, v) == rule.on \notin {"unwritten", "off"} /\ (rule.on = "named" => v # "none")
Unchanged(r, rule, v) == Loaded(r) /\ r.rule = rule /\ r.meaning = Meaning(rule, v)

Reconciled(b, v) ==
  [id \in RuleIds |->
     IF ~Prepared(b[id], v) THEN NotLoaded
     ELSE IF Unchanged(running[id], b[id], v) THEN running[id]
     ELSE [serial |-> serial + 1, rule |-> b[id], meaning |-> Meaning(b[id], v), seen |-> "never"]]

OnEvent(r, event) == Loaded(r) /\ r.rule.on = event

(* listen_for_events: one listener while a loaded rule is on an event.     *)
Listens(loaded) ==
  IF \E id \in RuleIds : OnEvent(loaded[id], "started") \/ OnEvent(loaded[id], "ending")
  THEN /\ listener' = IF listener = "none" THEN "spawned" ELSE listener
       /\ UNCHANGED <<heard, stray>>
  ELSE /\ listener' = "none"
       /\ heard' = <<>>
       /\ stray' = IF stray = "holding" \/ "ending" \in ToSet(heard) THEN "holding"
                   ELSE IF listener # "none" THEN "free" ELSE stray

Reconcile(b, v, later) ==
  LET loaded == Reconciled(b, v) IN
  /\ serial' = serial + 1
  /\ Reacts(loaded, x, later)
  /\ Listens(loaded)

(* refile_failures: those of rules no longer written go.                   *)
Written(b) == {id \in RuleIds : b[id].on # "unwritten"}

Refiled(failed, b) == failed \cap Written(b)

Idle == setup /\ ~delivering

Loads == serial + Cardinality({i \in DOMAIN tasks : tasks[i].do = "load"})

(* load, on a turn of its own.                                             *)
LoadBook ==
  /\ Idle /\ tasks # <<>> /\ Head(tasks).do = "load"
  /\ book' = Head(tasks).book
  /\ spent' = [id \in RuleIds |-> 0]
  /\ suspended' = {}
  /\ failing' = Refiled(failing, book') \ suspended
  /\ Reconcile(book', var, Tail(tasks))
  /\ UNCHANGED <<setup, var, due, delivering, misfired, session, late, owed>>

(* The variable appears, goes or changes type: the set is checked again.   *)
DeclareVar ==
  /\ Idle /\ Loads < MaxLoads
  /\ var' \in {"none", "number", "text"} \ {var}
  /\ Reconcile(book, var', tasks)
  /\ UNCHANGED <<setup, book, due, delivering, spent, suspended, failing, misfired, session,
                 late, owed>>

(* A reload of the config, from wherever: install defers the load.         *)
Install ==
  /\ Idle /\ Loads < MaxLoads /\ Len(tasks) < MaxQueue
  /\ \E b \in Books : tasks' = Append(tasks, Load(b))
  /\ UNCHANGED <<setup, book, var, x, running, serial, due, delivering, listener, stray, heard,
                 spent, suspended, failing, misfired, session, late, owed>>

(* A service publishes the reading the edges are on.                       *)
Publish ==
  /\ Idle
  /\ \E now \in {"yes", "no", "error"} \ {x} : Reacts(running, now, tasks)
  /\ UNCHANGED <<setup, book, var, serial, due, delivering, listener, stray, heard, spent,
                 suspended, failing, misfired, session, late, owed>>

-----------------------------------------------------------------------------
(* enter: within the rule's budget, or suspended.                          *)
Within(n) == n <= PerSecond

(* perform: the rule's commands run, which may move the reading and be     *)
(* refused, and its failure is filed or goes.                              *)
Perform(id, noticed, later) ==
  /\ spent' = [spent EXCEPT ![id] = @ + 1]
  /\ IF Within(spent'[id])
     THEN /\ \E now \in {"yes", "no"} \cup {x} : Reacts(running, now, later)
          /\ failing' \in {failing \ {id}, failing \cup {id}}
          /\ misfired' = (misfired \/ noticed # book[id])
          /\ UNCHANGED suspended
     ELSE /\ suspended' = suspended \cup {id}
          /\ failing' = failing \cup {id}
          /\ tasks' = later
          /\ UNCHANGED <<x, running, misfired>>

Skip(later) ==
  tasks' = later /\ UNCHANGED <<x, running, spent, suspended, failing, misfired>>

(* fire: the rule as it was when the firing was deferred, or nothing.      *)
Current(t) == t.id \notin suspended /\ running[t.id].serial = t.serial

(* `when` holds, or does not, or cannot be read.                           *)
FireOne(t, later) ==
  \/ Current(t) /\ Perform(t.id, t.rule, later)
  \/ Skip(later)
  \/ /\ Current(t)
     /\ failing' = failing \cup {t.id}
     /\ tasks' = later
     /\ UNCHANGED <<x, running, spent, suspended, misfired>>

Turn ==
  /\ Idle /\ tasks # <<>> /\ Head(tasks).do = "fire"
  /\ FireOne(Head(tasks), Tail(tasks))
  /\ UNCHANGED <<setup, book, var, serial, due, delivering, listener, stray, heard, session,
                 late, owed>>

(* run_now: whatever the trigger, `when` and `enabled` say.                *)
RunNow(id) ==
  /\ Idle /\ id \in Written(book) \ suspended
  /\ Perform(id, book[id], tasks)
  /\ UNCHANGED <<setup, book, var, serial, due, delivering, listener, stray, heard, session,
                 late, owed>>

(* The second a budget counts from is over.                                *)
Elapse(id) ==
  /\ spent[id] > 0
  /\ spent' = [spent EXCEPT ![id] = 0]
  /\ UNCHANGED <<setup, book, var, x, running, serial, tasks, due, delivering, listener, stray,
                 heard, suspended, failing, misfired, session, late, owed>>

-----------------------------------------------------------------------------
(* emit_held: to every listener registered, those told to go included.     *)
Emits(event) ==
  /\ heard' = IF listener = "listening" THEN Append(heard, event) ELSE heard
  /\ stray' = IF stray = "free" /\ event = "ending" THEN "holding" ELSE stray

(* setup_shell returns, and says the shell has started.                    *)
SetupReturns ==
  /\ ~setup /\ setup' = TRUE
  /\ Emits("started")
  /\ UNCHANGED <<book, var, x, running, serial, tasks, due, delivering, listener, spent,
                 suspended, failing, misfired, session, late, owed>>

(* The listener thread reaches listen_holding.                             *)
Listen ==
  /\ listener = "spawned" /\ listener' = "listening"
  /\ UNCHANGED <<setup, book, var, x, running, serial, tasks, due, delivering, stray, heard,
                 spent, suspended, failing, misfired, session, late, owed>>

(* One told to go finds its subscription dead, and drops what it holds.    *)
StrayGoes ==
  /\ stray # "none" /\ stray' = "none"
  /\ UNCHANGED <<setup, book, var, x, running, serial, tasks, due, delivering, listener, heard,
                 spent, suspended, failing, misfired, session, late, owed>>

(* on_event: the rules on it, as they are loaded now, one after the other. *)
Deliver ==
  /\ Idle /\ heard # <<>>
  /\ delivering' = TRUE
  /\ LET hit == InOrder({id \in RuleIds : OnEvent(running[id], Head(heard))})
     IN  due' = [i \in DOMAIN hit |-> Fire(hit[i], running[hit[i]])]
  /\ UNCHANGED <<setup, book, var, x, running, serial, tasks, listener, stray, heard, spent,
                 suspended, failing, misfired, session, late, owed>>

FireDue ==
  /\ delivering /\ due # <<>>
  /\ due' = Tail(due)
  /\ owed' = owed \ {Head(due)}
  /\ FireOne(Head(due), tasks)
  /\ UNCHANGED <<setup, book, var, serial, delivering, listener, stray, heard, session, late>>

(* The delivery is dropped, and its hold with it.                          *)
Delivered ==
  /\ delivering /\ due = <<>>
  /\ delivering' = FALSE
  /\ heard' = Tail(heard)
  /\ UNCHANGED <<setup, book, var, x, running, serial, tasks, due, listener, stray, spent,
                 suspended, failing, misfired, session, late, owed>>

(* announce_then: the action's event, then a thread that waits.            *)
Ask ==
  /\ setup /\ session = "up"
  /\ session' = "waiting"
  /\ Emits("ending")
  /\ owed' = IF listener = "listening"
             THEN {Fire(id, running[id]) : id \in {i \in RuleIds : OnEvent(running[i], "ending")}}
             ELSE {}
  /\ UNCHANGED <<setup, book, var, x, running, serial, tasks, due, delivering, listener, spent,
                 suspended, failing, misfired, late>>

GracePasses ==
  /\ session = "waiting" /\ ~late /\ late' = TRUE
  /\ UNCHANGED <<setup, book, var, x, running, serial, tasks, due, delivering, listener, stray,
                 heard, spent, suspended, failing, misfired, session, owed>>

(* Held::wait: until every hold is let go, and for at most the grace.      *)
Held == "ending" \in ToSet(heard) \/ stray = "holding"

(* A plausible slip: the hold ends as the event is heard.                  *)
ReleasedAsHeard == ~Held \/ late \/ delivering

Released == ~Held \/ late

Act ==
  /\ session = "waiting" /\ Released
  /\ session' = "ended"
  /\ UNCHANGED <<setup, book, var, x, running, serial, tasks, due, delivering, listener, stray,
                 heard, spent, suspended, failing, misfired, late, owed>>

RulesNext ==
  \/ SetupReturns \/ LoadBook \/ DeclareVar \/ Install \/ Publish \/ Turn
  \/ Listen \/ StrayGoes \/ Deliver \/ FireDue \/ Delivered
  \/ Ask \/ GracePasses \/ Act
  \/ \E id \in RuleIds : RunNow(id) \/ Elapse(id)

(* The loop starts and takes its turns, threads run and the clock with     *)
(* them; a rule's commands may not come back.                              *)
RulesFair ==
  /\ WF_rulesVars(SetupReturns)
  /\ WF_rulesVars(LoadBook)
  /\ WF_rulesVars(Listen)
  /\ WF_rulesVars(GracePasses)
  /\ WF_rulesVars(Act)

RulesSpec == RulesInit /\ [][RulesNext]_rulesVars /\ RulesFair

-----------------------------------------------------------------------------
(* What runs is the rule whose crossing or event was noticed: one written  *)
(* since under the same id does not answer for it.                         *)
FiresAsWritten == ~misfired

(* Reloading: an unchanged rule keeps its edge, a changed one starts anew. *)
ReloadKeeps ==
  [][\A id \in RuleIds :
       serial' # serial /\ Loaded(running[id]) =>
         (book'[id] = book[id] /\ (book[id].on = "named" => var' = var)
            <=> running'[id] = running[id])]_rulesVars

(* An edge fires once for each time its expression turns, never for the    *)
(* answer it finds as it loads nor for one that failed in between: what is *)
(* deferred follows a "no" that the reading itself gave.                   *)
OncePerCrossing ==
  [][\A i \in DOMAIN tasks' :
       i > Len(tasks) /\ tasks'[i].do = "fire" =>
         running[tasks'[i].id].seen = "no" /\ running[tasks'[i].id].serial = tasks'[i].serial]_rulesVars

(* A failure, and a suspension, is of a rule that is written.              *)
FailuresWritten == failing \cup suspended \subseteq Written(book)

(* The session ends after the rules its event triggers: unless the grace   *)
(* has passed, each that heard of it has been fired, or was taken out.     *)
EndsAfterRules ==
  [][session # "ended" /\ session' = "ended" /\ ~late =>
       \A t \in owed : running[t.id].serial # t.serial]_rulesVars

(* A rule that hangs keeps the session for as long as the grace, no more.  *)
SessionEnds == session = "waiting" ~> session = "ended"

(* docs/guides/scripting.md: event = "<name>" fires on each event of that  *)
(* name. A rule on `started`, written as the shell starts, has heard it.   *)
(* It does not hold: the engine loads, and listens, after it was emitted.  *)
StartedIsHeard ==
  (~setup /\ \E id \in RuleIds : Head(tasks).book[id].on = "started") ~> "started" \in ToSet(heard)

(* However loads and firings are put off to later turns, a rule is fired,  *)
(* judged and reported on as it is written, and by its own crossings.      *)
RulesAsWritten == [](FiresAsWritten /\ FailuresWritten) /\ ReloadKeeps /\ OncePerCrossing

(* The session ends: after the rules its event triggers, and not never.    *)
SessionWaits == EndsAfterRules /\ SessionEnds
=============================================================================
