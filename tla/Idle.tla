--------------------------------- MODULE Idle ---------------------------------
(***************************************************************************)
(* Idle timeouts: crates/services/src/idle.rs over the compositor's        *)
(* ext-idle-notify (crates/platform-wayland/src/idle.rs).                  *)
(*                                                                         *)
(* Everything of the shell runs on the driver thread; what the compositor  *)
(* says is on its way while the shell disarms and arms again, and the     *)
(* readings an inhibit depends on reach the shell as notices that end in   *)
(* reconcile.                                                              *)
(***************************************************************************)
EXTENDS Naturals, Sequences, FiniteSets

CONSTANTS
  Stages,      \* the stages of [idle]
  Confs,       \* configurations: [on, audio, charging : BOOLEAN]
  MaxArms,     \* bound: times the stages are armed
  MaxChanges,  \* bound: readings, toggles and reloads
  MaxEvents    \* bound: events on their way

ASSUME IdleAssumption ==
  /\ Confs \subseteq [on : BOOLEAN, audio : BOOLEAN, charging : BOOLEAN]
  /\ {MaxArms, MaxChanges, MaxEvents} \subseteq Nat

VARIABLES
  conf,     \* [idle]
  truth,    \* what holds: [manual, audio, charging : BOOLEAN]
  notices,  \* kinds of reading whose change the shell has yet to hear of
  watching, \* the kinds watched: {} until the first reconcile that watches
  arms,     \* times armed; the number of the handles in ARMED
  armed,    \* ARMED holds handles
  fired,    \* the stages whose handle has fired
  idled,    \* the stages whose notification object has idled
  sent,     \* what the compositor has sent
  away,     \* nobody is at the seat
  done,     \* the stages whose action ran and whose return has not
  changes   \* changes so far

idleVars == <<conf, truth, notices, watching, arms, armed, fired, idled, sent, away, done, changes>>

Kinds == {"manual", "audio", "charging"}

IdleTypeOK ==
  /\ conf \in Confs
  /\ truth \in [Kinds -> BOOLEAN]
  /\ notices \subseteq Kinds /\ watching \subseteq Kinds
  /\ arms \in 0 .. MaxArms /\ armed \in BOOLEAN /\ away \in BOOLEAN
  /\ fired \subseteq Stages /\ idled \subseteq Stages /\ done \subseteq Stages
  /\ sent \in Seq([arm : 0 .. MaxArms, stage : Stages, idle : BOOLEAN])
  /\ changes \in 0 .. MaxChanges
  /\ ~armed => fired = {} /\ idled = {}

IdleInit ==
  /\ conf \in Confs
  /\ truth = [k \in Kinds |-> FALSE]
  /\ notices = {} /\ watching = {}
  /\ arms = 0 /\ armed = FALSE /\ fired = {} /\ idled = {} /\ sent = <<>>
  /\ away = FALSE /\ done = {} /\ changes = 0

-----------------------------------------------------------------------------
(* inhibited_by, of the configuration c and the readings t; the PipeWire   *)
(* graph is the one kept for whoever else shows it.                        *)
InhibitedBy(c, t) ==
  {k \in Kinds : t[k] /\ (k = "audio" => c.audio) /\ (k = "charging" => c.charging)}

(* ensure_inhibit_watches: a latch.                                        *)
Watched(c) ==
  IF watching # {} THEN watching
  ELSE {"manual"} \cup {k \in {"audio"} : c.audio} \cup {k \in {"charging"} : c.charging}

(* reconcile: every handle is dropped, and with it what it had fired, and  *)
(* the stages are armed again if nothing holds them off.                   *)
Reconcile(c, t) ==
  /\ fired' = {} /\ idled' = {}
  /\ watching' = IF c.on THEN Watched(c) ELSE watching
  /\ IF c.on /\ InhibitedBy(c, t) = {}
       THEN arms < MaxArms /\ arms' = arms + 1 /\ armed' = TRUE
       ELSE armed' = FALSE /\ UNCHANGED arms

(* The configuration is loaded, or loaded again (apply_config).            *)
Load ==
  /\ changes < MaxChanges /\ changes' = changes + 1
  /\ \E c \in Confs : conf' = c /\ Reconcile(c, truth)
  /\ UNCHANGED <<truth, notices, sent, away, done>>

(* set_manual_inhibit: state::update, whose watchers hear of it later, and *)
(* then reconcile at once.                                                 *)
SetManual ==
  /\ changes < MaxChanges /\ changes' = changes + 1
  /\ truth' = [truth EXCEPT !["manual"] = ~@]
  /\ Reconcile(conf, truth')
  /\ notices' = notices \cup (watching' \cap {"manual"})
  /\ UNCHANGED <<conf, sent, away, done>>

(* A charger, a track: the services notice, and tell whoever watches.      *)
ReadingChanges(k) ==
  /\ changes < MaxChanges /\ changes' = changes + 1
  /\ truth' = [truth EXCEPT ![k] = ~@]
  /\ notices' = notices \cup (watching \cap {k})
  /\ UNCHANGED <<conf, watching, arms, armed, fired, idled, sent, away, done>>

Hears(k) ==
  /\ k \in notices
  /\ notices' = notices \ {k}
  /\ Reconcile(conf, truth)
  /\ UNCHANGED <<conf, truth, sent, away, done, changes>>

-----------------------------------------------------------------------------
(* The compositor: a notification that has counted down, and a seat that   *)
(* is touched, which tells every object that had idled.                    *)
Elapses(s) ==
  /\ away /\ armed /\ s \notin idled /\ Len(sent) < MaxEvents
  /\ idled' = idled \cup {s}
  /\ sent' = Append(sent, [arm |-> arms, stage |-> s, idle |-> TRUE])
  /\ UNCHANGED <<conf, truth, notices, watching, arms, armed, fired, away, done, changes>>

Resumes(s) ==
  /\ ~away /\ s \in idled /\ Len(sent) < MaxEvents
  /\ idled' = idled \ {s}
  /\ sent' = Append(sent, [arm |-> arms, stage |-> s, idle |-> FALSE])
  /\ UNCHANGED <<conf, truth, notices, watching, arms, armed, fired, away, done, changes>>

GoesAway == ~away /\ idled = {} /\ away' = TRUE /\ UNCHANGED
  <<conf, truth, notices, watching, arms, armed, fired, idled, sent, done, changes>>
ComesBack == away /\ away' = FALSE /\ UNCHANGED
  <<conf, truth, notices, watching, arms, armed, fired, idled, sent, done, changes>>

(* A plausible slip: a callback outlives its handle.                       *)
AnyBody(e) == armed

(* Dispatch: an event of a handle that was dropped finds no callback.      *)
Mine(e) == armed /\ e.arm = arms

(* A plausible slip: resumed is not taken as the end of what was fired.    *)
OnResumeNever(s) == UNCHANGED <<fired, done>>

(* on_idle and on_resume.                                                  *)
OnIdle(s)   == fired' = fired \cup {s} /\ done' = done \cup {s}
OnResume(s) ==
  /\ fired' = fired \ {s}
  /\ done' = IF s \in fired THEN done \ {s} ELSE done

Dispatch ==
  /\ sent # <<>>
  /\ sent' = Tail(sent)
  /\ LET e == Head(sent) IN
       \/ Mine(e) /\ e.idle /\ OnIdle(e.stage)
       \/ Mine(e) /\ ~e.idle /\ OnResume(e.stage)
       \/ ~Mine(e) /\ UNCHANGED <<fired, done>>
  /\ UNCHANGED <<conf, truth, notices, watching, arms, armed, idled, away, changes>>

IdleNext ==
  \/ Load \/ SetManual \/ GoesAway \/ ComesBack \/ Dispatch
  \/ \E k \in {"audio", "charging"} : ReadingChanges(k)
  \/ \E k \in Kinds : Hears(k)
  \/ \E s \in Stages : Elapses(s) \/ Resumes(s)

(* The loop turns, the services report and the compositor tells of a       *)
(* return.                                                                 *)
IdleFair ==
  /\ WF_idleVars(Dispatch)
  /\ WF_idleVars(\E k \in Kinds : Hears(k))
  /\ WF_idleVars(\E s \in Stages : Resumes(s))

IdleSpec == IdleInit /\ [][IdleNext]_idleVars /\ IdleFair

-----------------------------------------------------------------------------
Configured ==
  {"manual"} \cup {k \in {"audio"} : conf.audio} \cup {k \in {"charging"} : conf.charging}

(* Once the shell has heard of every change, the stages are armed exactly  *)
(* while nothing it watches holds them off.                                *)
InhibitHolds ==
  conf.on /\ notices = {} /\ Configured \subseteq watching =>
    (armed <=> InhibitedBy(conf, truth) = {})

(* What has fired is what the compositor has counted down since the stages *)
(* were last armed, or its return is on its way: an event that overtook a *)
(* reconcile fires nothing, and the countdown starts from zero.            *)
FiredIsIdle ==
  \A s \in fired : s \in idled \/ \E i \in DOMAIN sent : Mine(sent[i]) /\ sent[i].stage = s

(* Handles that fired and live on run their return actions once the seat   *)
(* is in use and stays so: again and again it is away, or all have.        *)
ReturnsWhileArmed == []<>(away \/ fired = {})

(* "return_action runs when the seat wakes, if that stage had fired". It   *)
(* does not hold: a reconcile in between drops the handle, and its return. *)
ReturnsWhenWoken == \A s \in Stages : (s \in done /\ ~away) ~> (s \notin done \/ away)

(* The stages that count down are those that should, and what has fired is *)
(* what they counted.                                                      *)
ArmedTruly == InhibitHolds /\ FiredIsIdle
=============================================================================
