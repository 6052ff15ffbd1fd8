------------------------------- MODULE MCShell -------------------------------
(***************************************************************************)
(* Seven parts that share no state, checked side by side for TLC: one of  *)
(* them runs, the others stay as they began.                               *)
(***************************************************************************)
EXTENDS Keyed, Rules, Schedule, Column, ConfigReload, LayoutStore, Process

CONSTANT Parts   \* the parts to be run

VARIABLE part    \* the one that runs

partVars == <<part, keyedVars, rulesVars, scheduleVars, columnVars, reloadVars, storeVars, processVars>>

(* What may be configured, for TLC.                                        *)
Rule(on, text) == [on |-> on, text |-> text]
Book(p, q)     == [id \in RuleIds |-> IF id = "a" THEN p ELSE q]
SomeBooks == {Book(Rule("x", 1), Rule("ending", 1)), Book(Rule("unwritten", 1), Rule("named", 1))}
SomeTimes == (SUBSET {0, 2, 3}) \ {{}}
SomeDays  == (SUBSET {0, 1}) \ {{}}

(* What is picked of a sequence is what SelectSeq selects, of short ones.  *)
ASSUME PickedSelects ==
  \A n \in 0 .. 4, kept \in SUBSET (1 .. 3) : \A s \in [1 .. n -> 1 .. 3] :
    Picked(s, {i \in 1 .. n : s[i] \in kept}) = SelectSeq(s, LAMBDA e : e \in kept)

Init ==
  /\ part \in Parts
  /\ part = "rules" \/ (tasks = <<Load(CHOOSE b \in Books : TRUE)>> /\ x = "no")
  /\ part = "schedule" \/ (times = {0} /\ days = {0} /\ clock = 0)
  /\ part = "reload" \/ broken = {}
  /\ part = "process" \/ kind = "run"
  /\ KeyedInit /\ RulesInit /\ ScheduleInit /\ ColumnInit /\ ReloadInit /\ StoreInit
  /\ ProcessInit
  /\ part = "layouts" \/ (file = [l \in Layouts |-> Absent] /\ chosen = Absent)
  /\ var = "none" \/ (part = "rules" /\ \E id \in RuleIds : Head(tasks).book[id].on = "named")

Next ==
  /\ UNCHANGED part
  /\ \/ /\ part = "keyed" /\ KeyedNext
        /\ UNCHANGED <<rulesVars, scheduleVars, columnVars, reloadVars, storeVars, processVars>>
     \/ /\ part = "rules" /\ RulesNext
        /\ UNCHANGED <<keyedVars, scheduleVars, columnVars, reloadVars, storeVars, processVars>>
     \/ /\ part = "schedule" /\ ScheduleNext
        /\ UNCHANGED <<keyedVars, rulesVars, columnVars, reloadVars, storeVars, processVars>>
     \/ /\ part = "column" /\ ColumnNext
        /\ UNCHANGED <<keyedVars, rulesVars, scheduleVars, reloadVars, storeVars, processVars>>
     \/ /\ part = "reload" /\ ReloadNext
        /\ UNCHANGED <<keyedVars, rulesVars, scheduleVars, columnVars, storeVars, processVars>>
     \/ /\ part = "layouts" /\ StoreNext
        /\ UNCHANGED <<keyedVars, rulesVars, scheduleVars, columnVars, reloadVars, processVars>>
     \/ /\ part = "process" /\ ProcessNext
        /\ UNCHANGED <<keyedVars, rulesVars, scheduleVars, columnVars, reloadVars, storeVars>>

(* What each part assumes of its threads, for the one that runs.           *)
Fair ==
  /\ \A s \in Surfaces : WF_keyedVars(part = "keyed" /\ Subscribing(s))
  /\ \A r \in Runs : WF_keyedVars(part = "keyed" /\ Retiring(r))
  /\ WF_keyedVars(part = "keyed" /\ Forgetting(Loop))
  /\ WF_rulesVars(part = "rules" /\ SetupReturns)
  /\ WF_rulesVars(part = "rules" /\ LoadBook)
  /\ WF_rulesVars(part = "rules" /\ Listen)
  /\ WF_rulesVars(part = "rules" /\ GracePasses)
  /\ WF_rulesVars(part = "rules" /\ Act)
  /\ WF_columnVars(part = "column" /\ Tick)
  /\ WF_columnVars(part = "column" /\ ToasterWakes)
  /\ WF_columnVars(part = "column" /\ OsdTimer)
  /\ WF_reloadVars(part = "reload" /\ Poll)
  /\ WF_reloadVars(part = "reload" /\ OnTick)
  /\ WF_reloadVars(part = "reload" /\ Proceeds)
  /\ WF_reloadVars(part = "reload" /\ files = Missing /\ Edit)
  /\ WF_storeVars(part = "layouts" /\ OnSettled)
  /\ WF_processVars(part = "process" /\ Reads)
  /\ WF_processVars(part = "process" /\ DeadlinePasses)
  /\ WF_processVars(part = "process" /\ StopKills)

Spec == Init /\ [][Next]_partVars /\ Fair

(* Every part keeps its types.                                             *)
TypeOK ==
  KeyedTypeOK /\ RulesTypeOK /\ ScheduleTypeOK /\ ColumnTypeOK /\ ReloadTypeOK
  /\ StoreTypeOK /\ ProcessTypeOK

(* RunsEnd, of the part that is about commands.                            *)
CommandEnds == part = "process" => RunsEnd
=============================================================================
