----------------------------- MODULE MCServices ------------------------------
(***************************************************************************)
(* Seven parts that share no state, checked side by side for TLC: one of   *)
(* them runs, the others stay as they began.                               *)
(***************************************************************************)
EXTENDS LockAuth, Idle, Notifications, LockDriver, Commands, Recorder,
        SharedState

CONSTANT Parts   \* the parts to be run

VARIABLE part    \* the one that runs

partVars == <<part, authVars, idleVars, notifVars, lockVars, commandVars, recorderVars, stateVars>>

(* What may be configured, for TLC.                                        *)
SomeKits  == {{"logind"}, {"finger"}, {"face"}}
SomeConfs == {[on |-> TRUE, audio |-> TRUE, charging |-> FALSE],
              [on |-> TRUE, audio |-> FALSE, charging |-> TRUE],
              [on |-> FALSE, audio |-> TRUE, charging |-> FALSE]}

Init ==
  /\ part \in Parts
  /\ part = "auth" \/ kit = CHOOSE k \in Kits : TRUE
  /\ part = "idle" \/ conf = CHOOSE c \in Confs : TRUE
  /\ AuthInit /\ IdleInit /\ NotifInit /\ LockInit /\ CommandsInit
  /\ RecorderInit /\ SharedInit

Next ==
  /\ UNCHANGED part
  /\ \/ /\ part = "auth" /\ AuthNext
        /\ UNCHANGED <<idleVars, notifVars, lockVars, commandVars, recorderVars, stateVars>>
     \/ /\ part = "idle" /\ IdleNext
        /\ UNCHANGED <<authVars, notifVars, lockVars, commandVars, recorderVars, stateVars>>
     \/ /\ part = "notifications" /\ NotifNext
        /\ UNCHANGED <<authVars, idleVars, lockVars, commandVars, recorderVars, stateVars>>
     \/ /\ part = "driver" /\ LockNext
        /\ UNCHANGED <<authVars, idleVars, notifVars, commandVars, recorderVars, stateVars>>
     \/ /\ part = "commands" /\ CommandsNext
        /\ UNCHANGED <<authVars, idleVars, notifVars, lockVars, recorderVars, stateVars>>
     \/ /\ part = "recorder" /\ RecorderNext
        /\ UNCHANGED <<authVars, idleVars, notifVars, lockVars, commandVars, stateVars>>
     \/ /\ part = "state" /\ SharedNext
        /\ UNCHANGED <<authVars, idleVars, notifVars, lockVars, commandVars, recorderVars>>

(* What each part assumes of its threads, for the one that runs.           *)
Fair ==
  /\ WF_authVars(part = "auth" /\ Perform)
  /\ WF_authVars(part = "auth" /\ SubmitWrites)
  /\ WF_authVars(part = "auth" /\ (PamAccepts \/ PamRefuses))
  /\ WF_authVars(part = "auth" /\ TimePasses)
  /\ WF_authVars(part = "auth" /\ ClearLockout)
  /\ WF_authVars(part = "auth" /\ HintLands)
  /\ WF_authVars(part = "auth" /\ \E t \in Threads : BioStep(t))
  /\ WF_idleVars(part = "idle" /\ Dispatch)
  /\ WF_idleVars(part = "idle" /\ \E k \in Kinds : Hears(k))
  /\ WF_idleVars(part = "idle" /\ \E s \in Stages : Resumes(s))
  /\ WF_notifVars(part = "notifications" /\ HandOn)
  /\ WF_notifVars(part = "notifications" /\ \E t \in {"bus", "ui"} : Arm(t) \/ Disarm(t) \/ TakeDown(t))
  /\ WF_notifVars(part = "notifications" /\ Draw)
  /\ WF_notifVars(part = "notifications" /\ Subscribe)
  /\ WF_notifVars(part = "notifications" /\ \E c \in clocks : Rings(c))
  /\ WF_lockVars(part = "driver" /\ Turn) /\ WF_lockVars(part = "driver" /\ Read)
  /\ WF_lockVars(part = "driver" /\ Serve) /\ WF_lockVars(part = "driver" /\ Grant)
  /\ \A c \in Clients : WF_commandVars(part = "commands" /\ ClientThread(c))
  /\ WF_commandVars(part = "commands" /\ Driver)
  /\ WF_commandVars(part = "commands" /\ Worker)
  /\ WF_recorderVars(part = "recorder" /\ Presses)
  /\ \A n \in Recordings :
        /\ WF_recorderVars(part = "recorder" /\ Reaps(n))
        /\ WF_recorderVars(part = "recorder" /\ n \in stopSent /\ Ends(n))

Spec == Init /\ [][Next]_partVars /\ Fair

(* Every part keeps its types.                                             *)
TypeOK ==
  AuthTypeOK /\ IdleTypeOK /\ NotifTypeOK /\ LockTypeOK /\ CommandsTypeOK
  /\ RecorderTypeOK /\ SharedTypeOK
=============================================================================
