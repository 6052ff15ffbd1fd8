------------------------------- MODULE Recorder -------------------------------
(***************************************************************************)
(* A screen recording: crates/services/src/recorder.rs.                    *)
(*                                                                         *)
(* The recorder is a process of its own.  The driver thread starts, stops  *)
(* and pauses it by its number; a thread per recording waits for it and    *)
(* says how it ended.                                                      *)
(***************************************************************************)
EXTENDS Naturals

CONSTANTS
  MaxRecordings,   \* bound: recordings begun
  PipeRoom         \* what a pipe holds of a recorder's complaints

ASSUME RecorderAssumption == MaxRecordings \in Nat \ {0} /\ PipeRoom \in Nat

VARIABLES
  active, paused,  \* STATE
  pid,             \* PID: whose recorder's number it is, or 0
  begun,           \* recordings begun
  rec,             \* each recorder's process
  suspended,       \* those told to pause
  stopSent,        \* those sent SIGINT
  complaint,       \* what each has written to its stderr
  reaper,          \* the thread that waits for each
  hand, at, was,   \* the driver thread: the number it loaded, where it is, what it saw
  strayed          \* a signal has gone to a number that was collected

recorderVars ==
  <<active, paused, pid, begun, rec, suspended, stopSent, complaint, reaper, hand, at, was, strayed>>

Recordings == 1 .. MaxRecordings

RecorderTypeOK ==
  /\ active \in BOOLEAN /\ paused \in BOOLEAN /\ was \in BOOLEAN /\ strayed \in BOOLEAN
  /\ begun \in 0 .. MaxRecordings /\ pid \in 0 .. begun /\ hand \in 0 .. begun
  /\ rec \in [Recordings -> {"unborn", "runs", "blocked", "exited", "collected"}]
  /\ suspended \subseteq Recordings /\ stopSent \subseteq Recordings
  /\ complaint \in [Recordings -> 0 .. PipeRoom]
  /\ reaper \in [Recordings -> {"none", "waits", "reads", "clears", "publishes", "done"}]
  /\ at \in {"idle", "stop", "seen", "pause", "note"}

RecorderInit ==
  /\ active = FALSE /\ paused = FALSE /\ pid = 0 /\ begun = 0
  /\ rec = [n \in Recordings |-> "unborn"] /\ reaper = [n \in Recordings |-> "none"]
  /\ suspended = {} /\ stopSent = {}
  /\ complaint = [n \in Recordings |-> 0]
  /\ hand = 0 /\ at = "idle" /\ was = FALSE /\ strayed = FALSE

-----------------------------------------------------------------------------
(* A plausible slip: start asks for the number instead of the state.       *)
FreeByNumber == pid = 0

(* start: "A no-op while one is already running".                          *)
MayBegin == ~active

(* start and reap; the thread that waits may not be had.                   *)
Begins ==
  /\ at = "idle" /\ MayBegin /\ begun < MaxRecordings
  /\ begun' = begun + 1 /\ pid' = begun'
  /\ active' = TRUE /\ paused' = FALSE
  /\ rec' = [rec EXCEPT ![begun'] = "runs"]
  /\ \E r \in {"waits", "none"} : reaper' = [reaper EXCEPT ![begun'] = r]
  /\ UNCHANGED <<suspended, stopSent, complaint, hand, at, was, strayed>>

(* stop: the number, and then the signal.                                  *)
LoadsToStop ==
  /\ at = "idle" /\ pid # 0
  /\ hand' = pid /\ at' = "stop"
  /\ UNCHANGED <<active, paused, pid, begun, rec, suspended, stopSent, complaint, reaper, was, strayed>>

Alive(n) == rec[n] \in {"runs", "blocked"}

(* kill, of whoever goes by that number.                                   *)
Signalled(n, those) == IF Alive(n) THEN those \cup {n} ELSE those
StrayOf(n) == strayed' = (strayed \/ rec[n] = "collected")

Interrupts ==
  /\ at = "stop"
  /\ stopSent' = Signalled(hand, stopSent)
  /\ StrayOf(hand)
  /\ at' = "idle"
  /\ UNCHANGED <<active, paused, pid, begun, rec, suspended, complaint, reaper, hand, was>>

(* toggle_pause, of a backend that can: the state, the number, the signal, *)
(* the state.                                                              *)
SeesToPause ==
  /\ at = "idle" /\ active
  /\ was' = paused /\ at' = "seen"
  /\ UNCHANGED <<active, paused, pid, begun, rec, suspended, stopSent, complaint, reaper, hand, strayed>>

LoadsToPause ==
  /\ at = "seen"
  /\ hand' = pid /\ at' = IF pid = 0 THEN "idle" ELSE "pause"
  /\ UNCHANGED <<active, paused, pid, begun, rec, suspended, stopSent, complaint, reaper, was, strayed>>

TellsToPause ==
  /\ at = "pause"
  /\ suspended' = IF ~Alive(hand) THEN suspended
                  ELSE IF hand \in suspended THEN suspended \ {hand} ELSE suspended \cup {hand}
  /\ StrayOf(hand)
  /\ at' = "note"
  /\ UNCHANGED <<active, paused, pid, begun, rec, stopSent, complaint, reaper, hand, was>>

NotesPause ==
  /\ at = "note"
  /\ paused' = ~was /\ at' = "idle"
  /\ UNCHANGED <<active, pid, begun, rec, suspended, stopSent, complaint, reaper, hand, was, strayed>>

Button == Begins \/ LoadsToStop \/ SeesToPause
Presses == Interrupts \/ LoadsToPause \/ TellsToPause \/ NotesPause

-----------------------------------------------------------------------------
(* The thread that waits: first for the end, then for what was said, and   *)
(* only then does it take the number away and publish.                     *)
ReaperRest == UNCHANGED <<begun, suspended, stopSent, hand, at, was, strayed>>

Collects(n) ==
  /\ reaper[n] = "waits" /\ rec[n] = "exited"
  /\ rec' = [rec EXCEPT ![n] = "collected"]
  /\ reaper' = [reaper EXCEPT ![n] = "reads"]
  /\ UNCHANGED <<active, paused, pid, complaint>>

ReadsComplaint(n) ==
  /\ reaper[n] = "reads"
  /\ complaint' = [complaint EXCEPT ![n] = 0]
  /\ reaper' = [reaper EXCEPT ![n] = "clears"]
  /\ UNCHANGED <<active, paused, pid, rec>>

ClearsNumber(n) ==
  /\ reaper[n] = "clears"
  /\ pid' = 0
  /\ reaper' = [reaper EXCEPT ![n] = "publishes"]
  /\ UNCHANGED <<active, paused, rec, complaint>>

PublishesEnd(n) ==
  /\ reaper[n] = "publishes"
  /\ active' = FALSE /\ paused' = FALSE
  /\ reaper' = [reaper EXCEPT ![n] = "done"]
  /\ UNCHANGED <<pid, rec, complaint>>

Reaps(n) == (Collects(n) \/ ReadsComplaint(n) \/ ClearsNumber(n) \/ PublishesEnd(n)) /\ ReaperRest

-----------------------------------------------------------------------------
(* The recorder: it complains to a pipe that somebody holds, and waits for *)
(* room there; it goes when it was interrupted, or of itself.              *)
RecorderRest == UNCHANGED <<active, paused, pid, begun, suspended, stopSent, reaper, hand, at, was, strayed>>

Complains(n) ==
  /\ rec[n] = "runs" /\ reaper[n] # "none"
  /\ IF complaint[n] < PipeRoom
     THEN complaint' = [complaint EXCEPT ![n] = @ + 1] /\ rec' = rec
     ELSE rec' = [rec EXCEPT ![n] = "blocked"] /\ complaint' = complaint
  /\ RecorderRest

Ends(n) ==
  /\ rec[n] = "runs"
  /\ rec' = [rec EXCEPT ![n] = "exited"] /\ complaint' = complaint
  /\ RecorderRest

RecorderNext ==
  \/ Button \/ Presses
  \/ \E n \in Recordings : Reaps(n) \/ Complains(n) \/ Ends(n)

(* Threads go on, and a recorder that was interrupted ends, if it can.     *)
RecorderFair ==
  /\ WF_recorderVars(Presses)
  /\ \A n \in Recordings : WF_recorderVars(Reaps(n)) /\ WF_recorderVars(n \in stopSent /\ Ends(n))

RecorderSpec == RecorderInit /\ [][RecorderNext]_recorderVars /\ RecorderFair

-----------------------------------------------------------------------------
(* A recorder that runs is the only one, is shown, and is the one a stop   *)
(* reaches, though the thread of an earlier one is still on its way out.   *)
Reached == \A n \in Recordings : Alive(n) => active /\ pid = n

(* What is shown as paused is, while it runs.                              *)
PauseShown == \A n \in Recordings : rec[n] = "runs" /\ at # "note" => (paused <=> n \in suspended)

(* A recording that was stopped is shown as over in the end, with the      *)
(* thread that waits for it there and its recorder not stuck over a        *)
(* complaint.                                                              *)
StoppedEnds ==
  []<>(\A n \in stopSent : rec[n] = "blocked" \/ reaper[n] = "none" \/ ~active \/ begun > n)

(* Starting, stopping and pausing a recorder that may end at any moment.   *)
RecorderFollowed == [](Reached /\ PauseShown) /\ StoppedEnds

(* signal: "Safe: `pid` is a process this shell spawned and has not        *)
(* reaped".  It does not hold: the number is cleared after the wait.       *)
SignalsOwn == ~strayed

(* paused, of the live recording.  It does not hold: a pause noted after   *)
(* the end is left on the one that finished, and its length goes on.       *)
PausedIsLive == paused => active

(* "stop sends SIGINT and lets the encoder write its own trailer": every   *)
(* stop ends in a file that is closed.  It does not hold: nobody reads     *)
(* what a recorder writes to its stderr until it has ended.                *)
StopEnds == \A n \in Recordings : n \in stopSent ~> ~Alive(n)
=============================================================================
