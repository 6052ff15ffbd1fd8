------------------------------- MODULE Process --------------------------------
(***************************************************************************)
(* Running a command line: crates/util/src/process.rs, and the producer    *)
(* that follows one (crates/automation/src/sources/run.rs).                *)
(*                                                                         *)
(* A command leads a process group of its own.  One thread reads what it   *)
(* prints; the owner of a listener may stop it from another thread.  The   *)
(* group goes by the leader's number, which the system may give to         *)
(* somebody else once the leader has been collected.                       *)
(***************************************************************************)
EXTENDS Naturals, Sequences

CONSTANT MaxPrints   \* bound: chunks printed

ASSUME ProcessAssumption == MaxPrints \in Nat \ {0}

VARIABLES
  kind,      \* "listen" (stream_line) or "run" (run_line, output: capture)
  procs,     \* the command's processes: its leader, another one of its group,
             \* and one that left the group for a session of its own
  holding,   \* those of them that hold its pipes open
  reaped,    \* Group.reaped: the leader has been collected
  pipe,      \* what was printed and not read
  printed,   \* bound counter
  place,     \* where the reading thread is
  grace,     \* drain's cutoff is set
  overdue,   \* the deadline has passed
  outcome,   \* how the run ended, for its owner
  stopped,   \* Group.stopped
  owner,     \* of a listener: "has" it, is "stopping" it, has "left" it
  told,      \* what the callback was called with
  hit        \* a kill has gone to a number that was no longer the command's

commandVars == <<procs, holding, pipe, printed>>
processVars == <<kind, commandVars, reaped, place, grace, overdue, outcome, stopped, owner, told, hit>>

Members == {"leader", "child"}        \* of the group
Chunks  == {"line", "long"}           \* a line, and one past a cap

ProcessTypeOK ==
  /\ kind \in {"listen", "run"}
  /\ procs \subseteq Members \cup {"stray"} /\ holding \subseteq procs
  /\ reaped \in BOOLEAN /\ grace \in BOOLEAN /\ overdue \in BOOLEAN /\ stopped \in BOOLEAN /\ hit \in BOOLEAN
  /\ pipe \in Seq(Chunks) /\ printed \in 0 .. MaxPrints
  /\ place \in {"drain", "telling", "refused", "drained", "resting", "wait", "end", "ending", "drop", "done"}
  /\ outcome \in {"none", "exited", "overlong", "overran"}
  /\ owner \in {"has", "stopping", "left"}
  /\ told \in Seq({"line", "end"})

ProcessInit ==
  /\ kind \in {"listen", "run"}
  /\ procs = {"leader"} /\ holding = {"leader"} /\ reaped = FALSE
  /\ pipe = <<>> /\ printed = 0
  /\ place = "drain" /\ grace = FALSE /\ overdue = FALSE /\ outcome = "none"
  /\ stopped = FALSE /\ owner = "has" /\ told = <<>> /\ hit = FALSE

-----------------------------------------------------------------------------
(* The command, which does what it likes.                                  *)
Prints ==
  /\ holding # {} /\ printed < MaxPrints
  /\ \E c \in Chunks : pipe' = IF place = "drain" \/ place = "telling" THEN Append(pipe, c) ELSE pipe
  /\ printed' = printed + 1
  /\ UNCHANGED <<procs, holding>>

Forks(p) ==
  /\ "leader" \in procs /\ p \notin procs
  /\ procs' = procs \cup {p}
  /\ holding' = IF "leader" \in holding THEN holding \cup {p} ELSE holding
  /\ UNCHANGED <<pipe, printed>>

Exits(p) ==
  /\ p \in procs
  /\ procs' = procs \ {p}
  /\ holding' = holding \ {p}
  /\ UNCHANGED <<pipe, printed>>

ClosesPipes(p) ==
  /\ p \in holding
  /\ holding' = holding \ {p}
  /\ UNCHANGED <<procs, pipe, printed>>

Command ==
  /\ Prints \/ Forks("child") \/ Forks("stray")
     \/ \E p \in procs : Exits(p) \/ ClosesPipes(p)
  /\ UNCHANGED <<kind, reaped, place, grace, overdue, outcome, stopped, owner, told, hit>>

-----------------------------------------------------------------------------
(* killpg: whoever goes by the leader's number.                            *)
KillGroup ==
  /\ procs' = IF reaped THEN procs ELSE procs \ Members
  /\ holding' = holding \cap procs'
  /\ hit' = (hit \/ reaped)
  /\ UNCHANGED <<pipe, printed>>

(* Group::kill, under the lock a leader is collected under.                *)
Kill == IF reaped THEN UNCHANGED <<commandVars, hit>> ELSE KillGroup

(* Collecting the leader: what it left in its group goes first.            *)
Collect ==
  /\ "leader" \notin procs /\ ~reaped
  /\ KillGroup
  /\ reaped' = TRUE

Goes(p) == place' = p

-----------------------------------------------------------------------------
(* The reading thread: Running::drain, a chunk at a time.  A listener's    *)
(* callback is called under the lock that Stops takes.                     *)
ReadsRun ==
  /\ kind = "run" /\ place = "drain" /\ pipe # <<>>
  /\ pipe' = Tail(pipe)
  /\ IF Head(pipe) = "long" THEN Goes("drop") /\ outcome' = "overlong"
                            ELSE UNCHANGED <<place, outcome>>
  /\ UNCHANGED <<procs, holding, printed, grace, told, reaped, hit>>

Locks ==
  /\ kind = "listen" /\ place = "drain" /\ pipe # <<>>
  /\ IF stopped THEN Goes("refused") /\ pipe' = Tail(pipe)
                ELSE Goes("telling") /\ pipe' = pipe
  /\ UNCHANGED <<procs, holding, printed, grace, outcome, told, reaped, hit>>

Tells ==
  /\ place = "telling"
  /\ pipe' = Tail(pipe)
  /\ IF Head(pipe) = "long" THEN Goes("refused") /\ told' = told
                            ELSE Goes("drain") /\ told' = Append(told, "line")
  /\ UNCHANGED <<procs, holding, printed, grace, outcome, reaped, hit>>

SeesExit ==
  /\ place = "drain" /\ ~grace /\ "leader" \notin procs
  /\ grace' = TRUE
  /\ UNCHANGED <<commandVars, place, outcome, told, reaped, hit>>

(* A plausible slip: the pipes are read for as long as somebody holds them.*)
ClosedOnly == pipe = <<>> /\ holding = {}

(* Both pipes closed, or DRAIN_GRACE has passed since the leader exited.   *)
Over == grace \/ (pipe = <<>> /\ holding = {})

Drained ==
  /\ place = "drain" /\ Over
  /\ Goes("drained")
  /\ UNCHANGED <<commandVars, grace, outcome, told, reaped, hit>>

(* The rest of capture: the deadline holds for the reading, and for the    *)
(* wait of a command that has closed its pipes.                            *)
TimesOut ==
  /\ kind = "run" /\ overdue
  /\ \/ place = "drain"
     \/ place = "drained" /\ "leader" \in procs
  /\ Goes("drop") /\ outcome' = "overran"
  /\ UNCHANGED <<commandVars, grace, told, reaped, hit>>

(* The rest of stream_line's thread.                                       *)
Refuses ==
  /\ place = "refused"
  /\ IF stopped THEN Goes("drained") /\ UNCHANGED <<commandVars, hit, outcome>>
                ELSE Goes("wait") /\ Kill /\ outcome' = "overlong"
  /\ UNCHANGED <<grace, told, reaped>>

LocksRest ==
  /\ place = "drained" /\ kind = "listen"
  /\ Goes(IF stopped THEN "wait" ELSE "resting")
  /\ UNCHANGED <<commandVars, grace, outcome, told, reaped, hit>>

(* A last line that no newline ended, if there is one.                     *)
TellsRest ==
  /\ place = "resting"
  /\ told' \in {told, Append(told, "line")}
  /\ Goes("wait")
  /\ UNCHANGED <<commandVars, grace, outcome, reaped, hit>>

(* exited_by, of a run.                                                    *)
Awaits ==
  /\ place = "drained" /\ kind = "run" /\ "leader" \notin procs
  /\ Goes("wait")
  /\ UNCHANGED <<commandVars, grace, outcome, told, reaped, hit>>

Waits ==
  /\ place = "wait" /\ Collect
  /\ Goes(IF kind = "listen" THEN "end" ELSE "done")
  /\ outcome' = IF outcome = "none" THEN "exited" ELSE outcome
  /\ UNCHANGED <<grace, told>>

LocksEnd ==
  /\ place = "end"
  /\ Goes(IF stopped THEN "done" ELSE "ending")
  /\ UNCHANGED <<commandVars, grace, outcome, told, reaped, hit>>

TellsEnd ==
  /\ place = "ending"
  /\ told' = Append(told, "end")
  /\ Goes("done")
  /\ UNCHANGED <<commandVars, grace, outcome, reaped, hit>>

(* Running dropped before it was waited for: killed, then collected.       *)
Drops ==
  /\ place = "drop"
  /\ KillGroup
  /\ reaped' = TRUE
  /\ Goes("done")
  /\ UNCHANGED <<grace, outcome, told>>

Reads ==
  /\ ReadsRun \/ Locks \/ Tells \/ SeesExit \/ Drained \/ TimesOut \/ Refuses \/ LocksRest \/ TellsRest \/ Awaits
     \/ Waits \/ LocksEnd \/ TellsEnd \/ Drops
  /\ UNCHANGED <<kind, overdue, stopped, owner>>

DeadlinePasses ==
  /\ kind = "run" /\ ~overdue
  /\ overdue' = TRUE
  /\ UNCHANGED <<kind, commandVars, reaped, place, grace, outcome, stopped, owner, told, hit>>

-----------------------------------------------------------------------------
(* A plausible slip: the flag is set without its lock.                     *)
StopsAnyTime == kind = "listen" /\ owner # "stopping" /\ ~stopped

(* Stream::stop waits for a callback to return; dropping the stream stops  *)
(* it again.                                                               *)
MayStop == kind = "listen" /\ owner # "stopping" /\ place \notin {"telling", "resting", "ending"}

Stops ==
  /\ MayStop
  /\ stopped' = TRUE
  /\ owner' = "stopping"
  /\ UNCHANGED <<kind, commandVars, reaped, place, grace, overdue, outcome, told, hit>>

StopKills ==
  /\ owner = "stopping"
  /\ Kill
  /\ owner' = "left"
  /\ UNCHANGED <<kind, reaped, place, grace, overdue, outcome, stopped, told>>

-----------------------------------------------------------------------------
ProcessNext == Command \/ Reads \/ DeadlinePasses \/ Stops \/ StopKills

(* Threads run and clocks too; the command owes nothing.                   *)
ProcessFair ==
  /\ WF_processVars(Reads) /\ WF_processVars(DeadlinePasses) /\ WF_processVars(StopKills)

ProcessSpec == ProcessInit /\ [][ProcessNext]_processVars /\ ProcessFair

-----------------------------------------------------------------------------
(* "A kill can never be aimed at a group number the system has already     *)
(* handed to something else."                                              *)
KillsOwn == ~hit

(* "The callback is not called again once this returns - not for a line    *)
(* already read, and not for the end."                                     *)
StopIsFinal == [][owner = "left" => told' = told]_processVars

(* "A run ends with its group": what it started in the background goes,    *)
(* unless it has left the group, however the run ended.                    *)
GroupEnds == place = "done" => procs \cap Members = {}

(* A listener that was not stopped hears of its end, once and last.        *)
EndsLast ==
  /\ \A i \in DOMAIN told : told[i] = "end" => i = Len(told)
  /\ place = "done" /\ kind = "listen" /\ ~stopped => told # <<>> /\ told[Len(told)] = "end"

(* Reading and stopping a command from two threads.                        *)
CommandsContained == [](KillsOwn /\ GroupEnds /\ EndsLast) /\ StopIsFinal

(* A run ends by its deadline, and a listener once its command has exited  *)
(* or it was stopped, though something it left behind holds the pipes.     *)
RunsEnd == kind = "run" \/ stopped \/ "leader" \notin procs ~> place = "done"
=============================================================================
