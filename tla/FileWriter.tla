----------------------------- MODULE FileWriter -----------------------------
(***************************************************************************)
(* The one thread that rewrites the shell's files                          *)
(* (crates/util/src/writer.rs) over the atomic replacement of one file     *)
(* (crates/util/src/fs.rs).                                                *)
(*                                                                         *)
(* The bytes of a write are abstracted to its serial: the place of the     *)
(* request among all the requests ever made.  "Newer" is "larger".  A      *)
(* serial survives a crash of the shell, a generation does not: the writer *)
(* counts generations per path and per process.                            *)
(*                                                                         *)
(* disk[p] is what a reader of path p sees, durable[p] what a power cut    *)
(* leaves there; they differ between the rename and the flush of the       *)
(* directory.                                                              *)
(***************************************************************************)
EXTENDS Integers, Sequences

CONSTANTS
  Paths,        \* the files the shell rewrites
  Callers,      \* the threads that ask for writes
  Writer,       \* the writer thread
  Nobody,       \* no caller waits for this job's outcome
  Spawns,       \* how spawning the writer may end: "threaded" or "inline"
  MaxWrites,    \* bound: requests made in a behaviour
  MaxCrashes    \* bound: crashes of the shell in a behaviour

ASSUME WriterAssumption ==
  /\ Writer \notin Callers
  /\ Nobody \notin Callers
  /\ Spawns \subseteq {"threaded", "inline"}
  /\ MaxWrites \in Nat
  /\ MaxCrashes \in Nat

Threads == Callers \cup {Writer}

Job == [path: Paths, serial: Nat, generation: Nat, answer: Callers \cup {Nobody}]

Outcome == {"none", "ok", "err"}

VARIABLES
  writer,     \* the OnceLock: "unset", "threaded", or "inline" (no thread could be spawned)
  jobs,       \* Queue.jobs
  submitted,  \* Queue.paths, Track.submitted
  written,    \* Queue.paths, Track.written
  working,    \* Queue.working
  pc,         \* where each thread is
  held,       \* the job each thread carries out; meaningful while it does
  outcome,    \* how the write a thread carries out ended
  landed,     \* whether the writer will record the generation it holds
  reply,      \* the answer channel of each caller that waits
  disk, durable,
  serial,     \* requests made so far
  crashes,
  \* History, read by the properties only.
  asked,      \* per path the newest request of this process
  acked,      \* per path the newest request whose caller was told Ok
  failed      \* per path the newest request whose write ended in an error

queueVars == <<jobs, submitted, written, working>>
fileVars  == <<disk, durable>>
histVars  == <<asked, acked, failed>>
vars == <<writer, queueVars, pc, held, outcome, landed, reply, fileVars,
          serial, crashes, histVars>>

Zero == [p \in Paths |-> 0]

(* Callers are "idle" or inside write ("stage" .. "sync" inline, "recv"),  *)
(* or flush ("drain" about to look at the queue, "asleep" on the condvar). *)
CallerPc == {"idle", "stage", "rename", "sync", "return", "recv", "drain", "asleep"}
WriterPc == {"absent", "next", "asleep", "stage", "rename", "sync", "finish", "answer"}

(* A thread that is there carries a job out, or has just done so.          *)
HasJob == {"stage", "rename", "sync", "finish", "answer", "return"}

QueueType ==
  /\ writer \in {"unset", "threaded", "inline"}
  /\ jobs \in Seq(Job)
  /\ submitted \in [Paths -> Nat]
  /\ written \in [Paths -> Nat]
  /\ working \in BOOLEAN

PcType ==
  /\ pc \in [Threads -> CallerPc \cup WriterPc]
  /\ pc[Writer] \in WriterPc
  /\ \A c \in Callers : pc[c] \in CallerPc

WorkType ==
  /\ held \in [Threads -> Job \cup {Nobody}]
  /\ \A t \in Threads : pc[t] \in HasJob => held[t] \in Job
  /\ outcome \in [Threads -> Outcome]
  /\ landed \in BOOLEAN
  /\ reply \in [Callers -> Outcome]

FileType ==
  /\ disk \in [Paths -> Nat]
  /\ durable \in [Paths -> Nat]
  /\ serial \in Nat
  /\ crashes \in Nat
  /\ asked \in [Paths -> Nat]
  /\ acked \in [Paths -> Nat]
  /\ failed \in [Paths -> Nat]

TypeOK == QueueType /\ PcType /\ WorkType /\ FileType

(* A process that has not written yet: no thread, an empty queue.          *)
FreshPc == [t \in Threads |-> IF t = Writer THEN "absent" ELSE "idle"]

Init ==
  /\ writer = "unset"
  /\ jobs = <<>>
  /\ submitted = Zero
  /\ written = Zero
  /\ working = FALSE
  /\ pc = FreshPc
  /\ held = [t \in Threads |-> Nobody]
  /\ outcome = [t \in Threads |-> "none"]
  /\ landed = FALSE
  /\ reply = [c \in Callers |-> "none"]
  /\ disk = Zero
  /\ durable = Zero
  /\ serial = 0
  /\ crashes = 0
  /\ asked = Zero
  /\ acked = Zero
  /\ failed = Zero

-----------------------------------------------------------------------------
(* Helpers.                                                                *)

(* Track::stale.                                                           *)
StaleEvenWaited(job) ==
  \/ job.generation <= written[job.path]
  \/ job.generation < submitted[job.path]

Stale(job) ==
  \/ job.generation <= written[job.path]
  \/ job.answer = Nobody /\ job.generation < submitted[job.path]

(* VecDeque::push_back.                                                    *)
PushedInFront(queue, job) == <<job>> \o queue

Pushed(queue, job) == Append(queue, job)

(* What a condvar's notify_all does to the threads asleep on it: a woken   *)
(* writer goes back to its loop in next, a woken flush to its own.         *)
WokenIntoNext(t) == "next"

Woken(t) == IF t = Writer THEN "next" ELSE "drain"

NotifyFlush(p)  == [t \in Threads |-> IF p[t] = "asleep" /\ t # Writer THEN "drain" ELSE p[t]]

NotifyAll(p) == [t \in Threads |-> IF p[t] = "asleep" THEN Woken(t) ELSE p[t]]

(* The condition flush waits for.                                          *)
QueueEmpty == jobs = <<>>

Drained == jobs = <<>> /\ ~working

-----------------------------------------------------------------------------
(* Callers.                                                                *)

NewJob(c, p, waited, generation) ==
  [path |-> p, serial |-> serial + 1, generation |-> generation,
   answer |-> IF waited THEN c ELSE Nobody]

(* The job joins the queue and wakes the writer.                           *)
HandOver(c, p, waited) ==
  /\ writer' = "threaded"
  /\ submitted' = [submitted EXCEPT ![p] = @ + 1]
  /\ jobs' = Pushed(jobs, NewJob(c, p, waited, submitted[p] + 1))
  /\ LET started == IF writer = "unset" THEN [pc EXCEPT ![Writer] = "next"] ELSE pc
     IN  pc' = [NotifyAll(started) EXCEPT ![c] = IF waited THEN "recv" ELSE "idle"]
  /\ UNCHANGED held

(* No thread to hand it to: the caller carries its own write out.          *)
CarryOut(c, p, waited) ==
  /\ writer' = "inline"
  /\ held' = [held EXCEPT ![c] = NewJob(c, p, waited, 0)]
  /\ pc' = [pc EXCEPT ![c] = "stage"]
  /\ UNCHANGED <<submitted, jobs>>

(* queue (waited = FALSE) and write (waited = TRUE) up to the end of       *)
(* enqueue.  The first request of a process starts the writer thread, or   *)
(* finds that it cannot.                                                   *)
Enqueue(c, p, waited) ==
  /\ pc[c] = "idle"
  /\ serial < MaxWrites
  /\ writer' \in IF writer = "unset" THEN Spawns ELSE {writer}
  /\ HandOver(c, p, waited) \/ CarryOut(c, p, waited)
  /\ serial' = serial + 1
  /\ asked' = [asked EXCEPT ![p] = serial + 1]
  /\ reply' = [reply EXCEPT ![c] = "none"]
  /\ UNCHANGED <<written, working, outcome, landed, fileVars, crashes, acked, failed>>

(* Ok told to a caller of write for the request s on path p.               *)
Acked(p, s) == [acked EXCEPT ![p] = IF s > @ THEN s ELSE @]

(* write returns on the outcome the writer sent.                           *)
Receive(c) ==
  /\ pc[c] = "recv"
  /\ reply[c] # "none"
  /\ pc' = [pc EXCEPT ![c] = "idle"]
  /\ UNCHANGED <<writer, queueVars, held, outcome, landed, reply, fileVars, serial, crashes, histVars>>

(* write or queue returns on the outcome of the caller's own write.        *)
ReturnInline(c) ==
  /\ pc[c] = "return"
  /\ pc' = [pc EXCEPT ![c] = "idle"]
  /\ acked' = IF outcome[c] = "ok" /\ held[c].answer = c
                THEN Acked(held[c].path, held[c].serial) ELSE acked
  /\ held' = [held EXCEPT ![c] = Nobody]
  /\ outcome' = [outcome EXCEPT ![c] = "none"]
  /\ UNCHANGED <<writer, queueVars, landed, reply, fileVars, serial, crashes, asked, failed>>

(* flush: a call, and each turn of its loop.  Nothing was ever written: it *)
(* returns without starting a thread.                                      *)
FlushCall(c) ==
  /\ pc[c] = "idle"
  /\ writer # "unset"
  /\ pc' = [pc EXCEPT ![c] = "drain"]
  /\ UNCHANGED <<writer, queueVars, held, outcome, landed, reply, fileVars, serial, crashes, histVars>>

FlushReturn(c) ==
  /\ pc[c] = "drain"
  /\ Drained
  /\ pc' = [pc EXCEPT ![c] = "idle"]
  /\ UNCHANGED <<writer, queueVars, held, outcome, landed, reply, fileVars, serial, crashes, histVars>>

FlushWait(c) ==
  /\ pc[c] = "drain"
  /\ ~Drained
  /\ pc' = [pc EXCEPT ![c] = "asleep"]
  /\ UNCHANGED <<writer, queueVars, held, outcome, landed, reply, fileVars, serial, crashes, histVars>>

-----------------------------------------------------------------------------
(* write_atomic, on the thread t that carries held[t] out.                 *)

After(t) == IF t = Writer THEN "finish" ELSE "return"

(* A plausible slip: the error is dropped on its way to the caller.        *)
FailsSilently(t) ==
  /\ pc' = [pc EXCEPT ![t] = After(t)]
  /\ outcome' = [outcome EXCEPT ![t] = "ok"]
  /\ failed' = [failed EXCEPT ![held[t].path] =
                  IF held[t].serial > @ THEN held[t].serial ELSE @]

(* The write ends in an error.                                             *)
Fails(t) ==
  /\ pc' = [pc EXCEPT ![t] = After(t)]
  /\ outcome' = [outcome EXCEPT ![t] = "err"]
  /\ failed' = [failed EXCEPT ![held[t].path] =
                  IF held[t].serial > @ THEN held[t].serial ELSE @]

(* stage: a complete, flushed sibling of the target, or an error that      *)
(* leaves the target alone.                                                *)
Stage(t) ==
  /\ pc[t] = "stage"
  /\ \/ /\ pc' = [pc EXCEPT ![t] = "rename"]
        /\ UNCHANGED <<outcome, failed>>
     \/ Fails(t)
  /\ UNCHANGED <<writer, queueVars, held, landed, reply, fileVars, serial, crashes, asked, acked>>

(* The rename of commit: from here every reader sees the new contents.     *)
Rename(t) ==
  /\ pc[t] = "rename"
  /\ \/ /\ disk' = [disk EXCEPT ![held[t].path] = held[t].serial]
        /\ pc' = [pc EXCEPT ![t] = "sync"]
        /\ UNCHANGED <<outcome, failed>>
     \/ /\ Fails(t)
        /\ UNCHANGED disk
  /\ UNCHANGED <<writer, queueVars, held, landed, reply, durable, serial, crashes, asked, acked>>

(* The flush of the directory: the name as it stands becomes durable.  An  *)
(* error here leaves the new contents in place.                            *)
Sync(t) ==
  /\ pc[t] = "sync"
  /\ \/ /\ durable' = [durable EXCEPT ![held[t].path] = disk[held[t].path]]
        /\ pc' = [pc EXCEPT ![t] = After(t)]
        /\ outcome' = [outcome EXCEPT ![t] = "ok"]
        /\ UNCHANGED failed
     \/ /\ Fails(t)
        /\ UNCHANGED durable
  /\ landed' = IF t = Writer THEN outcome'[t] = "ok" ELSE landed
  /\ UNCHANGED <<writer, queueVars, held, reply, disk, serial, crashes, asked, acked>>

-----------------------------------------------------------------------------
(* The writer thread.                                                      *)

(* next: the verdict is taken under the lock that takes the job.           *)
TakeJob ==
  /\ pc[Writer] = "next"
  /\ jobs # <<>>
  /\ IF Stale(Head(jobs))
       THEN /\ pc' = [pc EXCEPT ![Writer] = "finish"]
            /\ outcome' = [outcome EXCEPT ![Writer] = "ok"]
       ELSE /\ pc' = [pc EXCEPT ![Writer] = "stage"]
            /\ UNCHANGED outcome
  /\ jobs' = Tail(jobs)
  /\ working' = TRUE
  /\ landed' = FALSE
  /\ held' = [held EXCEPT ![Writer] = Head(jobs)]
  /\ UNCHANGED <<writer, submitted, written, reply, fileVars, serial, crashes, histVars>>

Sleep ==
  /\ pc[Writer] = "next"
  /\ jobs = <<>>
  /\ pc' = [pc EXCEPT ![Writer] = "asleep"]
  /\ UNCHANGED <<writer, queueVars, held, outcome, landed, reply, fileVars, serial, crashes, histVars>>

Finish ==
  /\ pc[Writer] = "finish"
  /\ written' = IF landed
                  THEN [written EXCEPT ![held[Writer].path] = held[Writer].generation]
                  ELSE written
  /\ working' = FALSE
  /\ pc' = [NotifyAll(pc) EXCEPT ![Writer] = "answer"]
  /\ UNCHANGED <<writer, jobs, submitted, held, outcome, landed, reply, fileVars, serial, crashes, histVars>>

(* The outcome goes to the caller that waits, or to the log.               *)
Answer ==
  /\ pc[Writer] = "answer"
  /\ pc' = [pc EXCEPT ![Writer] = "next"]
  /\ LET job == held[Writer]
     IN  IF job.answer = Nobody
           THEN UNCHANGED <<reply, acked>>
           ELSE /\ reply' = [reply EXCEPT ![job.answer] = outcome[Writer]]
                /\ acked' = IF outcome[Writer] = "ok" THEN Acked(job.path, job.serial) ELSE acked
  /\ held' = [held EXCEPT ![Writer] = Nobody]
  /\ outcome' = [outcome EXCEPT ![Writer] = "none"]
  /\ UNCHANGED <<writer, queueVars, landed, fileVars, serial, crashes, asked, failed>>

-----------------------------------------------------------------------------
(* The shell dies and is started again.  A power cut takes back any rename *)
(* whose directory was not flushed; a killed process takes back none.      *)
Crash ==
  /\ crashes < MaxCrashes
  /\ crashes' = crashes + 1
  /\ \E cut \in SUBSET Paths :
        /\ disk' = [p \in Paths |-> IF p \in cut THEN durable[p] ELSE disk[p]]
        /\ durable' = disk'
  /\ asked' = disk'
  /\ writer' = "unset"
  /\ jobs' = <<>>
  /\ submitted' = Zero
  /\ written' = Zero
  /\ working' = FALSE
  /\ pc' = FreshPc
  /\ held' = [t \in Threads |-> Nobody]
  /\ outcome' = [t \in Threads |-> "none"]
  /\ landed' = FALSE
  /\ reply' = [c \in Callers |-> "none"]
  /\ UNCHANGED <<serial, acked, failed>>

CallerStep(c) ==
  \/ \E p \in Paths, waited \in BOOLEAN : Enqueue(c, p, waited)
  \/ FlushCall(c)

Carry(t) == Stage(t) \/ Rename(t) \/ Sync(t)

Resume(c) ==
  Receive(c) \/ ReturnInline(c) \/ FlushReturn(c) \/ FlushWait(c) \/ Carry(c)

WriterStep == TakeJob \/ Sleep \/ Carry(Writer) \/ Finish \/ Answer

Next ==
  \/ \E c \in Callers : CallerStep(c) \/ Resume(c)
  \/ WriterStep
  \/ Crash

(* A thread the scheduler runs takes its next step; nothing obliges a      *)
(* caller to ask for anything, or the shell to crash.                      *)
Spec == Init /\ [][Next]_vars /\ WF_vars(WriterStep) /\ \A c \in Callers : WF_vars(Resume(c))

-----------------------------------------------------------------------------
(* Properties.                                                             *)

Promised == INSTANCE Files
  WITH wanted <- asked, file <- disk, device <- durable, promised <- acked

(* To everybody else the writer is the plain register of Files: behind the *)
(* queue, the generations and the thread, a file takes only newer contents *)
(* that were asked of it, and an Ok is about the device.                   *)
IsRegister == Promised!Spec

(* Bytes older than what is on disk never replace them, whatever the order *)
(* the callers, the writer and its failures come in (writer.rs, Track).    *)
(* It fails where no writer thread could be spawned and two callers write. *)
DiskForward ==
  [][crashes' = crashes => \A p \in Paths : disk'[p] >= disk[p]]_vars

(* A write whose caller was told Ok is on the device, or has been replaced *)
(* by a newer one that is: no crash and no power cut takes it back.        *)
AckDurable == \A p \in Paths : durable[p] >= acked[p]

(* When flush returns, the last thing asked of every path is what the path *)
(* holds, unless its write, or a newer one's, ended in an error.           *)
FlushHonest ==
  [][\A c \in Callers :
        (pc[c] = "drain" /\ pc'[c] = "idle" /\ crashes' = crashes)
          => \A p \in Paths : disk[p] = asked[p] \/ failed[p] = asked[p]]_vars

(* write returns: the writer is never asleep while a job waits for it, and *)
(* a job is never taken without an answer.                                 *)
WriteReturns == \A c \in Callers : pc[c] = "recv" ~> pc[c] = "idle"

(* flush returns once the callers stop asking (MaxWrites bounds them here).*)
FlushReturns == \A c \in Callers : pc[c] = "drain" ~> pc[c] = "idle"

(* Whoever waits for the writer is answered.                               *)
CallsReturn == WriteReturns /\ FlushReturns
=============================================================================
