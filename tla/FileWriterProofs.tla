-------------------------- MODULE FileWriterProofs --------------------------
(* The promises of the file writer hold for any files, any callers and any *)
(* bound, whenever the process could spawn the writer thread.              *)
EXTENDS FileWriter, TLAPS

-----------------------------------------------------------------------------
(* Why they hold.  Each part is a fact about the queue between two steps.  *)

Carrying == pc[Writer] \in {"stage", "rename", "sync"}
Busy     == pc[Writer] \in {"stage", "rename", "sync", "finish", "answer"}

(* With a writer thread no caller carries a write out itself.              *)
NoInline ==
  /\ writer \in {"unset", "threaded"}
  /\ writer = "unset" => pc[Writer] = "absent"
  /\ \A c \in Callers : pc[c] \in {"idle", "recv", "drain", "asleep"}

(* The writer holds a job exactly while it works on one.                   *)
HeldOK ==
  /\ Busy => held[Writer] \in Job
  /\ working <=> pc[Writer] \in {"stage", "rename", "sync", "finish"}

(* Jobs leave the queue in the order they were asked for.                  *)
QueueOrder ==
  /\ \A i, j \in DOMAIN jobs : i < j => jobs[i].serial < jobs[j].serial
  /\ \A i \in DOMAIN jobs :
        /\ jobs[i].serial <= serial
        /\ Busy => held[Writer].serial < jobs[i].serial
  /\ Busy => held[Writer].serial <= serial

(* Per path, generations are in the same order, between those written and  *)
(* those submitted; the newest request has the newest generation.          *)
GenerationOrder ==
  /\ \A i, j \in DOMAIN jobs :
        i < j /\ jobs[i].path = jobs[j].path => jobs[i].generation < jobs[j].generation
  /\ \A i \in DOMAIN jobs :
        /\ written[jobs[i].path] < jobs[i].generation
        /\ jobs[i].generation <= submitted[jobs[i].path]
        /\ jobs[i].serial = asked[jobs[i].path] => jobs[i].generation = submitted[jobs[i].path]
        /\ Busy /\ held[Writer].path = jobs[i].path
             => held[Writer].generation < jobs[i].generation
  /\ Busy => held[Writer].generation <= submitted[held[Writer].path]
  /\ \A p \in Paths : written[p] <= submitted[p]

(* What is on disk, and what has failed, is older than all that waits.     *)
DiskBehind ==
  /\ \A p \in Paths : durable[p] <= disk[p] /\ disk[p] <= serial /\ failed[p] <= serial
  /\ \A i \in DOMAIN jobs : disk[jobs[i].path] < jobs[i].serial
                          /\ failed[jobs[i].path] < jobs[i].serial
  /\ Carrying => failed[held[Writer].path] < held[Writer].serial
  /\ pc[Writer] \in {"stage", "rename"} => disk[held[Writer].path] < held[Writer].serial
  /\ pc[Writer] = "sync" => disk[held[Writer].path] = held[Writer].serial

(* An Ok on its way to a caller is about bytes already durable.            *)
OkDurable ==
  pc[Writer] \in {"finish", "answer"} /\ outcome[Writer] = "ok" /\ held[Writer].answer # Nobody
    => held[Writer].serial <= durable[held[Writer].path]

(* The newest request of a path has landed, has failed, or is on its way.  *)
NewestKept ==
  \A p \in Paths :
    /\ asked[p] <= serial
    /\ \A i \in DOMAIN jobs : jobs[i].path = p => jobs[i].serial <= asked[p]
    /\ Busy /\ held[Writer].path = p => held[Writer].serial <= asked[p]
    /\ \/ disk[p] = asked[p]
       \/ failed[p] = asked[p]
       \/ \E i \in DOMAIN jobs : jobs[i].path = p /\ jobs[i].serial = asked[p]
       \/ /\ pc[Writer] \in {"stage", "rename"}
          /\ held[Writer].path = p
          /\ held[Writer].serial = asked[p]

IInv ==
  /\ TypeOK
  /\ NoInline
  /\ HeldOK
  /\ QueueOrder
  /\ GenerationOrder
  /\ DiskBehind
  /\ OkDurable
  /\ NewestKept
  /\ AckDurable

(* The writer is a thread and no caller.                                   *)
LEMMA ThreadFacts ==
  /\ Writer \in Threads
  /\ \A c \in Callers : c \in Threads /\ c # Writer
  /\ \A t \in Threads : t = Writer \/ t \in Callers
  BY WriterAssumption DEF Threads

USE ThreadFacts

(* TypeOK is an invariant: every variable keeps its type.                  *)
LEMMA TypeInit == Init => TypeOK
<1> SUFFICES ASSUME Init PROVE TypeOK
  OBVIOUS
<1> USE DEF Init, FreshPc, Zero
<1>1. QueueType
  <2>1. jobs \in Seq(Job)
    OBVIOUS
  <2> QED
    BY <2>1 DEF QueueType
<1>2. PcType
  BY DEF PcType, CallerPc, WriterPc
<1>3. WorkType
  BY DEF WorkType, Outcome, HasJob
<1>4. FileType
  BY DEF FileType
<1> QED
  BY <1>1, <1>2, <1>3, <1>4 DEF TypeOK

(* Every step of a caller, of the writer and of a crash keeps the types.    *)
LEMMA TypeNext == TypeOK /\ [Next]_vars => TypeOK'
<1> SUFFICES ASSUME TypeOK, [Next]_vars PROVE TypeOK'
  OBVIOUS
<1>0. QueueType /\ PcType /\ WorkType /\ FileType
  BY DEF TypeOK
<1>1. ASSUME NEW c \in Callers, NEW p \in Paths, NEW waited \in BOOLEAN, Enqueue(c, p, waited)
      PROVE TypeOK'
  <2>1. QueueType'
    <3>1. ASSUME NEW gen \in Nat PROVE NewJob(c, p, waited, gen) \in Job
      BY <1>0 DEF NewJob, Job, FileType
    <3>2. HandOver(c, p, waited) \/ CarryOut(c, p, waited)
      BY <1>1 DEF Enqueue
    <3>3. submitted[p] + 1 \in Nat /\ jobs \in Seq(Job) /\ submitted \in [Paths -> Nat]
      BY <1>0 DEF QueueType
    <3>4. (jobs \in Seq(Job))'
      <4>1. jobs' = jobs \/ jobs' = Append(jobs, NewJob(c, p, waited, submitted[p] + 1))
        BY <3>2 DEF Pushed, HandOver, CarryOut
      <4> QED
        BY <3>1, <3>3, <4>1
    <3>5. (submitted \in [Paths -> Nat])'
      BY <3>2, <3>3 DEF HandOver, CarryOut
    <3> QED
      BY <1>0, <1>1, <3>4, <3>5, WriterAssumption DEF QueueType, Enqueue
  <2> USE DEF Enqueue, HandOver, CarryOut, fileVars
  <2>2. PcType'
    BY <1>0, <1>1 DEF PcType, CallerPc, WriterPc, NotifyAll, Woken
  <2>3. WorkType'
    <3>1. NewJob(c, p, waited, 0) \in Job
      BY <1>0 DEF NewJob, Job, FileType
    <3>2. (held \in [Threads -> Job \cup {Nobody}])'
      BY <1>0, <1>1, <3>1 DEF WorkType
    <3>3. ASSUME NEW t \in Threads, pc'[t] \in HasJob
          PROVE held'[t] \in Job
      BY <1>0, <1>1, <3>1, <3>3 DEF WorkType, PcType, HasJob, NotifyAll, Woken
    <3> QED
      BY <1>0, <1>1, <3>2, <3>3 DEF WorkType, Outcome
  <2>4. FileType'
    BY <1>0, <1>1 DEF FileType
  <2> QED
    BY <2>1, <2>2, <2>3, <2>4 DEF TypeOK
<1>2. ASSUME NEW c \in Callers, Receive(c) \/ FlushCall(c) \/ FlushReturn(c) \/ FlushWait(c)
      PROVE TypeOK'
  <2> USE DEF Receive, FlushCall, FlushReturn, FlushWait, queueVars, fileVars, histVars
  <2>1. QueueType'
    BY <1>0, <1>2 DEF QueueType
  <2>2. PcType'
    BY <1>0, <1>2 DEF PcType, CallerPc, WriterPc
  <2>3. WorkType'
    BY <1>0, <1>2 DEF WorkType, PcType, CallerPc, WriterPc, HasJob, Outcome
  <2>4. FileType'
    BY <1>0, <1>2 DEF FileType
  <2> QED
    BY <2>1, <2>2, <2>3, <2>4 DEF TypeOK
<1>3. ASSUME NEW c \in Callers, ReturnInline(c)
      PROVE TypeOK'
  <2> USE DEF ReturnInline, queueVars, fileVars
  <2>1. QueueType'
    BY <1>0, <1>3 DEF QueueType
  <2>2. PcType'
    BY <1>0, <1>3 DEF PcType, CallerPc, WriterPc
  <2>3. WorkType'
    BY <1>0, <1>3 DEF WorkType, PcType, CallerPc, WriterPc, HasJob, Outcome
  <2>4. FileType'
    BY <1>0, <1>3 DEF FileType, Acked, Job, WorkType, PcType, HasJob, WriterPc, CallerPc
  <2> QED
    BY <2>1, <2>2, <2>3, <2>4 DEF TypeOK
<1>4. ASSUME NEW t \in Threads, Stage(t)
      PROVE TypeOK'
  <2> USE DEF Stage, Fails, After, queueVars, fileVars
  <2>1. QueueType'
    BY <1>0, <1>4 DEF QueueType
  <2>2. PcType'
    BY <1>0, <1>4 DEF PcType, CallerPc, WriterPc
  <2>3. WorkType'
    BY <1>0, <1>4 DEF WorkType, PcType, CallerPc, WriterPc, HasJob, Outcome
  <2>4. FileType'
    BY <1>0, <1>4 DEF FileType, Job, WorkType, PcType, HasJob, WriterPc, CallerPc
  <2> QED
    BY <2>1, <2>2, <2>3, <2>4 DEF TypeOK
<1>5. ASSUME NEW t \in Threads, Rename(t)
      PROVE TypeOK'
  <2> USE DEF Rename, Fails, After, queueVars
  <2>1. QueueType'
    BY <1>0, <1>5 DEF QueueType
  <2>2. PcType'
    BY <1>0, <1>5 DEF PcType, CallerPc, WriterPc
  <2>3. WorkType'
    BY <1>0, <1>5 DEF WorkType, PcType, CallerPc, WriterPc, HasJob, Outcome
  <2>4. FileType'
    BY <1>0, <1>5 DEF FileType, Job, WorkType, PcType, HasJob, WriterPc, CallerPc
  <2> QED
    BY <2>1, <2>2, <2>3, <2>4 DEF TypeOK
<1>6. ASSUME NEW t \in Threads, Sync(t)
      PROVE TypeOK'
  <2> USE DEF Sync, Fails, After, queueVars
  <2>1. QueueType'
    BY <1>0, <1>6 DEF QueueType
  <2>2. PcType'
    BY <1>0, <1>6 DEF PcType, CallerPc, WriterPc
  <2>3. WorkType'
    BY <1>0, <1>6 DEF WorkType, PcType, CallerPc, WriterPc, HasJob, Outcome
  <2>4. FileType'
    BY <1>0, <1>6 DEF FileType, Job, WorkType, PcType, HasJob, WriterPc, CallerPc
  <2> QED
    BY <2>1, <2>2, <2>3, <2>4 DEF TypeOK
<1>7. CASE TakeJob
  <2> USE DEF TakeJob, fileVars, histVars
  <2>1. QueueType'
    BY <1>0, <1>7 DEF QueueType
  <2>2. PcType'
    BY <1>0, <1>7 DEF PcType, CallerPc, WriterPc
  <2>3. WorkType'
    <3>1. Head(jobs) \in Job
      BY <1>0, <1>7 DEF QueueType
    <3>2. (held \in [Threads -> Job \cup {Nobody}])'
      BY <1>0, <1>7, <3>1 DEF WorkType
    <3>3. ASSUME NEW t \in Threads, pc'[t] \in HasJob
          PROVE held'[t] \in Job
      BY <1>0, <1>7, <3>1, <3>3 DEF WorkType, PcType
    <3> QED
      BY <1>0, <1>7, <3>2, <3>3 DEF WorkType, Outcome
  <2>4. FileType'
    BY <1>0, <1>7 DEF FileType
  <2> QED
    BY <2>1, <2>2, <2>3, <2>4 DEF TypeOK
<1>8. CASE Sleep
  <2> USE DEF Sleep, queueVars, fileVars, histVars
  <2>1. QueueType'
    BY <1>0, <1>8 DEF QueueType
  <2>2. PcType'
    BY <1>0, <1>8 DEF PcType, CallerPc, WriterPc
  <2>3. WorkType'
    BY <1>0, <1>8 DEF WorkType, PcType, CallerPc, WriterPc, HasJob, Outcome
  <2>4. FileType'
    BY <1>0, <1>8 DEF FileType
  <2> QED
    BY <2>1, <2>2, <2>3, <2>4 DEF TypeOK
<1>9. CASE Finish
  <2> USE DEF Finish, fileVars, histVars
  <2>1. QueueType'
    BY <1>0, <1>9 DEF QueueType, Job, WorkType, PcType, HasJob, WriterPc, CallerPc
  <2>2. PcType'
    BY <1>0, <1>9 DEF PcType, CallerPc, WriterPc, NotifyAll, Woken
  <2>3. WorkType'
    BY <1>0, <1>9 DEF WorkType, PcType, CallerPc, WriterPc, HasJob, Outcome, NotifyAll, Woken
  <2>4. FileType'
    BY <1>0, <1>9 DEF FileType
  <2> QED
    BY <2>1, <2>2, <2>3, <2>4 DEF TypeOK
<1>10. CASE Answer
  <2> USE DEF Answer, queueVars, fileVars
  <2>1. QueueType'
    BY <1>0, <1>10 DEF QueueType
  <2>2. PcType'
    BY <1>0, <1>10 DEF PcType, CallerPc, WriterPc
  <2>3. WorkType'
    BY <1>0, <1>10 DEF WorkType, PcType, CallerPc, WriterPc, HasJob, Outcome, Job
  <2>4. FileType'
    BY <1>0, <1>10 DEF FileType, Acked, Job, WorkType, PcType, HasJob, WriterPc, CallerPc
  <2> QED
    BY <2>1, <2>2, <2>3, <2>4 DEF TypeOK
<1>11. CASE Crash
  <2> USE DEF Crash, Zero, FreshPc
  <2>1. QueueType'
    <3>1. (jobs \in Seq(Job))'
      BY <1>11
    <3>2. (submitted \in [Paths -> Nat] /\ written \in [Paths -> Nat])'
      BY <1>11
    <3> QED
      BY <1>11, <3>1, <3>2 DEF QueueType
  <2>2. PcType'
    BY <1>0, <1>11 DEF PcType, CallerPc, WriterPc
  <2>3. WorkType'
    BY <1>0, <1>11 DEF WorkType, PcType, CallerPc, WriterPc, HasJob, Outcome
  <2>4. FileType'
    BY <1>0, <1>11 DEF FileType
  <2> QED
    BY <2>1, <2>2, <2>3, <2>4 DEF TypeOK
<1>12. CASE UNCHANGED vars
  <2> USE DEF vars, queueVars, fileVars, histVars
  <2>1. QueueType'
    BY <1>0, <1>12 DEF QueueType
  <2>2. PcType'
    BY <1>0, <1>12 DEF PcType, CallerPc, WriterPc
  <2>3. WorkType'
    BY <1>0, <1>12 DEF WorkType, PcType, CallerPc, WriterPc, HasJob, Outcome
  <2>4. FileType'
    BY <1>0, <1>12 DEF FileType
  <2> QED
    BY <2>1, <2>2, <2>3, <2>4 DEF TypeOK
<1> QED
  BY <1>1, <1>2, <1>3, <1>4, <1>5, <1>6, <1>7, <1>8, <1>9, <1>10, <1>11, <1>12
  DEF Next, CallerStep, Resume, Carry, WriterStep

(* The types the invariant's proof reads, one value at a time.             *)
JobFacts(job) ==
  job.path \in Paths /\ job.serial \in Nat /\ job.generation \in Nat

(* What the types say of each queued job and each path, value by value.     *)
LEMMA TypeFacts ==
  ASSUME TypeOK
  PROVE  /\ serial \in Nat
         /\ \A p \in Paths : /\ disk[p] \in Nat /\ durable[p] \in Nat
                             /\ asked[p] \in Nat /\ acked[p] \in Nat /\ failed[p] \in Nat
                             /\ submitted[p] \in Nat /\ written[p] \in Nat
         /\ Len(jobs) \in Nat /\ DOMAIN jobs = 1..Len(jobs)
         /\ \A i \in 1..Len(jobs) : JobFacts(jobs[i])
         /\ Busy => JobFacts(held[Writer])
<1>1. \A job \in Job : JobFacts(job)
  BY DEF Job, JobFacts
<1>2. jobs \in Seq(Job) /\ (Busy => held[Writer] \in Job)
  BY DEF TypeOK, QueueType, WorkType, Busy, HasJob
<1>3. DOMAIN jobs = 1..Len(jobs) /\ Len(jobs) \in Nat /\ \A i \in 1..Len(jobs) : jobs[i] \in Job
  BY <1>2
<1>4. \A p \in Paths : submitted[p] \in Nat /\ written[p] \in Nat
  BY DEF TypeOK, QueueType
<1> QED
  BY <1>1, <1>2, <1>3, <1>4 DEF TypeOK, FileType

-----------------------------------------------------------------------------
(* The process could spawn the writer thread.                              *)
Threaded == Spawns = {"threaded"}

(* The steps that move neither the queue, nor the writer past a busy line, *)
(* nor a file.                                                             *)
Idle ==
  /\ UNCHANGED <<jobs, submitted, written, working, held, outcome, fileVars, serial, histVars>>
  /\ \A l \in HasJob : pc'[Writer] = l <=> pc[Writer] = l

(* Calls, wakes and returns that touch no job and no file are Idle.         *)
LEMMA IdleSteps ==
  ASSUME TypeOK, [Next]_vars,
         \/ \E c \in Callers : FlushCall(c) \/ Receive(c) \/ FlushReturn(c) \/ FlushWait(c)
         \/ Sleep
         \/ UNCHANGED vars
  PROVE  Idle
  BY DEF Idle, TypeOK, PcType, WriterPc, HasJob, FlushCall, Receive, FlushReturn, FlushWait,
         Sleep, vars, queueVars, fileVars, histVars

(* The invariant holds at the start and every step preserves it.           *)
LEMMA InvInit == Init => IInv
<1> SUFFICES ASSUME Init PROVE IInv
  OBVIOUS
<1>1. TypeOK
  BY TypeInit
<1> QED
  BY <1>1 DEF Init, FreshPc, Zero, IInv, NoInline, HeldOK, QueueOrder, GenerationOrder, DiskBehind,
     OkDurable, NewestKept, AckDurable, Busy, Carrying

(* With a writer thread, each step of each thread preserves the invariant. *)
LEMMA InvNext == ASSUME Threaded, IInv, [Next]_vars PROVE IInv'
<1>0. TypeOK /\ TypeOK'
  BY TypeNext DEF IInv
<1>1. ASSUME NEW c \in Callers, NEW p \in Paths, NEW waited \in BOOLEAN, Enqueue(c, p, waited)
      PROVE IInv'
  <2> DEFINE job == NewJob(c, p, waited, submitted[p] + 1)
             n == Len(jobs)
  <2> USE DEF Enqueue, fileVars
  <2>0. HandOver(c, p, waited)
    BY <1>1, WriterAssumption DEF Threaded, IInv, NoInline, CarryOut
  <2>1. NoInline'
    BY <1>0, <1>1, <2>0 DEF HandOver, IInv, NoInline, NotifyAll, Woken, TypeOK, PcType
  <2>2. /\ \A l \in HasJob : pc'[Writer] = l <=> pc[Writer] = l
        /\ held' = held /\ UNCHANGED <<outcome, working, disk, durable, acked, failed, written>>
    <3>1. pc' \in [Threads -> CallerPc \cup WriterPc]
      BY <1>0 DEF TypeOK, PcType
    <3>2. pc'[Writer] = pc[Writer] \/ (pc'[Writer] = "next" /\ pc[Writer] \notin HasJob)
      BY <1>0, <2>0, <1>1 DEF HandOver, NotifyAll, Woken, TypeOK, PcType, HasJob, NoInline, IInv
    <3> QED
      BY <1>1, <2>0, <3>2 DEF HandOver, HasJob
  <2>3. /\ DOMAIN jobs' = DOMAIN jobs \cup {n + 1}
        /\ \A i \in DOMAIN jobs : jobs'[i] = jobs[i] /\ i \in Nat /\ i < n + 1
        /\ jobs'[n + 1] = job /\ n + 1 \in Nat
    <3>1. /\ n \in Nat /\ DOMAIN jobs = 1..n
          /\ DOMAIN jobs' = 1..(n + 1)
          /\ \A i \in 1..n : jobs'[i] = jobs[i]
          /\ jobs'[n + 1] = job
      BY <1>0, <2>0 DEF HandOver, TypeOK, QueueType, Pushed
    <3> QED
      BY <3>1
  <2>4. /\ job.path = p /\ job.serial = serial + 1 /\ job.generation = submitted[p] + 1
        /\ serial' = serial + 1
    BY <1>1 DEF NewJob
  <2>5. \A q \in Paths : /\ asked'[q] = IF q = p THEN serial + 1 ELSE asked[q]
                         /\ submitted'[q] = IF q = p THEN submitted[p] + 1 ELSE submitted[q]
    BY <1>0, <1>1, <2>0 DEF HandOver, TypeOK, QueueType, FileType
  <2> HIDE DEF job, n, Enqueue
  <2>6. /\ serial \in Nat
        /\ \A i \in DOMAIN jobs : JobFacts(jobs[i])
        /\ Busy => JobFacts(held[Writer])
        /\ \A q \in Paths : submitted[q] \in Nat /\ written[q] \in Nat /\ disk[q] \in Nat
                          /\ failed[q] \in Nat /\ asked[q] \in Nat /\ durable[q] \in Nat
    BY <1>0, TypeFacts DEF n
  <2>7. (Busy' <=> Busy) /\ (Carrying' <=> Carrying)
    BY <2>2 DEF Busy, Carrying, HasJob
  <2>8. HeldOK'
    BY <1>0, <2>2 DEF TypeOK, WorkType, HasJob, IInv, HeldOK, Busy
  <2> USE DEF Busy
  <2>9. QueueOrder'
    <3>1. /\ \A i, j \in DOMAIN jobs : i < j => jobs[i].serial < jobs[j].serial
          /\ \A i \in DOMAIN jobs : /\ jobs[i].serial \in Nat
                                    /\ jobs[i].serial <= serial
                                    /\ Busy => held[Writer].serial < jobs[i].serial
          /\ Busy => held[Writer].serial \in Nat /\ held[Writer].serial <= serial
      BY <2>6 DEF IInv, QueueOrder, JobFacts
    <3>2. ASSUME NEW i \in DOMAIN jobs'
          PROVE  i \in DOMAIN jobs \/ (i = n + 1 /\ jobs'[i].serial = serial + 1)
      BY <2>3, <2>4, <2>6
    <3>3. ASSUME NEW i \in DOMAIN jobs', NEW j \in DOMAIN jobs', i < j
          PROVE  jobs'[i].serial < jobs'[j].serial
      <4>1. i \in DOMAIN jobs
        BY <2>3, <3>3
      <4>2. CASE j \in DOMAIN jobs
        BY <2>3, <3>1, <3>3, <4>1, <4>2
      <4>3. CASE jobs'[j].serial = serial + 1
        <5>1. jobs'[i] = jobs[i] /\ jobs[i].serial \in Nat /\ jobs[i].serial <= serial
          BY <2>3, <3>1, <4>1
        <5>2. serial \in Nat
          BY <2>6
        <5> QED
          BY <4>3, <5>1, <5>2
      <4> QED
        BY <3>2, <4>2, <4>3
    <3>4. ASSUME NEW i \in DOMAIN jobs'
          PROVE  jobs'[i].serial <= serial' /\ (Busy' => held'[Writer].serial < jobs'[i].serial)
      <4>1. CASE i \in DOMAIN jobs
        <5>1. jobs'[i] = jobs[i] /\ held' = held
          BY <2>2, <2>3, <4>1
        <5>2. /\ jobs[i].serial \in Nat /\ jobs[i].serial <= serial
              /\ Busy => held[Writer].serial < jobs[i].serial
          BY <3>1, <4>1
        <5>3. serial \in Nat /\ serial' = serial + 1
          BY <2>4, <2>6
        <5> QED
          BY <2>7, <5>1, <5>2, <5>3
      <4>2. CASE jobs'[i].serial = serial + 1
        BY <2>2, <2>4, <2>6, <2>7, <3>1, <4>2
      <4> QED
        BY <3>2, <4>1, <4>2
    <3> QED
      BY <2>2, <2>3, <2>4, <2>6, <2>7, <3>1, <3>3, <3>4 DEF QueueOrder
  <2>10. GenerationOrder'
    <3>1. /\ GenerationOrder /\ \A i \in DOMAIN jobs : jobs[i].serial <= serial
          /\ \A i \in DOMAIN jobs : jobs[i].serial <= asked[jobs[i].path]
      BY <2>6 DEF IInv, QueueOrder, NewestKept, JobFacts
    <3>a. /\ \A i, j \in DOMAIN jobs : i < j /\ jobs[i].path = jobs[j].path
                              => jobs[i].generation < jobs[j].generation
          /\ \A i \in DOMAIN jobs : jobs[i].path \in Paths /\ jobs[i].serial \in Nat
                            /\ jobs[i].generation \in Nat
      BY <2>6, <3>1 DEF GenerationOrder, JobFacts
    <3>b. \A i \in DOMAIN jobs : /\ written[jobs[i].path] < jobs[i].generation
                                 /\ jobs[i].generation <= submitted[jobs[i].path]
                                 /\ jobs[i].serial = asked[jobs[i].path]
                                      => jobs[i].generation = submitted[jobs[i].path]
                                 /\ Busy /\ held[Writer].path = jobs[i].path
                                      => held[Writer].generation < jobs[i].generation
      BY <2>6, <3>1 DEF GenerationOrder
    <3>2. ASSUME NEW i \in DOMAIN jobs'
          PROVE  i \in DOMAIN jobs \/ (i = n + 1 /\ jobs'[i] = job)
      BY <2>3, <2>6
    <3>3. ASSUME NEW i \in DOMAIN jobs', NEW j \in DOMAIN jobs', i < j, jobs'[i].path = jobs'[j].path
          PROVE  jobs'[i].generation < jobs'[j].generation
      <4>1. i \in DOMAIN jobs
        BY <2>3, <3>3
      <4>2. CASE j \in DOMAIN jobs
        BY <2>3, <3>a, <3>3, <4>1, <4>2
      <4>3. CASE jobs'[j] = job
        <5>1. /\ jobs'[i] = jobs[i] /\ jobs[i].path = p /\ jobs[i].generation \in Nat
              /\ jobs[i].generation <= submitted[jobs[i].path]
          BY <2>3, <2>4, <3>a, <3>b, <3>3, <4>1, <4>3
        <5>2. submitted[p] \in Nat /\ jobs'[j].generation = submitted[p] + 1
          BY <2>4, <2>6, <4>3
        <5> QED
          BY <5>1, <5>2
      <4> QED
        BY <3>2, <4>2, <4>3
    <3>4. ASSUME NEW i \in DOMAIN jobs', i \in DOMAIN jobs
          PROVE  /\ written'[jobs'[i].path] < jobs'[i].generation
                 /\ jobs'[i].generation <= submitted'[jobs'[i].path]
                 /\ jobs'[i].serial = asked'[jobs'[i].path]
                      => jobs'[i].generation = submitted'[jobs'[i].path]
                 /\ Busy' /\ held'[Writer].path = jobs'[i].path
                      => held'[Writer].generation < jobs'[i].generation
      <4>1. jobs'[i] = jobs[i] /\ jobs[i].path \in Paths
        BY <2>3, <3>a, <3>4
      <4>2. /\ jobs[i].serial \in Nat /\ jobs[i].serial <= serial /\ serial \in Nat
            /\ jobs[i].generation \in Nat /\ submitted[jobs[i].path] \in Nat
            /\ jobs[i].generation <= submitted[jobs[i].path]
            /\ written[jobs[i].path] < jobs[i].generation
            /\ jobs[i].serial = asked[jobs[i].path]
                 => jobs[i].generation = submitted[jobs[i].path]
        BY <2>6, <3>1, <3>a, <3>b, <3>4, <4>1
      <4>3. \/ /\ asked'[jobs[i].path] = serial + 1
               /\ submitted'[jobs[i].path] = submitted[jobs[i].path] + 1
            \/ /\ asked'[jobs[i].path] = asked[jobs[i].path]
               /\ submitted'[jobs[i].path] = submitted[jobs[i].path]
        BY <2>5, <4>1
      <4>4. /\ written' = written /\ held' = held
            /\ Busy' /\ held'[Writer].path = jobs[i].path
                 => held'[Writer].generation < jobs[i].generation
        BY <2>2, <2>7, <3>b, <3>4
      <4> QED
        BY <4>1, <4>2, <4>3, <4>4
    <3>5. /\ written'[job.path] < job.generation
          /\ job.generation <= submitted'[job.path]
          /\ job.serial = asked'[job.path] => job.generation = submitted'[job.path]
          /\ Busy' /\ held'[Writer].path = job.path
               => held'[Writer].generation < job.generation
      BY <2>2, <2>4, <2>5, <2>6, <2>7, <3>1 DEF GenerationOrder, JobFacts
    <3>6. /\ Busy' => held'[Writer].generation <= submitted'[held'[Writer].path]
          /\ \A q \in Paths : written'[q] <= submitted'[q]
      BY <2>2, <2>5, <2>6, <2>7, <3>1 DEF GenerationOrder, JobFacts
    <3> QED
      BY <2>3, <3>2, <3>3, <3>4, <3>5, <3>6 DEF GenerationOrder
  <2>11. DiskBehind'
    BY <2>2, <2>3, <2>4, <2>6, <2>7 DEF IInv, DiskBehind, JobFacts, HasJob
  <2>12. OkDurable' /\ AckDurable'
    BY <2>2 DEF IInv, OkDurable, AckDurable, HasJob
  <2>13. NewestKept'
    <3>1. NewestKept
      BY DEF IInv
    <3>2. n + 1 \in DOMAIN jobs' /\ \A i \in DOMAIN jobs : i \in DOMAIN jobs'
      BY <2>3
    <3>3. ASSUME NEW q \in Paths, q # p
          PROVE  \/ disk'[q] = asked'[q]
                 \/ failed'[q] = asked'[q]
                 \/ \E i \in DOMAIN jobs' : jobs'[i].path = q /\ jobs'[i].serial = asked'[q]
                 \/ /\ pc'[Writer] \in {"stage", "rename"}
                    /\ held'[Writer].path = q
                    /\ held'[Writer].serial = asked'[q]
      BY <2>2, <2>3, <2>5, <2>6, <3>1, <3>2, <3>3 DEF NewestKept, HasJob
    <3>4. ASSUME NEW q \in Paths
          PROVE  /\ asked'[q] <= serial'
                 /\ \A i \in DOMAIN jobs' : jobs'[i].path = q => jobs'[i].serial <= asked'[q]
      <4>1. ASSUME NEW i \in DOMAIN jobs', jobs'[i].path = q
            PROVE  jobs'[i].serial <= asked'[q]
        <5>1. CASE i = n + 1
          BY <2>3, <2>4, <2>5, <2>6, <4>1, <5>1
        <5>2. CASE i \in DOMAIN jobs
          <6>1. jobs'[i] = jobs[i] /\ jobs[i].serial \in Nat /\ jobs[i].serial <= asked[q]
                /\ asked[q] <= serial
            BY <2>3, <2>6, <3>1, <4>1, <5>2 DEF NewestKept, JobFacts
          <6> QED
            BY <2>5, <2>6, <6>1
        <5> QED
          BY <2>3, <5>1, <5>2
      <4> QED
        BY <2>4, <2>5, <2>6, <3>1, <4>1 DEF NewestKept
    <3>5. ASSUME NEW q \in Paths, Busy', held'[Writer].path = q
          PROVE  held'[Writer].serial <= asked'[q]
      <4>1. /\ held'[Writer] = held[Writer] /\ held[Writer].serial \in Nat
            /\ held[Writer].serial <= asked[q] /\ asked[q] <= serial /\ asked[q] \in Nat
        BY <2>2, <2>6, <2>7, <3>1, <3>5 DEF NewestKept, JobFacts
      <4> QED
        BY <2>5, <2>6, <4>1
    <3> QED
      BY <2>3, <2>4, <2>5, <3>2, <3>3, <3>4, <3>5 DEF NewestKept
  <2> QED
    BY <1>0, <2>1, <2>8, <2>9, <2>10, <2>11, <2>12, <2>13 DEF IInv
<1>2. ASSUME Idle, NoInline'
      PROVE IInv'
  <2> USE <1>0, <1>2 DEF IInv, Idle, HasJob, Busy, Carrying, TypeOK, fileVars, histVars
  <2>1. HeldOK'
    BY DEF HeldOK, WorkType
  <2>2. QueueOrder'
    BY DEF QueueOrder
  <2>3. GenerationOrder'
    BY DEF GenerationOrder
  <2>4. DiskBehind'
    BY DEF DiskBehind
  <2>5. OkDurable' /\ AckDurable'
    BY DEF OkDurable, AckDurable
  <2>6. NewestKept'
    BY DEF NewestKept
  <2> QED
    BY <2>1, <2>2, <2>3, <2>4, <2>5, <2>6
<1>3. CASE TakeJob
  <2> DEFINE n == Len(jobs)
  <2>1. /\ n > 0 /\ DOMAIN jobs' = 1..(n - 1)
        /\ \A i \in 1..(n - 1) : jobs'[i] = jobs[i + 1]
        /\ held'[Writer] = jobs[1]
    BY <1>0, <1>3 DEF TakeJob, TypeOK, QueueType, WorkType
  <2>2. /\ pc[Writer] = "next"
        /\ pc'[Writer] = IF Stale(jobs[1]) THEN "finish" ELSE "stage"
        /\ UNCHANGED <<submitted, written, serial, disk, durable, asked, acked, failed>>
        /\ working'
    BY <1>0, <1>3 DEF TakeJob, TypeOK, PcType, fileVars, histVars, QueueType
  <2>3. NoInline'
    BY <1>0, <1>3 DEF IInv, NoInline, TakeJob, TypeOK, PcType
  <2>4. Busy' /\ (Carrying' <=> ~Stale(jobs[1]))
    BY <2>2 DEF Busy, Carrying
  <2>5. /\ serial \in Nat /\ n \in Nat /\ DOMAIN jobs = 1..n
        /\ \A i \in 1..n : JobFacts(jobs[i])
        /\ \A q \in Paths : submitted[q] \in Nat /\ written[q] \in Nat /\ disk[q] \in Nat
                          /\ failed[q] \in Nat /\ asked[q] \in Nat /\ durable[q] \in Nat
    BY <1>0, TypeFacts DEF n
  <2> HIDE DEF n
  <2>6. HeldOK'
    BY <1>0, <2>2 DEF HeldOK, TypeOK, WorkType, HasJob, Busy
  <2>a. /\ 1 \in 1..n
        /\ \A i \in 1..(n - 1) : i + 1 \in 1..n /\ 1 < i + 1 /\ i + 1 \in Nat /\ i \in Nat
    BY <2>1, <2>5
  <2>7. QueueOrder'
    <3>1. QueueOrder
      BY DEF IInv
    <3>2. ASSUME NEW i \in 1..(n - 1), NEW j \in 1..(n - 1), i < j
          PROVE  jobs'[i].serial < jobs'[j].serial
      <4>1. i + 1 < j + 1 /\ i + 1 \in DOMAIN jobs /\ j + 1 \in DOMAIN jobs
        BY <2>5, <2>a, <3>2
      <4> QED
        BY <2>1, <3>1, <4>1 DEF QueueOrder
    <3>3. ASSUME NEW i \in 1..(n - 1)
          PROVE  jobs'[i].serial <= serial /\ jobs[1].serial < jobs'[i].serial
      BY <2>1, <2>5, <2>a, <3>1 DEF QueueOrder
    <3> QED
      BY <2>1, <2>2, <2>5, <2>a, <3>1, <3>2, <3>3 DEF QueueOrder
  <2>8. GenerationOrder'
    <3>1. GenerationOrder
      BY DEF IInv
    <3>2. ASSUME NEW i \in 1..(n - 1), NEW j \in 1..(n - 1), i < j, jobs'[i].path = jobs'[j].path
          PROVE  jobs'[i].generation < jobs'[j].generation
      <4>1. i + 1 < j + 1 /\ i + 1 \in DOMAIN jobs /\ j + 1 \in DOMAIN jobs
        BY <2>5, <2>a, <3>2
      <4> QED
        BY <2>1, <3>1, <3>2, <4>1 DEF GenerationOrder
    <3>3. \A i \in 1..n : /\ written[jobs[i].path] < jobs[i].generation
                          /\ jobs[i].generation <= submitted[jobs[i].path]
      BY <2>5, <3>1 DEF GenerationOrder
    <3>4. \A i \in 1..n : jobs[i].serial = asked[jobs[i].path]
                             => jobs[i].generation = submitted[jobs[i].path]
      BY <2>5, <3>1 DEF GenerationOrder
    <3>5. \A i \in 1..n : 1 < i /\ jobs[1].path = jobs[i].path
                             => jobs[1].generation < jobs[i].generation
      BY <2>5, <2>a, <3>1 DEF GenerationOrder
    <3>6. /\ jobs[1].generation <= submitted[jobs[1].path]
          /\ \A p \in Paths : written[p] <= submitted[p]
      BY <2>a, <3>1, <3>3 DEF GenerationOrder
    <3>7. ASSUME NEW i \in 1..(n - 1)
          PROVE  /\ written[jobs'[i].path] < jobs'[i].generation
                 /\ jobs'[i].generation <= submitted[jobs'[i].path]
                 /\ jobs'[i].serial = asked[jobs'[i].path]
                      => jobs'[i].generation = submitted[jobs'[i].path]
                 /\ jobs[1].path = jobs'[i].path => jobs[1].generation < jobs'[i].generation
      <4>1. i + 1 \in 1..n /\ 1 < i + 1 /\ jobs'[i] = jobs[i + 1]
        BY <2>1, <2>a
      <4> QED
        BY <3>3, <3>4, <3>5, <4>1
    <3> QED
      BY <2>1, <2>2, <3>2, <3>6, <3>7 DEF GenerationOrder
  <2>9. DiskBehind'
    <3>1. DiskBehind
      BY DEF IInv
    <3>2. ASSUME NEW i \in 1..(n - 1)
          PROVE  disk[jobs'[i].path] < jobs'[i].serial /\ failed[jobs'[i].path] < jobs'[i].serial
      BY <2>1, <2>5, <2>a, <3>1 DEF DiskBehind
    <3> QED
      BY <2>1, <2>2, <2>5, <2>a, <3>1, <3>2 DEF DiskBehind, Carrying
  <2>10. OkDurable' /\ AckDurable'
    <3>1. jobs[1].generation > written[jobs[1].path]
      BY <2>5, <2>a DEF IInv, GenerationOrder, JobFacts
    <3>2. jobs[1].answer # Nobody => ~Stale(jobs[1])
      BY <2>1, <2>5, <3>1 DEF Stale, JobFacts
    <3> QED
      BY <2>1, <2>2, <3>2 DEF IInv, OkDurable, AckDurable
  <2>11. NewestKept'
    <3>1. /\ jobs[1].serial = asked[jobs[1].path] => ~Stale(jobs[1])
          /\ 1 \in 1..n
      BY <2>1, <2>5 DEF IInv, GenerationOrder, JobFacts, Stale
    <3>2. ASSUME NEW p \in Paths, NEW i \in 1..n, jobs[i].path = p, jobs[i].serial = asked[p]
          PROVE  \/ \E j \in 1..(n - 1) : jobs'[j].path = p /\ jobs'[j].serial = asked[p]
                 \/ pc'[Writer] = "stage" /\ jobs[1].path = p /\ jobs[1].serial = asked[p]
      <4>1. CASE i = 1
        BY <2>2, <3>1, <3>2, <4>1
      <4>2. CASE i # 1
        <5>1. i - 1 \in 1..(n - 1) /\ jobs'[i - 1] = jobs[i]
          BY <2>1, <2>5, <4>2
        <5> QED
          BY <5>1, <3>2
      <4> QED
        BY <4>1, <4>2
    <3>3. NewestKept /\ pc[Writer] \notin {"stage", "rename"}
      BY <2>2 DEF IInv
    <3>4. \A p \in Paths : /\ asked[p] <= serial
                           /\ \A i \in 1..n : jobs[i].path = p => jobs[i].serial <= asked[p]
      BY <2>5, <3>3 DEF NewestKept
    <3>5. ASSUME NEW p \in Paths, NEW i \in 1..(n - 1), jobs'[i].path = p
          PROVE  jobs'[i].serial <= asked[p]
      <4>1. i + 1 \in 1..n /\ jobs'[i] = jobs[i + 1]
        BY <2>1, <2>a
      <4> QED
        BY <3>4, <3>5, <4>1
    <3>6. ASSUME NEW p \in Paths, held'[Writer].path = p
          PROVE  held'[Writer].serial <= asked[p]
      BY <2>1, <3>1, <3>4, <3>6
    <3>7. ASSUME NEW p \in Paths
          PROVE  \/ disk[p] = asked[p]
                 \/ failed[p] = asked[p]
                 \/ \E j \in 1..(n - 1) : jobs'[j].path = p /\ jobs'[j].serial = asked[p]
                 \/ pc'[Writer] = "stage" /\ jobs[1].path = p /\ jobs[1].serial = asked[p]
      <4>1. \/ disk[p] = asked[p]
            \/ failed[p] = asked[p]
            \/ \E i \in 1..n : jobs[i].path = p /\ jobs[i].serial = asked[p]
        BY <2>5, <3>3 DEF NewestKept
      <4> QED
        BY <3>2, <4>1
    <3> QED
      BY <2>1, <2>2, <3>4, <3>5, <3>6, <3>7 DEF NewestKept
  <2> QED
    BY <1>0, <2>3, <2>6, <2>7, <2>8, <2>9, <2>10, <2>11 DEF IInv
<1>4. CASE Carry(Writer)
  <2> USE DEF Busy, Carrying
  <2>1. /\ UNCHANGED <<writer, jobs, submitted, written, working, held, serial, asked, acked>>
        /\ pc[Writer] \in {"stage", "rename", "sync"}
        /\ pc'[Writer] \in {"rename", "sync", "finish"}
        /\ \A c \in Callers : pc'[c] = pc[c]
    BY <1>0, <1>4 DEF Carry, Stage, Rename, Sync, Fails, After, queueVars, fileVars, TypeOK, PcType
  <2>2. NoInline' /\ HeldOK' /\ QueueOrder' /\ GenerationOrder'
    <3>1. NoInline'
      BY <2>1 DEF IInv, NoInline
    <3>2. HeldOK'
      BY <2>1 DEF IInv, HeldOK
    <3>3. QueueOrder'
      BY <2>1 DEF IInv, QueueOrder
    <3>4. GenerationOrder'
      BY <2>1 DEF IInv, GenerationOrder
    <3> QED
      BY <3>1, <3>2, <3>3, <3>4
  <2>3. /\ JobFacts(held[Writer]) /\ serial \in Nat
        /\ DOMAIN jobs = 1..Len(jobs)
        /\ \A i \in DOMAIN jobs : JobFacts(jobs[i]) /\ held[Writer].serial < jobs[i].serial
        /\ held[Writer].serial <= serial
        /\ \A q \in Paths : /\ disk[q] \in Nat /\ failed[q] \in Nat /\ asked[q] \in Nat
                            /\ durable[q] \in Nat /\ acked[q] \in Nat
    BY <1>0, <2>1, TypeFacts DEF IInv, QueueOrder
  <2> DEFINE h == held[Writer]
  <2>4. CASE pc'[Writer] = "finish" /\ outcome'[Writer] = "err"
    <3>1. /\ UNCHANGED <<disk, durable>>
          /\ \A q \in Paths : failed'[q] = IF q = h.path /\ h.serial > failed[q]
                                               THEN h.serial ELSE failed[q]
      BY <1>0, <1>4, <2>1, <2>3, <2>4 DEF Carry, Stage, Rename, Sync, Fails, fileVars, TypeOK, FileType,
         WorkType, PcType, JobFacts
    <3>2. DiskBehind'
      BY <2>1, <2>3, <2>4, <3>1 DEF IInv, DiskBehind, JobFacts
    <3>3. NewestKept'
      BY <2>1, <2>3, <2>4, <3>1 DEF IInv, NewestKept, DiskBehind, JobFacts
    <3>4. OkDurable' /\ AckDurable'
      BY <2>1, <2>4, <3>1 DEF IInv, OkDurable, AckDurable
    <3> QED
      BY <1>0, <2>2, <3>2, <3>3, <3>4 DEF IInv
  <2>5. CASE pc[Writer] = "stage" /\ pc'[Writer] = "rename"
    <3>1. UNCHANGED <<disk, durable, failed>>
      BY <1>0, <1>4, <2>5 DEF Carry, Stage, Rename, Sync, Fails, After, fileVars, TypeOK, PcType
    <3>2. DiskBehind' /\ NewestKept'
      BY <2>1, <2>5, <3>1 DEF IInv, DiskBehind, NewestKept
    <3>3. OkDurable' /\ AckDurable'
      BY <2>1, <2>5, <3>1 DEF IInv, OkDurable, AckDurable
    <3> QED
      BY <1>0, <2>2, <3>2, <3>3 DEF IInv
  <2>6. CASE pc[Writer] = "rename" /\ pc'[Writer] = "sync"
    <3>1. /\ UNCHANGED <<durable, failed>>
          /\ \A q \in Paths : disk'[q] = IF q = h.path THEN h.serial ELSE disk[q]
      BY <1>0, <1>4, <2>6 DEF Carry, Stage, Rename, Sync, Fails, After, TypeOK, FileType, PcType
    <3>2. DiskBehind'
      <4>1. DiskBehind /\ disk[h.path] < h.serial /\ h.path \in Paths /\ h.serial \in Nat
        BY <2>3, <2>6 DEF IInv, DiskBehind, JobFacts
      <4>2. \A q \in Paths : durable'[q] <= disk'[q] /\ disk'[q] <= serial' /\ failed'[q] <= serial'
        BY <2>1, <2>3, <3>1, <4>1 DEF DiskBehind
      <4>3. ASSUME NEW i \in DOMAIN jobs
            PROVE  disk'[jobs[i].path] < jobs[i].serial /\ failed[jobs[i].path] < jobs[i].serial
        BY <2>3, <3>1, <4>1 DEF DiskBehind, JobFacts
      <4> QED
        BY <2>1, <2>6, <3>1, <4>1, <4>2, <4>3 DEF DiskBehind
    <3>3. NewestKept'
      <4>1. NewestKept
        BY DEF IInv
      <4>2. ASSUME NEW q \in Paths
            PROVE  \/ disk'[q] = asked[q]
                   \/ failed[q] = asked[q]
                   \/ \E i \in DOMAIN jobs : jobs[i].path = q /\ jobs[i].serial = asked[q]
        <5>1. CASE q # h.path
          BY <2>6, <3>1, <4>1, <5>1 DEF NewestKept
        <5>2. CASE q = h.path
          <6>1. h.serial <= asked[q] /\ h.serial \in Nat /\ asked[q] \in Nat /\ disk'[q] = h.serial
                /\ disk[q] < h.serial
            BY <2>3, <2>6, <3>1, <4>1, <5>2 DEF NewestKept, JobFacts, IInv, DiskBehind
          <6> QED
            BY <2>3, <2>6, <4>1, <5>2, <6>1 DEF NewestKept
        <5> QED
          BY <5>1, <5>2
      <4> QED
        BY <2>1, <2>6, <3>1, <4>1, <4>2 DEF NewestKept
    <3>4. OkDurable' /\ AckDurable'
      BY <2>1, <2>6, <3>1 DEF IInv, OkDurable, AckDurable
    <3> QED
      BY <1>0, <2>2, <3>2, <3>3, <3>4 DEF IInv
  <2>7. CASE pc[Writer] = "sync" /\ pc'[Writer] = "finish" /\ outcome'[Writer] # "err"
    <3>1. /\ UNCHANGED <<disk, failed>>
          /\ \A q \in Paths : durable'[q] = IF q = h.path THEN disk[q] ELSE durable[q]
      BY <1>0, <1>4, <2>7 DEF Carry, Stage, Rename, Sync, Fails, After, TypeOK, FileType, WorkType
    <3>2. DiskBehind'
      BY <2>1, <2>3, <2>7, <3>1 DEF IInv, DiskBehind, JobFacts
    <3>3. NewestKept'
      BY <2>1, <2>3, <2>7, <3>1 DEF IInv, NewestKept, DiskBehind, JobFacts
    <3>4. OkDurable' /\ AckDurable'
      BY <2>1, <2>3, <2>7, <3>1 DEF IInv, OkDurable, AckDurable, DiskBehind, JobFacts
    <3> QED
      BY <1>0, <2>2, <3>2, <3>3, <3>4 DEF IInv
  <2>8. \/ pc'[Writer] = "finish" /\ outcome'[Writer] = "err"
        \/ pc[Writer] = "stage" /\ pc'[Writer] = "rename"
        \/ pc[Writer] = "rename" /\ pc'[Writer] = "sync"
        \/ pc[Writer] = "sync" /\ pc'[Writer] = "finish"
    BY <1>0, <1>4 DEF Carry, Stage, Rename, Sync, Fails, After, TypeOK, PcType, WorkType
  <2> QED
    BY <2>4, <2>5, <2>6, <2>7, <2>8
<1>5. CASE Finish
  <2> USE DEF Busy, Carrying
  <2>1. /\ UNCHANGED <<writer, jobs, submitted, held, outcome, serial, asked, acked, failed, disk, durable>>
        /\ pc[Writer] = "finish" /\ pc'[Writer] = "answer" /\ ~working'
        /\ \A c \in Callers : pc'[c] = pc[c] \/ pc'[c] = "drain"
    BY <1>0, <1>5 DEF Finish, fileVars, histVars, TypeOK, PcType, NotifyAll, Woken
  <2>2. /\ JobFacts(held[Writer])
        /\ \A q \in Paths : /\ written[q] \in Nat /\ submitted[q] \in Nat
                            /\ \/ written'[q] = written[q]
                               \/ q = held[Writer].path /\ written'[q] = held[Writer].generation
        /\ \A i \in DOMAIN jobs : JobFacts(jobs[i])
    BY <1>0, <1>5, <2>1, TypeFacts DEF Finish, TypeOK, QueueType
  <2>3. NoInline' /\ HeldOK'
    BY <2>1 DEF IInv, NoInline, HeldOK
  <2>4. QueueOrder' /\ DiskBehind' /\ NewestKept'
    BY <2>1 DEF IInv, QueueOrder, DiskBehind, NewestKept
  <2>5. GenerationOrder'
    BY <2>1, <2>2 DEF IInv, GenerationOrder, JobFacts
  <2>6. OkDurable' /\ AckDurable'
    BY <2>1 DEF IInv, OkDurable, AckDurable
  <2> QED
    BY <1>0, <2>3, <2>4, <2>5, <2>6 DEF IInv
<1>6. CASE Answer
  <2> USE DEF Busy, Carrying
  <2>1. /\ UNCHANGED <<writer, jobs, submitted, written, working, serial, asked, failed, disk, durable>>
        /\ pc[Writer] = "answer" /\ pc'[Writer] = "next"
        /\ \A c \in Callers : pc'[c] = pc[c]
    BY <1>0, <1>6 DEF Answer, queueVars, fileVars, histVars, TypeOK, PcType
  <2>2. NoInline' /\ HeldOK'
    BY <2>1 DEF IInv, NoInline, HeldOK
  <2>3. QueueOrder' /\ DiskBehind' /\ NewestKept' /\ GenerationOrder'
    BY <2>1 DEF IInv, QueueOrder, DiskBehind, NewestKept, GenerationOrder
  <2>4. OkDurable'
    BY <2>1 DEF OkDurable
  <2>5. AckDurable'
    <3>1. JobFacts(held[Writer])
      BY <1>0, <2>1, TypeFacts
    <3>2. \A q \in Paths :
             \/ acked'[q] = acked[q]
             \/ q = held[Writer].path /\ acked'[q] = held[Writer].serial
                  /\ outcome[Writer] = "ok" /\ held[Writer].answer # Nobody
      BY <1>0, <1>6, <3>1 DEF Answer, Acked, TypeOK, FileType, JobFacts
    <3> QED
      BY <2>1, <3>1, <3>2 DEF IInv, AckDurable, OkDurable, JobFacts
  <2> QED
    BY <1>0, <2>2, <2>3, <2>4, <2>5 DEF IInv
<1>7. CASE Crash
  <2>1. /\ jobs' = <<>> /\ writer' = "unset" /\ pc' = FreshPc /\ ~working'
        /\ submitted' = Zero /\ written' = Zero /\ asked' = disk' /\ durable' = disk'
        /\ UNCHANGED <<serial, acked, failed>>
        /\ \A p \in Paths : disk'[p] = disk[p] \/ disk'[p] = durable[p]
    BY <1>7 DEF Crash, TypeOK, FileType
  <2>2. pc'[Writer] = "absent" /\ \A c \in Callers : pc'[c] = "idle"
    BY <2>1 DEF FreshPc
  <2>3. NoInline' /\ HeldOK' /\ QueueOrder' /\ GenerationOrder' /\ OkDurable'
    BY <2>1, <2>2 DEF NoInline, HeldOK, QueueOrder, GenerationOrder, OkDurable, Zero, Busy
  <2>4. \A p \in Paths : /\ disk[p] \in Nat /\ durable[p] \in Nat /\ acked[p] \in Nat
                        /\ failed[p] \in Nat /\ serial \in Nat
    BY <1>0, TypeFacts
  <2>5. DiskBehind' /\ NewestKept' /\ AckDurable'
    BY <2>1, <2>2, <2>4 DEF IInv, DiskBehind, NewestKept, AckDurable, Carrying, Busy
  <2> QED
    BY <1>0, <2>3, <2>5 DEF IInv
<1>8. ASSUME NEW c \in Callers
      PROVE  ~ReturnInline(c) /\ ~Carry(c)
  BY DEF IInv, NoInline, ReturnInline, Carry, Stage, Rename, Sync
<1>9. ASSUME \/ \E c \in Callers : FlushCall(c) \/ Receive(c) \/ FlushReturn(c) \/ FlushWait(c)
             \/ Sleep
             \/ UNCHANGED vars
      PROVE  IInv'
  <2>1. Idle
    BY <1>0, <1>9, IdleSteps
  <2>2. NoInline'
    BY <1>0, <1>9 DEF IInv, NoInline, FlushCall, Receive, FlushReturn, FlushWait, Sleep, vars,
       TypeOK, PcType
  <2> QED
    BY <1>2, <2>1, <2>2
<1> QED
  BY <1>1, <1>3, <1>4, <1>5, <1>6, <1>7, <1>8, <1>9
  DEF Next, CallerStep, Resume, WriterStep

-----------------------------------------------------------------------------
(* Every variable keeps its type, with or without a writer thread          *)
(* (writer.rs).                                                            *)
THEOREM TypeCorrect == Spec => []TypeOK
<1>1. Init => TypeOK
  BY TypeInit
<1>2. TypeOK /\ [Next]_vars => TypeOK'
  BY TypeNext
<1> QED
  BY <1>1, <1>2, PTL DEF Spec

(* The parts above hold in every state a threaded writer reaches.          *)
THEOREM Invariance == ASSUME Threaded PROVE Spec => []IInv
<1>1. Init => IInv
  BY InvInit
<1>2. IInv /\ [Next]_vars => IInv'
  BY InvNext
<1> QED
  BY <1>1, <1>2, PTL DEF Spec

(* What write reported as written survives every crash and power cut.      *)
THEOREM AckDurability == ASSUME Threaded PROVE Spec => []AckDurable
<1>1. IInv => AckDurable
  BY DEF IInv
<1> QED
  BY <1>1, Invariance, PTL

(* No file ever goes back to older contents while the shell runs.          *)
THEOREM DiskMovesForward == ASSUME Threaded PROVE Spec => DiskForward
<1>1. ASSUME IInv, [Next]_vars, crashes' = crashes, NEW p \in Paths
      PROVE  disk'[p] >= disk[p]
  <2>1. TypeOK /\ disk[p] \in Nat /\ \A c \in Callers : ~Rename(c)
    BY <1>1, TypeFacts DEF IInv, NoInline, Rename
  <2>2. CASE Rename(Writer)
    <3>1. JobFacts(held[Writer]) /\ disk[held[Writer].path] < held[Writer].serial
      BY <1>1, <2>1, <2>2, TypeFacts DEF IInv, DiskBehind, Rename, Busy
    <3> QED
      BY <2>1, <2>2, <3>1 DEF Rename, TypeOK, FileType, JobFacts
  <2>3. CASE ~Rename(Writer)
    <3>1. disk' = disk \/ Crash
      BY <1>1, <2>1, <2>3 DEF Next, CallerStep, Resume, Carry, WriterStep, Enqueue, Receive, ReturnInline,
         FlushCall, FlushReturn, FlushWait, Stage, Sync, TakeJob, Sleep, Finish, Answer, vars, fileVars
    <3>2. ~Crash
      BY <1>1, <2>1 DEF Crash, TypeOK, FileType
    <3> QED
      BY <2>1, <3>1, <3>2
  <2> QED
    BY <2>2, <2>3
<1>2. IInv /\ [Next]_vars => [crashes' = crashes => \A p \in Paths : disk'[p] >= disk[p]]_vars
  BY <1>1
<1> QED
  BY <1>2, Invariance, PTL DEF DiskForward, Spec

(* A flush that returns leaves every path holding what was last asked of   *)
(* it, or a failure to show for it.                                        *)
THEOREM FlushIsHonest == ASSUME Threaded PROVE Spec => FlushHonest
<1> DEFINE Returns(c) == pc[c] = "drain" /\ pc'[c] = "idle" /\ crashes' = crashes
           Kept == \A p \in Paths : disk[p] = asked[p] \/ failed[p] = asked[p]
<1>1. ASSUME IInv, Next, NEW c \in Callers, Returns(c)
      PROVE  Kept
  <2>1. TypeOK /\ \A d \in Callers : ~ReturnInline(d) /\ ~Carry(d)
    BY <1>1 DEF IInv, NoInline, ReturnInline, Carry, Stage, Rename, Sync
  <2>2. ~Crash
    BY <1>1, <2>1 DEF Crash, TypeOK, FileType
  <2>3. ~WriterStep
    BY <1>1, <2>1 DEF WriterStep, TakeJob, Sleep, Carry, Stage, Rename, Sync, Finish, Answer, Fails,
       After, NotifyAll, Woken, TypeOK, PcType
  <2>4. PICK d \in Callers : CallerStep(d) \/ Resume(d)
    BY <1>1, <2>2, <2>3 DEF Next
  <2>5. ~CallerStep(d)
    BY <1>1, <2>1, <2>4 DEF CallerStep, Enqueue, HandOver, CarryOut, FlushCall, NotifyAll, Woken, TypeOK, PcType
  <2>6. Drained
    BY <1>1, <2>1, <2>4, <2>5 DEF Resume, Receive, FlushReturn, FlushWait, TypeOK, PcType
  <2> QED
    BY <1>1, <2>6 DEF IInv, NewestKept, HeldOK, Drained
<1>2. IInv /\ [Next]_vars => [\A c \in Callers : Returns(c) => Kept]_vars
  BY <1>1
<1> QED
  BY <1>2, Invariance, PTL DEF FlushHonest, Spec

-----------------------------------------------------------------------------
(* The writer implements the register of Files.                            *)

(* The steps no reader of the files and no caller told Ok can see.         *)
Unseen == UNCHANGED <<asked, disk, durable, acked>>

(* Each step of the writer is one of the register, or none.                *)
LEMMA StepsOfRegister ==
  ASSUME Threaded, IInv, [Next]_vars
  PROVE  [Promised!Next]_(Promised!vars)
<1> USE DEF fileVars, histVars
<1>0. /\ TypeOK /\ \A c \in Callers : ~ReturnInline(c) /\ ~Carry(c)
      /\ serial \in Nat
      /\ \A p \in Paths : /\ disk[p] \in Nat /\ durable[p] \in Nat
                          /\ asked[p] \in Nat /\ acked[p] \in Nat /\ asked[p] <= serial
      /\ asked \in [Paths -> Nat] /\ disk \in [Paths -> Nat] /\ durable \in [Paths -> Nat]
      /\ acked \in [Paths -> Nat]
  BY TypeFacts DEF IInv, NoInline, NewestKept, ReturnInline, Carry, Stage, Rename, Sync, TypeOK,
     FileType
<1>1. ASSUME Unseen PROVE UNCHANGED Promised!vars
  BY <1>1 DEF Unseen, Promised!vars
<1>2. ASSUME NEW c \in Callers, NEW p \in Paths, NEW waited \in BOOLEAN, Enqueue(c, p, waited)
      PROVE  Promised!Ask(p)
  <2>1. asked' = [asked EXCEPT ![p] = serial + 1] /\ UNCHANGED <<disk, durable, acked>>
    BY <1>2 DEF Enqueue
  <2>2. asked'[p] = serial + 1 /\ serial + 1 > asked[p]
    BY <1>0, <2>1
  <2> QED
    BY <2>1, <2>2 DEF Promised!Ask
<1>3. ASSUME Rename(Writer), ~Unseen
      PROVE  held[Writer].path \in Paths /\ Promised!Replace(held[Writer].path)
  <2> DEFINE p == held[Writer].path
             s == held[Writer].serial
  <2>1. disk' = [disk EXCEPT ![p] = s] /\ UNCHANGED <<asked, durable, acked>>
    BY <1>3 DEF Rename, Unseen
  <2>2. p \in Paths /\ s \in Nat /\ disk[p] < s /\ s <= asked[p]
    BY <1>0, <1>3, TypeFacts DEF IInv, DiskBehind, NewestKept, Rename, Busy, JobFacts
  <2> HIDE DEF p, s
  <2>3. s \in (disk[p] + 1) .. asked[p]
    BY <1>0, <2>2
  <2>4. Promised!Replace(p)
    BY <2>1, <2>3 DEF Promised!Replace
  <2> QED
    BY <2>2, <2>4 DEF p
<1>4. ASSUME Sync(Writer), ~Unseen
      PROVE  held[Writer].path \in Paths /\ Promised!Flush(held[Writer].path)
  <2>1. held[Writer].path \in Paths
    BY <1>0, <1>4, TypeFacts DEF Sync, Busy, JobFacts
  <2> QED
    BY <1>4, <2>1 DEF Sync, Unseen, Promised!Flush
<1>5. ASSUME Answer, ~Unseen
      PROVE  held[Writer].path \in Paths /\ Promised!Promise(held[Writer].path)
  <2> DEFINE p == held[Writer].path
             s == held[Writer].serial
  <2>1. /\ p \in Paths /\ s \in Nat
        /\ outcome[Writer] = "ok" /\ held[Writer].answer # Nobody
        /\ UNCHANGED <<asked, disk, durable>>
        /\ acked' = [acked EXCEPT ![p] = IF s > @ THEN s ELSE @]
    BY <1>0, <1>5, TypeFacts DEF Answer, Acked, Unseen, Busy, JobFacts
  <2>2. s <= durable[p]
    BY <1>5, <2>1 DEF IInv, OkDurable, Answer
  <2> HIDE DEF p, s
  <2>3. s > acked[p] /\ acked' = [acked EXCEPT ![p] = s]
    <3>1. CASE ~(s > acked[p])
      <4>1. acked' = acked
        BY <1>0, <2>1, <3>1
      <4> QED
        BY <1>5, <2>1, <4>1 DEF Unseen
    <3> QED
      BY <2>1, <3>1
  <2>4. s \in (acked[p] + 1) .. durable[p]
    BY <1>0, <2>1, <2>2, <2>3
  <2>5. Promised!Promise(p)
    BY <2>1, <2>3, <2>4 DEF Promised!Promise
  <2> QED
    BY <2>1, <2>5 DEF p
<1>6. ASSUME Crash PROVE Promised!GoDown
  BY <1>6 DEF Crash, Promised!GoDown
<1>7. ASSUME NEW c \in Callers, FlushCall(c) \/ Receive(c) \/ FlushReturn(c) \/ FlushWait(c)
      PROVE  Unseen
  BY <1>7 DEF FlushCall, Receive, FlushReturn, FlushWait, Unseen
<1>8. ASSUME TakeJob \/ Sleep \/ Stage(Writer) \/ Finish \/ UNCHANGED vars
      PROVE  Unseen
  BY <1>8 DEF TakeJob, Sleep, Stage, Finish, vars, Unseen
<1>9. CASE Unseen
  BY <1>1, <1>9
<1>10. CASE ~Unseen
  <2>1. \/ \E c \in Callers, p \in Paths, waited \in BOOLEAN : Enqueue(c, p, waited)
        \/ Rename(Writer) \/ Sync(Writer) \/ Answer \/ Crash
    BY <1>0, <1>7, <1>8, <1>10 DEF Next, CallerStep, Resume, WriterStep, Carry
  <2> QED
    BY <1>2, <1>3, <1>4, <1>5, <1>6, <1>10, <2>1 DEF Promised!Next
<1> QED
  BY <1>9, <1>10

(* Behind the queue, the generations and the thread there is a register    *)
(* per path: it only takes newer contents that were asked of it, in one    *)
(* go, and an Ok is about the device (writer.rs, fs.rs).                   *)
THEOREM ImplementsRegister == ASSUME Threaded PROVE Spec => IsRegister
<1>1. Init => Promised!Init
  BY DEF Init, Zero, Promised!Init
<1>2. IInv /\ [Next]_vars => [Promised!Next]_(Promised!vars)
  BY StepsOfRegister
<1> QED
  BY <1>1, <1>2, Invariance, PTL DEF Spec, IsRegister, Promised!Spec

=============================================================================
