----------------------------- MODULE SharedState -----------------------------
(***************************************************************************)
(* What the shell remembers: Store of crates/util/src/broadcast.rs, and    *)
(* crates/services/src/state.rs, which is one and keeps it in a file.  The *)
(* file is what Files says of it, which FileWriter is shown to implement.  *)
(*                                                                         *)
(* Any thread changes the state, one at a time; a change is published, to  *)
(* the subscribers there are, and queued for the file.                     *)
(***************************************************************************)
EXTENDS Integers, Sequences

CONSTANTS
  Writers,      \* threads that change the state
  Readers,      \* subscribers, on threads of their own
  MaxUpdates,   \* bound: changes tried
  MaxDowns      \* bound: times the shell goes down

ASSUME SharedStateAssumption == MaxUpdates \in Nat \ {0} /\ MaxDowns \in Nat

VARIABLES
  state,     \* Broadcast.current: the changes it has had
  subs,      \* Broadcast.subscribers
  writes,    \* each writer: where it is, the change it makes and what that makes of the state
  reads,     \* each subscriber: where attach is, and the value it read
  seen,      \* the last value each subscriber was sent
  made,      \* the changes since the shell started that were not refused, and what it loaded
  updates,   \* bound counter
  contents,  \* what was asked of the file, in this order
  wanted, file, device, promised,   \* of Files: how much of that it holds
  downs      \* bound counter

StateFile == {"state.json"}

File == INSTANCE Files WITH Paths <- StateFile

onDisk    == <<wanted, file, device, promised>>
stateVars == <<state, subs, writes, reads, seen, made, updates, contents, onDisk, downs>>

Updates == 1 .. MaxUpdates
AtRest  == [at |-> "rest", change |-> 0, next |-> {}]
Nowhere == [at |-> "away", value |-> {}]

SharedTypeOK ==
  /\ state \subseteq Updates /\ made \subseteq Updates
  /\ subs \subseteq Readers
  /\ writes \in [Writers -> [at : {"rest", "changing", "sending", "queueing"},
                             change : 0 .. MaxUpdates, next : SUBSET Updates]]
  /\ reads \in [Readers -> [at : {"away", "read", "there"}, value : SUBSET Updates]]
  /\ seen \in [Readers -> SUBSET Updates]
  /\ updates \in 0 .. MaxUpdates /\ downs \in 0 .. MaxDowns
  /\ contents \in Seq(SUBSET Updates)
  /\ {wanted, file, device, promised} \subseteq [StateFile -> 0 .. MaxUpdates]

(* The contents numbered n; without a file, the defaults.                  *)
Contents(n) == IF n = 0 THEN {} ELSE contents[n]

SharedInit ==
  /\ state = {} /\ subs = {} /\ made = {} /\ updates = 0
  /\ writes = [w \in Writers |-> AtRest]
  /\ reads = [r \in Readers |-> Nowhere] /\ seen = [r \in Readers |-> {}]
  /\ contents = <<>> /\ File!Init /\ downs = 0

-----------------------------------------------------------------------------
NoneWrites == \A w \in Writers : writes[w].at = "rest"

(* A plausible slip: the value is read before the mutex is taken.          *)
MayWriteAnyTime == TRUE

(* The writing mutex is free.                                              *)
MayWrite == NoneWrites

(* write: the value is read and changed, in a copy.                        *)
Writes(w) ==
  /\ writes[w].at = "rest" /\ MayWrite /\ updates < MaxUpdates
  /\ updates' = updates + 1
  /\ writes' = [writes EXCEPT ![w] = [at |-> "changing", change |-> updates', next |-> state \cup {updates'}]]
  /\ UNCHANGED <<state, subs, reads, seen, made, contents, onDisk, downs>>

(* try_update_then: the change is refused, and the copy dropped.           *)
Refuses(w) ==
  /\ writes[w].at = "changing"
  /\ writes' = [writes EXCEPT ![w] = AtRest]
  /\ UNCHANGED <<state, subs, reads, seen, made, updates, contents, onDisk, downs>>

(* publish: the value is set, and then sent.                               *)
SetsState(w) ==
  /\ writes[w].at = "changing"
  /\ state' = writes[w].next
  /\ made' = made \cup {writes[w].change}
  /\ writes' = [writes EXCEPT ![w].at = "sending"]
  /\ UNCHANGED <<subs, reads, seen, updates, contents, onDisk, downs>>

SendsState(w) ==
  /\ writes[w].at = "sending"
  /\ seen' = [r \in Readers |-> IF r \in subs THEN writes[w].next ELSE seen[r]]
  /\ writes' = [writes EXCEPT ![w].at = "queueing"]
  /\ UNCHANGED <<state, subs, reads, made, updates, contents, onDisk, downs>>

(* persist, before the next writer may start.                              *)
Persists(w) ==
  /\ writes[w].at = "queueing"
  /\ contents' = Append(contents, writes[w].next)
  /\ wanted' = [p \in StateFile |-> Len(contents')]
  /\ \A p \in StateFile : File!Ask(p)
  /\ writes' = [writes EXCEPT ![w] = AtRest]
  /\ UNCHANGED <<state, subs, reads, seen, made, updates, downs>>

-----------------------------------------------------------------------------
(* Store::subscribe: attach reads the value, sends it, and files the       *)
(* sender.                                                                 *)
ReadsState(r) ==
  /\ reads[r].at = "away"
  /\ reads' = [reads EXCEPT ![r] = [at |-> "read", value |-> state]]
  /\ UNCHANGED <<state, subs, writes, seen, made, updates, contents, onDisk, downs>>

IsFiled(r) ==
  /\ reads[r].at = "read"
  /\ seen' = [seen EXCEPT ![r] = reads[r].value]
  /\ subs' = subs \cup {r}
  /\ reads' = [reads EXCEPT ![r].at = "there"]
  /\ UNCHANGED <<state, writes, made, updates, contents, onDisk, downs>>

(* Its surface closes; sending to it fails from then on.                   *)
IsClosed(r) ==
  /\ reads[r].at = "there"
  /\ subs' = subs \ {r}
  /\ reads' = [reads EXCEPT ![r] = Nowhere]
  /\ seen' = [seen EXCEPT ![r] = {}]
  /\ UNCHANGED <<state, writes, made, updates, contents, onDisk, downs>>

-----------------------------------------------------------------------------
(* The file takes what it was asked for, and the device the file.          *)
FileTurns ==
  /\ \E p \in StateFile : File!Replace(p) \/ File!Flush(p)
  /\ UNCHANGED <<state, subs, writes, reads, seen, made, updates, contents, downs>>

(* The shell goes down, and load finds what is left as it starts again.    *)
GoesDown ==
  /\ downs < MaxDowns /\ downs' = downs + 1
  /\ File!GoDown
  /\ \A p \in StateFile : state' = Contents(file'[p]) /\ contents' = SubSeq(contents, 1, file'[p])
  /\ made' = state'
  /\ subs' = {}
  /\ writes' = [w \in Writers |-> AtRest]
  /\ reads' = [r \in Readers |-> Nowhere] /\ seen' = [r \in Readers |-> {}]
  /\ UNCHANGED updates

SharedNext ==
  \/ \E w \in Writers : Writes(w) \/ Refuses(w) \/ SetsState(w) \/ SendsState(w) \/ Persists(w)
  \/ \E r \in Readers : ReadsState(r) \/ IsFiled(r) \/ IsClosed(r)
  \/ FileTurns \/ GoesDown

SharedSpec == SharedInit /\ [][SharedNext]_stateVars

-----------------------------------------------------------------------------
(* No change is lost to another made at the same time.                     *)
NoneLost == state = made

(* Nobody is changing the state: the file was asked for it as it is.       *)
FileAsked == NoneWrites => \A p \in StateFile : Contents(wanted[p]) = state

(* What is asked of the file later has every change that was asked for     *)
(* earlier: whichever of it a shell that goes down leaves, no change comes *)
(* back undone by an older one.                                            *)
FileGrows == \A i \in 2 .. Len(contents) : contents[i - 1] \subseteq contents[i]

(* Whoever stays subscribed is never sent an older state than the last.    *)
SeesForward ==
  [][\A r \in Readers : reads'[r].at = "there" /\ reads[r].at = "there" => seen[r] \subseteq seen'[r]]_stateVars

(* "two writers on different threads cannot both start from the same value *)
(* and lose one change", and the file and the subscribers get them in the  *)
(* order they were made.                                                   *)
StateKept == [](NoneLost /\ FileAsked /\ FileGrows) /\ SeesForward

(* "sending the current value immediately so a surface starts in sync". It *)
(* does not hold: a change published between attach's reading and its      *)
(* filing reaches the subscriber with the next one, if there is one.       *)
StaysInSync == NoneWrites => \A r \in subs : seen[r] = state
=============================================================================
