------------------------------ MODULE Commands -------------------------------
(***************************************************************************)
(* Commands that come over the socket, and an import whose answer comes    *)
(* later: apps/hogar-shell/src/core/ipc.rs, crates/services/src/command.rs *)
(* and the import of crates/surfaces/src/bundles.rs.                       *)
(*                                                                         *)
(* One thread accepts connections and serves them, in turn; the driver     *)
(* thread runs what they ask.  A connection whose command answers later    *)
(* goes on, on a thread of its own.                                        *)
(***************************************************************************)
EXTENDS Naturals, Sequences

CONSTANTS
  Clients,
  Nobody,     \* whom the listener serves between two connections
  MaxLines    \* bound: lines the clients send

ASSUME CommandsAssumption ==
  /\ Nobody \notin Clients
  /\ MaxLines \in Nat \ {0}

VARIABLES
  lines,      \* what each client has sent and nobody has read
  gone,       \* clients that hung up
  place,      \* where the thread that serves a connection is
  listener,   \* the connection the listener's thread serves
  nth,        \* requests made of the driver thread
  written,    \* bound counter
  said,       \* the reply in hand
  slot,       \* where a deferred answer of the request at hand is handed over
  replies,    \* what each client was told
  cut,        \* clients whose connection no thread could be found for
  requests,   \* requests on their way to the driver thread
  importing,  \* IMPORTING: the import in flight, if it answers anybody
  worker,     \* the import worker
  fate,       \* what became of the imports
  stuck       \* what will not move again: the driver thread, the worker's disk

socketVars  == <<lines, gone, listener, nth, written, replies, cut>>
threadVars  == <<place, said, slot>>
importVars  == <<importing, worker, fate>>
commandVars == <<socketVars, threadVars, requests, importVars, stuck>>

(* An import asked for over the socket, or one by a rule or a key.         *)
Lines    == {"import", "rule"}
Replies  == {"ok", "refused", "outcome", "a_notice_will_say", "no_answer"}
NoImport == [by |-> Nobody, nr |-> 0, answers |-> FALSE]
Asker    == [by : Clients, nr : 1 .. MaxLines]
Fates    == {"none", "reading", "answered", "told", "noticed", "lost"}

CommandsTypeOK ==
  /\ lines \in [Clients -> Seq(Lines)]
  /\ gone \subseteq Clients /\ cut \subseteq Clients
  /\ place \in [Clients -> {"away", "queued", "reading", "asked", "late", "promised", "waiting", "telling", "closed"}]
  /\ listener \in Clients \cup {Nobody}
  /\ nth \in [Clients -> 0 .. MaxLines]
  /\ written \in 0 .. MaxLines
  /\ said \in [Clients -> Replies]
  /\ slot \in [Clients -> {"none", "waiting", "answered"}]
  /\ replies \in [Clients -> Seq(Replies)]
  /\ requests \in Seq([id : Asker, what : Lines])
  /\ importing \in [by : Clients \cup {Nobody}, nr : Nat, answers : BOOLEAN]
  /\ worker \in {"idle", "reading", "read"}
  /\ fate \in [Asker -> Fates]
  /\ stuck \subseteq {"driver", "disk"}

CommandsInit ==
  /\ lines = [c \in Clients |-> <<>>] /\ gone = {} /\ cut = {}
  /\ place = [c \in Clients |-> "away"] /\ listener = Nobody
  /\ written = 0 /\ nth = [c \in Clients |-> 0]
  /\ said = [c \in Clients |-> "ok"] /\ slot = [c \in Clients |-> "none"]
  /\ replies = [c \in Clients |-> <<>>]
  /\ requests = <<>> /\ importing = NoImport /\ worker = "idle"
  /\ fate = [i \in Asker |-> "none"]
  /\ stuck = {}

Id(c, n) == [by |-> c, nr |-> n]

-----------------------------------------------------------------------------
(* The clients.                                                            *)
Connects(c) ==
  /\ place[c] = "away"
  /\ place' = [place EXCEPT ![c] = "queued"]
  /\ UNCHANGED <<socketVars, said, slot>>

(* A line comes whole.                                                     *)
Sends(c, what) ==
  /\ place[c] \notin {"away", "closed"} /\ c \notin gone
  /\ written < MaxLines /\ written' = written + 1
  /\ lines' = [lines EXCEPT ![c] = Append(@, what)]
  /\ UNCHANGED <<threadVars, gone, listener, nth, replies, cut>>

(* One that has sent nothing only has nothing more to send.                *)
HangsUp(c) ==
  /\ place[c] \notin {"away", "closed"} /\ c \notin gone /\ nth[c] + Len(lines[c]) > 0
  /\ gone' = gone \cup {c}
  /\ UNCHANGED <<threadVars, lines, listener, nth, written, replies, cut>>

Client(c) ==
  /\ Connects(c) \/ HangsUp(c) \/ \E what \in Lines : Sends(c, what)
  /\ UNCHANGED <<requests, importVars, stuck>>

-----------------------------------------------------------------------------
(* The thread that serves a connection.                                    *)
Freed(c) == listener' = IF listener = c THEN Nobody ELSE listener

Closes(c) == place' = [place EXCEPT ![c] = "closed"] /\ Freed(c)

TakesUp(c) ==
  /\ listener = Nobody /\ place[c] = "queued"
  /\ listener' = c
  /\ place' = [place EXCEPT ![c] = "reading"]
  /\ UNCHANGED <<lines, gone, nth, said, slot, replies, cut, requests, fate>>

(* Nothing more comes, or nothing has for IDLE_TIMEOUT.  The timeout is of *)
(* each read: a client that sends a byte in time is not idle, and never    *)
(* ends its line, if it likes.  There is none here.                        *)
Idles(c) ==
  /\ place[c] = "reading" /\ lines[c] = <<>>
  /\ Closes(c)
  /\ UNCHANGED <<lines, gone, nth, said, slot, replies, cut, requests, fate>>

Asks(c) ==
  /\ place[c] = "reading" /\ lines[c] # <<>>
  /\ lines' = [lines EXCEPT ![c] = Tail(@)]
  /\ nth' = [nth EXCEPT ![c] = @ + 1]
  /\ requests' = Append(requests, [id |-> Id(c, nth[c] + 1), what |-> Head(lines[c])])
  /\ place' = [place EXCEPT ![c] = "asked"]
  /\ UNCHANGED <<gone, listener, said, slot, replies, cut, fate>>

(* REPLY_TIMEOUT.  The channel stays until this has been written.          *)
TimesOut(c) ==
  /\ place[c] = "asked"
  /\ place' = [place EXCEPT ![c] = "late"]
  /\ said' = [said EXCEPT ![c] = "no_answer"]
  /\ UNCHANGED <<lines, gone, listener, nth, slot, replies, cut, requests, fate>>

(* An answer handed over that nobody will read.                            *)
Wasted(c) ==
  fate' = IF slot[c] = "answered" THEN [fate EXCEPT ![Id(c, nth[c])] = "lost"] ELSE fate

(* A reply is written: to a client that hung up, it is not.                *)
Tells(c) ==
  /\ place[c] \in {"telling", "late"}
  /\ slot' = [slot EXCEPT ![c] = "none"]
  /\ said' = [said EXCEPT ![c] = "ok"]
  /\ IF c \in gone THEN Closes(c) /\ replies' = replies
                   ELSE /\ place' = [place EXCEPT ![c] = "reading"] /\ listener' = listener
                        /\ replies' = [replies EXCEPT ![c] = Append(@, said[c])]
  /\ IF place[c] = "telling" /\ said[c] = "outcome" /\ c \notin gone
     THEN fate' = [fate EXCEPT ![Id(c, nth[c])] = "told"]
     ELSE Wasted(c)
  /\ UNCHANGED <<lines, gone, nth, cut, requests>>

(* Deferred: a thread of its own waits, and goes on with the connection;   *)
(* the listener goes on to the next.                                       *)
Spawns(c) ==
  /\ place[c] = "promised"
  /\ place' = [place EXCEPT ![c] = "waiting"]
  /\ Freed(c)
  /\ UNCHANGED <<lines, gone, nth, said, slot, replies, cut, requests, fate>>

CannotSpawn(c) ==
  /\ place[c] = "promised"
  /\ Closes(c)
  /\ slot' = [slot EXCEPT ![c] = "none"]
  /\ cut' = cut \cup {c}
  /\ Wasted(c)
  /\ UNCHANGED <<lines, gone, nth, said, replies, requests>>

(* Deferred::wait.                                                         *)
GetsAnswer(c) ==
  /\ place[c] = "waiting" /\ slot[c] = "answered"
  /\ said' = [said EXCEPT ![c] = "outcome"]
  /\ place' = [place EXCEPT ![c] = "telling"]
  /\ UNCHANGED <<lines, gone, listener, nth, slot, replies, cut, requests, fate>>

(* A plausible slip: a deferred answer is waited for without a deadline.   *)
GivesUpNever(c) == FALSE

GivesUp(c) ==
  /\ place[c] = "waiting" /\ slot[c] = "waiting"
  /\ slot' = [slot EXCEPT ![c] = "none"]
  /\ place' = [place EXCEPT ![c] = "telling"]
  /\ UNCHANGED <<lines, gone, listener, nth, said, replies, cut, requests, fate>>

ClientThread(c) ==
  /\ TakesUp(c) \/ Idles(c) \/ Asks(c) \/ TimesOut(c) \/ Tells(c) \/ Spawns(c) \/ CannotSpawn(c)
     \/ GetsAnswer(c) \/ GivesUp(c)
  /\ UNCHANGED <<written, importing, worker, stuck>>

-----------------------------------------------------------------------------
(* Request::answer_with: the reply goes to the request's own channel, if   *)
(* its thread still has it.                                                *)
Has(id, places) == place[id.by] \in places /\ nth[id.by] = id.nr

Now(id, reply) ==
  /\ slot' = slot
  /\ IF Has(id, {"asked"})
     THEN place' = [place EXCEPT ![id.by] = "telling"] /\ said' = [said EXCEPT ![id.by] = reply]
     ELSE UNCHANGED <<place, said>>

Later(id) ==
  /\ slot' = IF Has(id, {"asked", "late"}) THEN [slot EXCEPT ![id.by] = "waiting"] ELSE slot
  /\ IF Has(id, {"asked"})
     THEN place' = [place EXCEPT ![id.by] = "promised"] /\ said' = [said EXCEPT ![id.by] = "a_notice_will_say"]
     ELSE UNCHANGED <<place, said>>

(* One import at a time.  Only a request a client waits on defers.         *)
RunsLine ==
  /\ requests # <<>>
  /\ requests' = Tail(requests)
  /\ LET id == Head(requests).id
         defers == Head(requests).what = "import"
     IN  IF importing # NoImport
         THEN Now(id, "refused") /\ UNCHANGED importVars
         ELSE /\ importing' = [by |-> id.by, nr |-> id.nr, answers |-> defers]
              /\ worker' = "reading"
              /\ fate' = [fate EXCEPT ![id] = "reading"]
              /\ IF defers THEN Later(id) ELSE Now(id, "ok")

(* A plausible slip: whoever asked is taken to be there still.           *)
TakenAsTold(id) == TRUE

(* Later::answer: whether somebody waits for it.                           *)
Waits(id) == Has(id, {"late", "promised", "waiting"}) /\ slot[id.by] = "waiting"

(* finish: to whoever waits for it, else in a notice.                      *)
Finishes ==
  /\ worker = "read"
  /\ worker' = "idle" /\ importing' = NoImport
  /\ LET id == Id(importing.by, importing.nr)
     IN  IF importing.answers /\ Waits(id)
         THEN slot' = [slot EXCEPT ![id.by] = "answered"] /\ fate' = [fate EXCEPT ![id] = "answered"]
         ELSE slot' = slot /\ fate' = [fate EXCEPT ![id] = "noticed"]
  /\ UNCHANGED <<requests, place, said>>

Driver == "driver" \notin stuck /\ (RunsLine \/ Finishes) /\ UNCHANGED <<socketVars, stuck>>

Worker ==
  /\ "disk" \notin stuck /\ worker = "reading"
  /\ worker' = "read"
  /\ UNCHANGED <<socketVars, threadVars, requests, importing, fate, stuck>>

Sticks(what) ==
  /\ stuck = {}
  /\ stuck' = {what}
  /\ UNCHANGED <<socketVars, threadVars, requests, importVars>>

-----------------------------------------------------------------------------
CommandsNext ==
  \/ \E c \in Clients : Client(c) \/ ClientThread(c)
  \/ Driver \/ Worker
  \/ \E what \in {"driver", "disk"} : Sticks(what)

(* Threads run and time passes; what is stuck does not move.               *)
CommandsFair ==
  /\ \A c \in Clients : WF_commandVars(ClientThread(c))
  /\ WF_commandVars(Driver) /\ WF_commandVars(Worker)

CommandsSpec == CommandsInit /\ [][CommandsNext]_commandVars /\ CommandsFair

-----------------------------------------------------------------------------
(* How an import went is said to whoever waits for it, or in a notice; the *)
(* answer is lost only with a connection that went after it was handed     *)
(* over, or one just told that no answer came.                             *)
LostOnlyWith(id) ==
  fate[id] = "lost" => id.by \in gone \cup cut \/ replies[id.by][id.nr] = "no_answer"

(* Who is told of a notice has one coming, who is told the outcome has     *)
(* none, and each reply is to the line it follows.                         *)
RepliesTrue(c) ==
  \A n \in DOMAIN replies[c] :
    /\ replies[c][n] = "a_notice_will_say" => fate[Id(c, n)] \in {"reading", "noticed"}
    /\ replies[c][n] = "outcome" <=> fate[Id(c, n)] = "told"

(* The import in flight is the only one, and the driver thread knows it.   *)
OneImport == \A id \in Asker : fate[id] = "reading" <=> importing # NoImport /\ id = Id(importing.by, importing.nr)

(* How an import went is said once, to whoever waits or in a notice.       *)
ImportsTold ==
  OneImport /\ (\A id \in Asker : LostOnlyWith(id)) /\ \A c \in Clients : RepliesTrue(c)

(* "where it did not - they stopped waiting - the notice says it after     *)
(* all" (bundles.rs).  It does not hold: who hangs up still counts as      *)
(* waiting.                                                                *)
AlwaysSaid == \A id \in Asker : fate[id] # "lost"

(* No import is left untold, with the worker's disk and the driver thread  *)
(* working.                                                                *)
ImportsOver == stuck # {} \/ \A id \in Asker : fate[id] \notin {"reading", "answered"}

(* "no client can pin a thread by holding a connection open", nor can a    *)
(* driver thread that has stopped: again and again nobody is waiting,      *)
(* every connection there was is closed and every import has been told.    *)
(* The clients it is said of send whole lines, and only so many: one that  *)
(* keeps sending, byte after byte or line after line, holds the listener.  *)
ClientsServed == []<>(ImportsOver /\ \A c \in Clients : place[c] \in {"away", "closed"})
=============================================================================
