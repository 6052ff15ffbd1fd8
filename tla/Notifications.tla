---------------------------- MODULE Notifications ----------------------------
(***************************************************************************)
(* The notification daemon: crates/services/src/notifications.rs, and the  *)
(* column that draws its popups (crates/modules/src/stack/mod.rs).         *)
(*                                                                         *)
(* The bus thread, the driver thread ("ui") and a thread per popup clock   *)
(* change the state under one mutex and hand what they made of it to the   *)
(* saver and the column after letting go of it.                            *)
(***************************************************************************)
EXTENDS Naturals, Sequences, FiniteSets

CONSTANTS
  MaxIds,     \* bound: ids given out
  MaxSends,   \* bound: notifications sent
  MaxActs     \* bound: what the user and the clients do besides

ASSUME NotificationsAssumption == {MaxIds, MaxSends, MaxActs} \subseteq Nat \ {0}

VARIABLES
  live,      \* State.active, senders and latest, by id
  nextId,    \* State.next_id
  sends,     \* State.sends
  dnd,       \* State.dnd
  flight,    \* commits whose snapshot is yet to be handed on, and by whom
  arming,    \* what each thread has pushed and not yet armed: an id, 0 for none
  toClock,   \* Inner.pending
  clocks,    \* the expiry threads that sleep
  listening, \* the column has subscribed
  inbox,     \* snapshots on their way to the column
  column,    \* the snapshot the column draws
  taking,    \* the notice each thread is taking down (close, expire), by its id, 0 for none
  acts       \* bound counter

notifVars == <<live, nextId, sends, dnd, flight, arming, toClock, clocks, listening,
               inbox, column, taking, acts>>

Ids   == 1 .. MaxIds
Gone  == [by |-> "nobody", sent |-> 0, popup |-> FALSE]
Popped(l) == {id \in Ids : l[id].popup}
NoTaking  == [id |-> 0, drops |-> FALSE, disarmed |-> FALSE]

NotifTypeOK ==
  /\ live \in [Ids -> [by : {"nobody", "shell", "client"}, sent : 0 .. MaxSends,
                       popup : BOOLEAN]]
  /\ nextId \in 0 .. MaxIds /\ sends \in 0 .. MaxSends /\ acts \in 0 .. MaxActs
  /\ {dnd, listening} \subseteq BOOLEAN
  /\ flight \subseteq [up : SUBSET Ids, by : {"bus", "ui", "clock"}]
  /\ arming \in [{"bus", "ui"} -> 0 .. MaxIds]
  /\ taking \in [{"bus", "ui"} -> [id : 0 .. MaxIds, drops : BOOLEAN, disarmed : BOOLEAN]]
  /\ toClock \subseteq Ids
  /\ clocks \subseteq [id : Ids, sent : 1 .. MaxSends]
  /\ inbox \in Seq(SUBSET Ids) /\ column \in SUBSET Ids

NotifInit ==
  /\ live = [id \in Ids |-> Gone]
  /\ nextId = 0 /\ sends = 0 /\ dnd = FALSE /\ flight = {} /\ acts = 0
  /\ arming = [t \in {"bus", "ui"} |-> 0]
  /\ taking = [t \in {"bus", "ui"} |-> NoTaking]
  /\ toClock = {} /\ clocks = {}
  /\ listening = FALSE /\ inbox = <<>> /\ column = {}

-----------------------------------------------------------------------------
(* A thread that is not in the middle of an earlier call.                  *)
Free(t) == arming[t] = 0 /\ taking[t].id = 0 /\ \A f \in flight : f.by # t

(* commit: the state changes under its mutex; what was made of it is       *)
(* handed on afterwards.                                                   *)
Commit(t, l) ==
  /\ live' = l
  /\ flight' = flight \cup {[up |-> Popped(l), by |-> t]}

(* The rest of commit: to the saver, and to the subscribers there are.     *)
HandOn ==
  /\ \E f \in flight :
       /\ flight' = flight \ {f}
       /\ inbox' = IF listening THEN Append(inbox, f.up) ELSE inbox
  /\ UNCHANGED <<live, nextId, sends, dnd, arming, toClock, clocks, listening, column, taking, acts>>

(* subscribe: the subscribers are held across the reading of the state.    *)
Subscribe ==
  /\ ~listening
  /\ listening' = TRUE
  /\ inbox' = <<Popped(live)>>
  /\ UNCHANGED <<live, nextId, sends, dnd, flight, arming, toClock, clocks, column, taking, acts>>

-----------------------------------------------------------------------------
(* may_take and assign: an id stays with the shell, or with the clients.   *)
MayTake(id, author) == live[id] # Gone /\ (live[id].by = "shell" <=> author = "shell")

Assigned(replaces, author) ==
  IF replaces # 0 /\ MayTake(replaces, author) THEN replaces ELSE nextId + 1

(* Whether a send pops, do-not-disturb or not.                             *)
Pops == ~dnd

(* push_as, from the bus (notify) or the shell (post_shell), which arms    *)
(* the expiry once push has returned.                                      *)
Push(t, author, replaces) ==
  LET id == Assigned(replaces, author) IN
  /\ Free(t) /\ sends < MaxSends /\ id <= MaxIds
  /\ nextId' = IF id > nextId THEN id ELSE nextId
  /\ sends' = sends + 1
  /\ Commit(t, [live EXCEPT ![id] = [by |-> author, sent |-> sends + 1, popup |-> Pops]])
  /\ arming' = [arming EXCEPT ![t] = id]
  /\ UNCHANGED <<dnd, toClock, clocks, listening, inbox, column, taking, acts>>

(* A plausible slip, and one the code had: the shell's own are not armed.  *)
ArmedByBusOnly(t) == IF t = "bus" THEN toClock \cup {arming[t]} ELSE toClock

(* arm_expiry.                                                             *)
Armed(t) == toClock \cup {arming[t]}

Arm(t) ==
  /\ arming[t] # 0 /\ \A f \in flight : f.by # t
  /\ toClock' = Armed(t)
  /\ arming' = [arming EXCEPT ![t] = 0]
  /\ UNCHANGED <<live, nextId, sends, dnd, flight, clocks, listening, inbox, column, taking, acts>>

-----------------------------------------------------------------------------
Acts == acts < MaxActs /\ acts' = acts + 1

Rest == UNCHANGED <<nextId, sends, arming, listening, inbox, column>>

(* set_dnd: switching it on retires what is up.                            *)
SetDnd ==
  /\ Free("ui") /\ Acts
  /\ dnd' = ~dnd
  /\ Commit("ui", IF dnd' THEN [id \in Ids |-> [live[id] EXCEPT !.popup = FALSE]] ELSE live)
  /\ UNCHANGED <<toClock, clocks, taking>>
  /\ Rest

(* A notice is disarmed and then taken down, under two mutexes in turn:    *)
(* what a client makes of its id in between is taken down with it.         *)
TakesDown(t, id, drops) ==
  /\ Free(t) /\ Acts
  /\ taking' = [taking EXCEPT ![t] = [id |-> id, drops |-> drops, disarmed |-> FALSE]]
  /\ UNCHANGED <<live, flight, dnd, toClock, clocks>>
  /\ Rest

(* close, by the user; close_from, by a client that may take it down,      *)
(* which is decided before; take_action, which disarms after its commit    *)
(* and finds an id that nobody is given again.                             *)
Close(t, id) ==
  /\ IF t = "ui" THEN live[id] # Gone ELSE MayTake(id, "client")
  /\ TakesDown(t, id, TRUE)

(* expire: the popup is swiped away, and stays in the history.             *)
Expire(id) == live[id].popup /\ TakesDown("ui", id, FALSE)

(* disarm_expiry.                                                          *)
Disarm(t) ==
  /\ taking[t].id # 0 /\ ~taking[t].disarmed
  /\ toClock' = toClock \ {taking[t].id}
  /\ taking' = [taking EXCEPT ![t].disarmed = TRUE]
  /\ UNCHANGED <<live, flight, dnd, clocks, acts>>
  /\ Rest

(* The commit of close, and of expire.                                     *)
TakeDown(t) ==
  LET k == taking[t] IN
  /\ k.id # 0 /\ k.disarmed
  /\ Commit(t, [live EXCEPT ![k.id] = IF k.drops THEN Gone ELSE [@ EXCEPT !.popup = FALSE]])
  /\ taking' = [taking EXCEPT ![t] = NoTaking]
  /\ UNCHANGED <<dnd, toClock, clocks, acts>>
  /\ Rest

(* clear_all: what was armed stays armed.                                  *)
ClearAll ==
  /\ Free("ui") /\ Acts
  /\ Commit("ui", [id \in Ids |-> Gone])
  /\ UNCHANGED <<dnd, toClock, clocks, taking>>
  /\ Rest

-----------------------------------------------------------------------------
(* The column draws the next snapshot, or draws what it has again, and     *)
(* tells the daemon which cards are on screen (shown, start_expiry).       *)
Shown(up) ==
  /\ toClock' = toClock \ up
  /\ clocks' = clocks \cup {[id |-> id, sent |-> live[id].sent] : id \in {i \in toClock \cap up :
                                                                       live[i] # Gone}}

Draw ==
  /\ inbox # <<>>
  /\ inbox' = Tail(inbox)
  /\ column' = Head(inbox)
  /\ Shown(column')
  /\ UNCHANGED <<live, nextId, sends, dnd, flight, arming, listening, taking, acts>>

(* Anything else the column shows changes: a toast, an OSD, the focus.     *)
Redraw ==
  /\ Acts /\ listening
  /\ Shown(column)
  /\ UNCHANGED <<live, nextId, sends, dnd, flight, arming, listening, inbox, column, taking>>

(* A plausible slip: whatever goes by that id.                             *)
RetiredById(c) ==
  [id \in Ids |-> IF id = c.id THEN [live[id] EXCEPT !.popup = FALSE] ELSE live[id]]

(* expire_sent: a clock that runs out retires the send it was started for. *)
Retired(c) ==
  [id \in Ids |-> IF id = c.id /\ live[id].sent = c.sent THEN [live[id] EXCEPT !.popup = FALSE]
                                                         ELSE live[id]]

Rings(c) ==
  /\ clocks' = clocks \ {c}
  /\ Commit("clock", Retired(c))
  /\ UNCHANGED <<dnd, toClock, taking, acts>>
  /\ Rest

NotifNext ==
  \/ HandOn \/ Subscribe \/ SetDnd \/ ClearAll \/ Draw \/ Redraw
  \/ \E r \in 0 .. MaxIds : Push("bus", "client", r) \/ Push("ui", "shell", r)
  \/ \E t \in {"bus", "ui"} : Arm(t) \/ Disarm(t) \/ TakeDown(t)
  \/ \E t \in {"bus", "ui"}, id \in Ids : Close(t, id)
  \/ \E id \in Ids : Expire(id)
  \/ \E c \in clocks : Rings(c)

(* Threads finish their calls, the column draws what it is sent and a      *)
(* clock that was started runs out.                                        *)
NotifFair ==
  /\ WF_notifVars(HandOn)
  /\ WF_notifVars(\E t \in {"bus", "ui"} : Arm(t) \/ Disarm(t) \/ TakeDown(t))
  /\ WF_notifVars(Draw)
  /\ WF_notifVars(Subscribe)
  /\ WF_notifVars(\E c \in clocks : Rings(c))

NotifSpec == NotifInit /\ [][NotifNext]_notifVars /\ NotifFair

-----------------------------------------------------------------------------
(* A notice of the shell's is never replaced by a client's, nor the other  *)
(* way round: what is up under an id keeps its kind of author until gone.  *)
AuthorsKept ==
  [][\A id \in Ids : live[id] # Gone => live'[id] = Gone \/ live'[id].by = live[id].by]_notifVars

(* Suppressed is not deferred: what did not pop as it arrived, or was      *)
(* retired, pops again only as a new send, and nothing pops under          *)
(* do-not-disturb.                                                         *)
SuppressedStays ==
  [][/\ \A id \in Ids : live'[id].popup /\ ~live[id].popup => live'[id].sent # live[id].sent
     /\ dnd' => Popped(live') = {}]_notifVars

(* The clock of a version that was replaced changes nothing.               *)
ClockRetiresOwn ==
  [][\A c \in clocks \ clocks' : live[c.id].sent # c.sent => live'[c.id] = live[c.id]]_notifVars

(* A popup that has no clock yet, whose sender has been answered and that  *)
(* no thread is about to take down, is armed: the next time the column     *)
(* draws it, its clock starts.                                             *)
PopupArmed(id) ==
  \/ id \in toClock
  \/ [id |-> id, sent |-> live[id].sent] \in clocks
  \/ \E t \in {"bus", "ui"} : \/ arming[t] = id
                             \/ (taking[t].id = id /\ taking[t].disarmed)

PopupsArmed == \A id \in Popped(live) : PopupArmed(id)

(* A clock that runs retires its popup, unless something else does first.  *)
ClockEnds == []<>(\A c \in clocks : ~(live[c.id].popup /\ live[c.id].sent = c.sent))

(* post_shell: "Only the D-Bus path armed one, so the column's shown found *)
(* no clock to start". It does not hold of a popup that is armed after the *)
(* column drew it and is not drawn again.                                  *)
PopupExpires ==
  \A id \in Ids, n \in 1 .. MaxSends :
    live[id].popup /\ live[id].sent = n ~> ~(live[id].popup /\ live[id].sent = n)

(* What the column draws, once all is handed on, is the state as it is. It *)
(* does not hold: two commits may be handed on in the other order.         *)
ColumnInSync == listening /\ flight = {} /\ inbox = <<>> => column = Popped(live)

(* Whoever acts in between, a popup is changed by its own author, its own  *)
(* clock or the user, and never comes back.                                *)
PopupsKept == AuthorsKept /\ SuppressedStays /\ ClockRetiresOwn

(* A popup that is drawn after it was armed goes by itself.                *)
PopupsEnd == [](\A id \in Popped(live) : PopupArmed(id)) /\ ClockEnds
=============================================================================
