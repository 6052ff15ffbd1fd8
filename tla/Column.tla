------------------------------- MODULE Column --------------------------------
(***************************************************************************)
(* The column of cards: the toaster's queue and its thread                 *)
(* (crates/services/src/toaster.rs), the OSD's single slot and its timers, *)
(* and the order and the admission of what is drawn                        *)
(* (crates/modules/src/stack/mod.rs), on the one lane that all cards are   *)
(* routed to.  Notifications come and go.                                  *)
(***************************************************************************)
EXTENDS Naturals, SequencesExt, Subsequence

CONSTANTS
  Popups,    \* notifications that may pop
  Critical,  \* those of them that are urgent
  Events,    \* what toasts are about
  Osds,      \* OsdKind: what an OSD reads
  Visible,   \* stack.visible(): toasts kept
  Capacity,  \* of those and of cards, what the lane has room for
  Life,      \* stack.lifetime(), in ticks
  MaxPosts,  \* bound: toasts posted
  MaxShows   \* bound: OSDs shown

ASSUME ColumnAssumption ==
  /\ Capacity <= Visible /\ {Visible, Capacity, Life, MaxPosts, MaxShows} \subseteq Nat \ {0}
  /\ Critical \subseteq Popups /\ Popups \cap Events = {}
  /\ Osds \cap (Popups \cup Events) = {} /\ "none" \notin Osds

VARIABLES
  popping,  \* notifications in the snapshot that pop
  posts,    \* bound counter
  toasts,   \* the toaster's `live`, and what it published
  osd,      \* OSD: the kind that is up, or NoOsd
  shows,    \* OSD_GENERATION
  timers,   \* the OSD timers that run: generation and time left
  since,    \* history: time left to the OSD shown last
  arrived,  \* Arrivals.seen: slots by arrival
  drawn     \* the cards on screen

columnVars == <<popping, posts, toasts, osd, shows, timers, since, arrived, drawn>>

Slots    == Popups \cup Events \cup Osds
NoOsd    == "none"
Kind(s)  == IF s \in Popups THEN "notification" ELSE IF s \in Events THEN "toast" ELSE "osd"
Toast    == [event : Events, left : 0 .. Life]

ColumnTypeOK ==
  /\ popping \in Seq(Popups) /\ IsInjective(popping)
  /\ posts \in 0 .. MaxPosts /\ shows \in 0 .. MaxShows /\ since \in 0 .. Life
  /\ osd \in Osds \cup {NoOsd}
  /\ toasts \in Seq(Toast) /\ Len(toasts) <= Visible
  /\ \A i, j \in DOMAIN toasts : toasts[i].event = toasts[j].event => i = j
  /\ timers \subseteq [gen : 1 .. MaxShows, left : 0 .. Life]
  /\ arrived \in Seq(Slots) /\ IsInjective(arrived) /\ drawn \subseteq ToSet(arrived)

ColumnInit ==
  /\ popping = <<>> /\ posts = 0 /\ toasts = <<>>
  /\ osd = NoOsd /\ shows = 0 /\ timers = {} /\ since = 0 /\ arrived = <<>> /\ drawn = {}

-----------------------------------------------------------------------------
(* cards_now.                                                              *)
Cards(up, live, shown) ==
  up \o [i \in DOMAIN live |-> live[i].event] \o (IF shown = NoOsd THEN <<>> ELSE <<shown>>)

(* Arrivals::order, as the slots in the order of their stamps: who stays   *)
(* keeps its place, who left is forgotten.                                 *)
Arrivals(cards) ==
  Picked(arrived, {i \in DOMAIN arrived : arrived[i] \in ToSet(cards)})
    \o Picked(cards, {i \in DOMAIN cards : cards[i] \notin ToSet(arrived)})

(* What is critical is drawn first, the rest as it arrived.                *)
Before(s, t, order) ==
  IF (s \in Critical) # (t \in Critical) THEN s \in Critical
  ELSE \E i, j \in DOMAIN order : order[i] = s /\ order[j] = t /\ i < j

(* admit: each provider's first, then the rest while there is room.        *)
First(order) ==
  {s \in ToSet(order) : \A t \in ToSet(order) : Kind(t) = Kind(s) => ~Before(t, s, order)}

Waiting(s, first, order) == {t \in ToSet(order) \ first : t = s \/ Before(t, s, order)}

Fits(s, first, order) == Cardinality(Waiting(s, first, order)) + Cardinality(first) <= Capacity

(* The lane is drawn again from what it holds now.                         *)
Lays(up, live, shown) ==
  /\ \E cards \in {Cards(up, live, shown)} : arrived' = Arrivals(cards)
  /\ \E first \in {First(arrived')} :
       drawn' = first \cup {s \in ToSet(arrived') \ first : Fits(s, first, arrived')}

-----------------------------------------------------------------------------
(* toaster::admit: in the place of the one about the same event, or after  *)
(* the others, the oldest making room.                                     *)
Latest(s, n) == SubSeq(s, IF Len(s) > n THEN Len(s) - n + 1 ELSE 1, Len(s))

(* A plausible slip: every toast is a card of its own.                     *)
AdmittedTwice(live, t) == Latest(Append(live, t), Visible)

Admitted(live, t) ==
  IF \E i \in DOMAIN live : live[i].event = t.event
  THEN [i \in DOMAIN live |-> IF live[i].event = t.event THEN t ELSE live[i]]
  ELSE Latest(Append(live, t), Visible)

Unexpired(live) == Picked(live, {i \in DOMAIN live : live[i].left > 0})

(* The toaster's thread takes a message: a toast posted for an event, one   *)
(* dismissed, which is gone if it was replaced, or all of them cleared.    *)
Receives(live) ==
  /\ toasts' = Unexpired(live)
  /\ Lays(popping, toasts', osd)
  /\ UNCHANGED <<popping, osd, shows, timers, since>>

PostToast(event) ==
  /\ posts < MaxPosts /\ posts' = posts + 1
  /\ Receives(Admitted(toasts, [event |-> event, left |-> Life]))

DismissToast ==
  /\ \E event \in Events : Receives(Picked(toasts, {i \in DOMAIN toasts : toasts[i].event # event}))
  /\ UNCHANGED posts

ClearToasts == Receives(<<>>) /\ UNCHANGED posts

(* Or nobody sends it any, and the soonest expiry wakes it.                *)
ToasterWakes ==
  /\ \E i \in DOMAIN toasts : toasts[i].left = 0
  /\ Receives(toasts)
  /\ UNCHANGED posts

-----------------------------------------------------------------------------
(* A plausible slip: any timer that runs out clears the slot.              *)
ReplacedNever(t) == FALSE

(* show_osd: the slot is taken, and a timer of this generation started.    *)
ShowOsd(kind) ==
  /\ shows < MaxShows
  /\ shows' = shows + 1
  /\ osd' = kind /\ since' = Life
  /\ timers' = timers \cup {[gen |-> shows + 1, left |-> Life]}
  /\ Lays(popping, toasts, kind)
  /\ UNCHANGED <<popping, posts, toasts>>

ClearOsd ==
  /\ osd # NoOsd /\ osd' = NoOsd /\ since' = 0
  /\ Lays(popping, toasts, NoOsd)
  /\ UNCHANGED <<popping, posts, toasts, shows, timers>>

Replaced(t) == t.gen # shows

OsdTimer ==
  /\ \E t \in timers :
       /\ t.left = 0
       /\ timers' = timers \ {t}
       /\ osd' = IF Replaced(t) THEN osd ELSE NoOsd
  /\ Lays(popping, toasts, osd')
  /\ UNCHANGED <<popping, posts, toasts, shows, since>>

(* Time passes, for all that waits for it.                                 *)
Less(t) == [t EXCEPT !.left = IF @ > 0 THEN @ - 1 ELSE 0]

Tick ==
  /\ toasts' = [i \in DOMAIN toasts |-> Less(toasts[i])]
  /\ timers' = {Less(t) : t \in timers}
  /\ since' = IF since > 0 THEN since - 1 ELSE 0
  /\ UNCHANGED <<popping, posts, osd, shows, arrived, drawn>>

-----------------------------------------------------------------------------
(* A snapshot of the notifications.                                        *)
Notify ==
  /\ \E p \in Popups :
       popping' = IF p \in ToSet(popping)
                  THEN Picked(popping, {i \in DOMAIN popping : popping[i] # p})
                  ELSE Append(popping, p)
  /\ Lays(popping', toasts, osd)
  /\ UNCHANGED <<posts, toasts, osd, shows, timers, since>>

ColumnNext ==
  \/ ToasterWakes \/ DismissToast \/ ClearToasts \/ ClearOsd \/ OsdTimer \/ Tick \/ Notify
  \/ \E event \in Events : PostToast(event)
  \/ \E kind \in Osds : ShowOsd(kind)

(* Time passes, timers and the toaster's thread run.                       *)
ColumnFair ==
  /\ WF_columnVars(Tick)
  /\ WF_columnVars(ToasterWakes)
  /\ WF_columnVars(OsdTimer)

ColumnSpec == ColumnInit /\ [][ColumnNext]_columnVars /\ ColumnFair

-----------------------------------------------------------------------------
(* Whoever has something to say has a card on screen, however many cards   *)
(* the others have, and there is no more than the capacity besides.        *)
EveryProviderSpeaks ==
  LET speaking == {Kind(s) : s \in ToSet(arrived)} IN
  /\ {Kind(s) : s \in drawn} = speaking
  /\ Cardinality(drawn) > Capacity => Cardinality(drawn) = Cardinality(speaking)

(* A card on screen is not displaced by one that came after it, unless     *)
(* another provider begins to speak or the one that came is critical.      *)
NotDisplaced ==
  [][\A s \in drawn \cap ToSet(arrived') :
       s \in drawn'
       \/ {Kind(c) : c \in ToSet(arrived')} \ {Kind(c) : c \in ToSet(arrived)} # {}
       \/ (Critical \cap drawn') \ drawn # {}]_columnVars

(* A timer of an OSD that was replaced takes nothing down: an OSD stays    *)
(* its whole time after it was last shown, or until it is swiped.          *)
OsdStaysItsTime ==
  [][osd # NoOsd /\ osd' = NoOsd => since = 0 \/ (since' = 0 /\ timers' = timers)]_columnVars

(* Toasts and the OSD go by themselves, whether or not anybody draws the   *)
(* column.                                                                 *)
AllGo == <>[](toasts = <<>> /\ osd = NoOsd)

(* No card keeps another provider from speaking, nor takes a place that is *)
(* taken; toasts and the OSD go by themselves, and the OSD not before its  *)
(* time, though it was replaced.                                           *)
CardsKept == []EveryProviderSpeaks /\ NotDisplaced /\ OsdStaysItsTime /\ AllGo
=============================================================================
