--------------------------- MODULE LockDriverProofs ---------------------------
(* The driver never provokes the compositor, is never refused because of a *)
(* lock of its own, and its flag speaks of the lock in force: for any      *)
(* number of handles and any compositor that speaks the protocol.          *)
EXTENDS LockDriver, SequenceTheorems, TLAPS

Releases(i, h) == wire[i] \in {Msg("unlock", h), Msg("destroy", h)}

(* Whatever is said, held or remembered is about handles the driver has    *)
(* started, and the one still pending is none of them.                     *)
Old(h) == h \in 1 .. used /\ h # pending

Known ==
  /\ pending # None => pending = used
  /\ \A i \in DOMAIN wire : Old(wire[i].h)
  /\ \A i \in DOMAIN events : Old(events[i].h)
  /\ drv # None => Old(drv)
  /\ holder \in Handles => Old(holder)
  /\ \A h \in told \cup refusals : Old(h)

(* What a lock's first requests and answers say of each other.             *)
LockBeforeSync ==
  \A i, j \in DOMAIN wire, h \in Handles :
    wire[i] = Msg("lock", h) /\ wire[j] = Msg("sync", h) => i < j

Unanswered ==
  \A i \in DOMAIN wire, j \in DOMAIN events, h \in Handles :
    wire[i] = Msg("lock", h) => events[j] # Msg("done", h)

LateSurface ==
  \A i, j \in DOMAIN wire, h \in Handles :
    wire[i] = Msg("lock", h) => wire[j] # Msg("surface", h)

SettledLate ==
  settled => drv # None /\ ~InFlight(wire, Msg("lock", drv))

(* A refusal reaches the driver before the answer to the sync behind it.   *)
RefusalTold ==
  drv \in refusals => hfinished[drv] \/ InFlight(events, Msg("finished", drv))

RefusalFirst ==
  drv \in refusals =>
    \/ hfinished[drv]
    \/ \A i \in DOMAIN events : events[i] = Msg("done", drv) =>
         \E j \in DOMAIN events : j < i /\ events[j] = Msg("finished", drv)

RefusalSettled == settled /\ drv \in refusals => hfinished[drv]

(* The locks the driver has asked for follow one another: each is over     *)
(* before the next, for the compositor too.                                *)
OthersReleased ==
  /\ holder \in Handles /\ holder # drv => \E j \in DOMAIN wire : Releases(j, holder)
  /\ \A i \in DOMAIN wire, h \in Handles :
       wire[i] = Msg("lock", h) /\ h # drv => \E j \in DOMAIN wire : j > i /\ Releases(j, h)

Succession ==
  /\ \A i \in DOMAIN wire, h \in Handles :
       wire[i] = Msg("lock", h) /\ holder \in Handles =>
         \E j \in DOMAIN wire : j < i /\ Releases(j, holder)
  /\ \A i, k \in DOMAIN wire, g, h \in Handles :
       wire[i] = Msg("lock", g) /\ wire[k] = Msg("lock", h) /\ i < k =>
         \E j \in DOMAIN wire : i < j /\ j < k /\ Releases(j, g)

NotReleased == \A i \in DOMAIN wire : ~Releases(i, drv)

(* What the flag says, and is about to say.                                *)
InForce ==
  \/ holder = drv /\ clocked
  \/ InFlight(events, Msg("finished", drv))
  \/ hfinished[drv]
  \/ broken

FlagTrue ==
  /\ sessionLocked => drv # None
  /\ drv # None /\ (sessionLocked \/ InFlight(events, Msg("locked", drv))) => InForce

Orderly ==
  /\ Known
  /\ LockBeforeSync /\ Unanswered /\ LateSurface /\ SettledLate
  /\ RefusalTold /\ RefusalFirst /\ RefusalSettled /\ RefusedUncovered
  /\ OthersReleased /\ Succession /\ NotReleased
  /\ FlagTrue

IInv == LockTypeOK /\ Orderly

-----------------------------------------------------------------------------
(* Sequences that grow at one end and shrink at the other.                 *)

LEMMA Appended ==
  ASSUME NEW S, NEW s \in Seq(S), NEW e \in S
  PROVE  /\ Append(s, e) \in Seq(S)
         /\ \A i \in DOMAIN s : i \in DOMAIN Append(s, e) /\ Append(s, e)[i] = s[i]
                                /\ i \in Nat /\ i >= 1 /\ i < Len(s) + 1
         /\ Len(s) + 1 \in DOMAIN Append(s, e) /\ Append(s, e)[Len(s) + 1] = e
         /\ \A i \in DOMAIN Append(s, e) : i \in DOMAIN s \/ i = Len(s) + 1
         /\ Len(s) \in Nat /\ Len(Append(s, e)) = Len(s) + 1
<1>1. /\ Append(s, e) \in Seq(S) /\ Len(Append(s, e)) = Len(s) + 1
      /\ \A i \in 1 .. Len(s) : Append(s, e)[i] = s[i]
      /\ Append(s, e)[Len(s) + 1] = e
  BY AppendProperties
<1>2. Len(s) \in Nat /\ DOMAIN s = 1 .. Len(s) /\ DOMAIN Append(s, e) = 1 .. Len(s) + 1
  BY <1>1
<1> QED
  BY <1>1, <1>2

LEMMA TwoMore ==
  ASSUME NEW S, NEW s \in Seq(S), NEW a \in S, NEW b \in S
  PROVE  s \o <<a, b>> = Append(Append(s, a), b)
<1>1. <<a>> \in Seq(S) /\ <<b>> \in Seq(S) /\ <<a, b>> = <<a>> \o <<b>>
  <2>1. <<a>> \in Seq(S) /\ <<b>> \in Seq(S)
    OBVIOUS
  <2>2. Append(<<a>>, b) = <<a>> \o <<b>>
    BY <2>1, AppendIsConcat
  <2>3. Append(<<a>>, b) = <<a, b>>
    <3>1. /\ Append(<<a>>, b) \in Seq(S) /\ Len(Append(<<a>>, b)) = 2
          /\ Append(<<a>>, b)[1] = a /\ Append(<<a>>, b)[2] = b
      BY <2>1, AppendProperties
    <3>2. <<a, b>> \in Seq(S) /\ Len(<<a, b>>) = 2 /\ <<a, b>>[1] = a /\ <<a, b>>[2] = b
      OBVIOUS
    <3> DEFINE s1 == Append(<<a>>, b)
               s2 == <<a, b>>
    <3> HIDE DEF s1, s2
    <3>3. s1 \in Seq(S) /\ s2 \in Seq(S) /\ Len(s1) = Len(s2)
          /\ \A i \in 1 .. Len(s1) : s1[i] = s2[i]
      BY <3>1, <3>2 DEF s1, s2
    <3>4. s1 = s2
      BY <3>3, SeqEqual, Zenon
    <3> QED
      BY <3>4 DEF s1, s2
  <2> QED
    BY <2>1, <2>2, <2>3
<1>2. Append(s, a) \in Seq(S) /\ Append(s, a) = s \o <<a>>
  BY AppendIsConcat
<1>3. Append(Append(s, a), b) = Append(s, a) \o <<b>>
  BY <1>2, AppendIsConcat
<1> QED
  BY <1>1, <1>2, <1>3, ConcatAssociative

LEMMA Shorter ==
  ASSUME NEW S, NEW s \in Seq(S), s # <<>>
  PROVE  /\ 1 \in DOMAIN s /\ Head(s) = s[1] /\ Head(s) \in S /\ Tail(s) \in Seq(S)
         /\ \A i \in DOMAIN Tail(s) : i \in Nat /\ i + 1 \in DOMAIN s /\ Tail(s)[i] = s[i + 1]
         /\ \A i \in DOMAIN s : i \in Nat /\ i >= 1
                                /\ (i # 1 => i - 1 \in DOMAIN Tail(s) /\ Tail(s)[i - 1] = s[i])
<1>1. Len(s) \in Nat /\ Len(s) # 0 /\ DOMAIN s = 1 .. Len(s)
  OBVIOUS
<1>2. /\ Head(s) \in S /\ Tail(s) \in Seq(S) /\ Len(Tail(s)) = Len(s) - 1 /\ Head(s) = s[1]
      /\ \A i \in 1 .. Len(Tail(s)) : Tail(s)[i] = s[i + 1]
  BY <1>1, HeadTailProperties, SMT
<1>3. DOMAIN Tail(s) = 1 .. Len(Tail(s))
  BY <1>2
<1>4. \A i \in DOMAIN Tail(s) : i \in Nat /\ i + 1 \in DOMAIN s /\ Tail(s)[i] = s[i + 1]
  BY <1>1, <1>2, <1>3
<1>5. ASSUME NEW i \in DOMAIN s
      PROVE  i \in Nat /\ i >= 1
             /\ (i # 1 => i - 1 \in DOMAIN Tail(s) /\ Tail(s)[i - 1] = s[i])
  <2>1. i \in Nat /\ i >= 1 /\ i <= Len(s)
    BY <1>1
  <2>2. i # 1 => i - 1 \in 1 .. Len(Tail(s)) /\ (i - 1) + 1 = i
    BY <1>1, <1>2, <2>1
  <2> QED
    BY <1>2, <1>3, <2>1, <2>2
<1> QED
  BY <1>1, <1>2, <1>4, <1>5

LEMMA Messages ==
  /\ \A k, h : Msg(k, h).kind = k /\ Msg(k, h).h = h
  /\ \A j, k, g, h : Msg(j, g) = Msg(k, h) => j = k /\ g = h
  /\ \A m \in Requests : m = Msg(m.kind, m.h) /\ m.h \in Handles
       /\ m.kind \in {"lock", "sync", "surface", "unlock", "destroy"}
  /\ \A m \in Answers : m = Msg(m.kind, m.h) /\ m.h \in Handles
       /\ m.kind \in {"locked", "finished", "done"}
  /\ \A k \in {"lock", "sync", "surface", "unlock", "destroy"}, h \in Handles : Msg(k, h) \in Requests
  /\ \A k \in {"locked", "finished", "done"}, h \in Handles : Msg(k, h) \in Answers
BY DEF Msg, Requests, Answers

-----------------------------------------------------------------------------
(* A turn either starts the pending lock, and may end it at once, or sees  *)
(* to the one that is up.                                                  *)

(* What every turn does to the handles.                                    *)
Turned ==
  /\ pending' = None
  /\ \A h \in Handles : hfinished[h] => hfinished'[h]
  /\ UNCHANGED <<used, hunlock, compositorVars, events>>

Releasing(h) == {Msg("unlock", h), Msg("destroy", h)}

StartsOne ==
  /\ pending # None /\ drv = None
  /\ LET first == <<Msg("lock", pending), Msg("sync", pending)>> IN
       \/ /\ wire' = wire \o first
          /\ drv' = pending /\ UNCHANGED <<settled, sessionLocked>>
       \/ \E m \in Releasing(pending) :
            /\ wire' = (wire \o first) \o <<m>>
            /\ drv' = None /\ settled' = FALSE /\ sessionLocked' = FALSE

EndsIt ==
  /\ drv # None
  /\ \E m \in Releasing(drv) : wire' = Append(wire, m)
  /\ drv' = None /\ settled' = FALSE /\ sessionLocked' = FALSE

GoesOn ==
  /\ \/ wire' = wire
     \/ /\ wire' = Append(wire, Msg("surface", drv))
        /\ drv # None /\ settled /\ ~hfinished'[drv]
  /\ UNCHANGED <<drv, settled, sessionLocked>>

LEMMA TurnSplits ==
  ASSUME LockTypeOK, Turn
  PROVE  Turned /\ (StartsOne \/ EndsIt \/ GoesOn)
<1> USE DEF LockTypeOK
<1>1. Turned
  <2>1. hfinished' = Finished /\ pending' = None /\ UNCHANGED <<used, hunlock, compositorVars, events>>
    BY DEF Turn
  <2>2. \A h \in Handles : hfinished[h] => Finished[h]
    BY DEF Finished
  <2> QED
    BY <2>1, <2>2 DEF Turned
<1>2. wire \in Seq(Requests) /\ (End \/ Cover) /\ hfinished' = Finished
  BY DEF Turn
<1>3. CASE Starts
  <2> DEFINE first == <<Msg("lock", pending), Msg("sync", pending)>>
  <2>1. Current = pending /\ StartRequests = first /\ pending # None /\ drv = None
    BY <1>3 DEF Starts, Current, StartRequests
  <2>2. CASE End
    <3>1. PICK m \in Releasing(pending) : wire' = wire \o first \o <<m>>
      BY <2>1, <2>2 DEF End, Releasing
    <3> QED
      BY <1>1, <2>1, <2>2, <3>1 DEF End, StartsOne
  <2>3. CASE Cover
    <3>1. wire' = wire \o first \o <<>>
      BY <1>3, <2>1, <2>3 DEF Cover
    <3>2. wire' = wire \o first
      BY <3>1
    <3> QED
      BY <1>1, <2>1, <2>3, <3>2 DEF Cover, StartsOne
  <2> QED
    BY <1>2, <2>2, <2>3
<1>4. CASE ~Starts
  <2>1. Current = drv /\ StartRequests = <<>>
    BY <1>4 DEF Current, StartRequests
  <2>2. End => drv # None
    BY <1>4, <2>1 DEF End, Over
  <2>3. CASE End
    <3>1. PICK m \in Releasing(drv) : wire' = wire \o <<>> \o <<m>>
      BY <2>1, <2>3 DEF End, Releasing
    <3>2. wire' = Append(wire, m)
      BY <1>2, <3>1
    <3> QED
      BY <1>1, <2>2, <2>3, <3>2 DEF End, EndsIt
  <2>4. CASE Cover
    <3>1. (drv # None => ~Finished[drv]) /\ drv' = drv /\ UNCHANGED <<settled, sessionLocked>>
      BY <2>1, <2>4 DEF Cover, Over
    <3>2. CASE drv # None /\ settled /\ ~covered
      <4>1. wire' = wire \o <<>> \o <<Msg("surface", drv)>>
        BY <1>4, <2>1, <2>4, <3>2 DEF Cover
      <4>2. wire' = Append(wire, Msg("surface", drv))
        BY <1>2, <4>1
      <4> QED
        BY <1>1, <1>2, <3>1, <3>2, <4>2 DEF GoesOn
    <3>3. CASE ~(drv # None /\ settled /\ ~covered)
      <4>1. wire' = wire \o <<>> \o <<>>
        BY <1>4, <2>1, <2>4, <3>3 DEF Cover
      <4>2. wire' = wire
        BY <1>2, <4>1
      <4> QED
        BY <1>1, <3>1, <4>2 DEF GoesOn
    <3> QED
      BY <3>2, <3>3
  <2> QED
    BY <1>2, <2>3, <2>4
<1> QED
  BY <1>1, <1>3, <1>4

(* A new lock is nobody's until now.                                       *)
LEMMA StartsNext ==
  ASSUME IInv, Turned, StartsOne
  PROVE  Orderly'
<1>1. /\ wire \in Seq(Requests) /\ events \in Seq(Answers) /\ pending \in Handles
      /\ pending = used /\ pending # None /\ drv = None
  BY DEF IInv, LockTypeOK, Orderly, Known, StartsOne
<1> PICK p \in Handles : p = pending
  BY <1>1
<1> PICK n \in Nat : n = Len(wire)
  BY <1>1
<1> None \notin Handles
  BY DEF None, Handles
<1>2. /\ pending' = None
      /\ UNCHANGED <<used, holder, clocked, told, refusals, broken, events>>
      /\ \A h \in Handles : hfinished[h] => hfinished'[h]
  BY DEF Turned, compositorVars
<1>3. /\ \A i \in DOMAIN wire : wire[i].h # p
      /\ \A i \in DOMAIN events : events[i].h # p
      /\ holder # p /\ p \notin told \cup refusals
  BY <1>1 DEF IInv, Orderly, Known, Old
<1>4. /\ n \in Nat /\ n + 1 \in DOMAIN wire' /\ n + 2 \in DOMAIN wire'
      /\ wire'[n + 1] = Msg("lock", p) /\ wire'[n + 2] = Msg("sync", p)
      /\ \A i \in DOMAIN wire : i \in DOMAIN wire' /\ wire'[i] = wire[i] /\ i \in Nat /\ i < n + 1
      /\ \/ /\ drv' = p /\ UNCHANGED <<settled, sessionLocked>>
            /\ \A i \in DOMAIN wire' : i \in DOMAIN wire \/ i = n + 1 \/ i = n + 2
         \/ /\ drv' = None /\ settled' = FALSE /\ sessionLocked' = FALSE
            /\ n + 3 \in DOMAIN wire' /\ wire'[n + 3] \in Releasing(p)
            /\ \A i \in DOMAIN wire' : i \in DOMAIN wire \/ i = n + 1 \/ i = n + 2 \/ i = n + 3
  <2> DEFINE a == Msg("lock", p)
             b == Msg("sync", p)
             v == Append(wire, a)
             w == Append(v, b)
  <2>1. a \in Requests /\ b \in Requests
    BY Messages
  <2>2. StartsOne => wire \o <<a, b>> = w
    BY <1>1, <2>1, TwoMore
  <2> HIDE DEF a, b
  <2>3. /\ v \in Seq(Requests) /\ Len(v) = n + 1
        /\ \A i \in DOMAIN wire : i \in DOMAIN v /\ v[i] = wire[i] /\ i \in Nat /\ i < n + 1
        /\ n + 1 \in DOMAIN v /\ v[n + 1] = a
        /\ \A i \in DOMAIN v : i \in DOMAIN wire \/ i = n + 1
    BY <1>1, <2>1, Appended
  <2> HIDE DEF v
  <2>4. /\ w \in Seq(Requests) /\ Len(w) = n + 2
        /\ \A i \in DOMAIN v : i \in DOMAIN w /\ w[i] = v[i]
        /\ n + 2 \in DOMAIN w /\ w[n + 2] = b
        /\ \A i \in DOMAIN w : i \in DOMAIN v \/ i = n + 2
    BY <2>1, <2>3, Appended
  <2> HIDE DEF w
  <2>5. CASE wire' = w /\ drv' = p /\ UNCHANGED <<settled, sessionLocked>>
    BY <2>3, <2>4, <2>5 DEF a, b
  <2>6. ASSUME NEW m \in Releasing(p), wire' = w \o <<m>>,
               drv' = None, settled' = FALSE, sessionLocked' = FALSE
        PROVE  <1>4
    <3>1. m \in Requests
      BY <2>6, Messages DEF Releasing
    <3>2. wire' = Append(w, m)
      BY <2>4, <2>6, <3>1, AppendIsConcat
    <3>3. /\ \A i \in DOMAIN w : i \in DOMAIN wire' /\ wire'[i] = w[i]
          /\ n + 3 \in DOMAIN wire' /\ wire'[n + 3] = m
          /\ \A i \in DOMAIN wire' : i \in DOMAIN w \/ i = n + 3
      BY <2>4, <3>1, <3>2, Appended
    <3> QED
      BY <2>3, <2>4, <2>6, <3>3 DEF a, b
  <2> QED
    BY <2>2, <2>5, <2>6 DEF StartsOne, a, b
<1>5. /\ \A h : Old(h) => Old(h)'
      /\ Old(p)'
  <2>1. used' = used /\ pending' = 0 /\ used \in Nat /\ p \in 1 .. used
    BY <1>1, <1>2 DEF Handles, None
  <2>2. \A h \in 1 .. used : h # 0
    BY <2>1
  <2> QED
    BY <2>1, <2>2 DEF Old
<1> HIDE DEF StartsOne, Turned
<1>6. /\ \A i \in DOMAIN wire, k \in {"lock", "sync", "surface", "unlock", "destroy"} :
           wire[i] # Msg(k, p)
      /\ \A i \in DOMAIN events, k \in {"locked", "finished", "done"} : events[i] # Msg(k, p)
  BY <1>3, Messages
<1>7. \A i \in DOMAIN wire' :
        \/ i \in DOMAIN wire /\ wire'[i] = wire[i] /\ i \in Nat /\ i < n + 1
        \/ i = n + 1 /\ wire'[i] = Msg("lock", p)
        \/ i = n + 2 /\ wire'[i] = Msg("sync", p)
        \/ i = n + 3 /\ drv' = None /\ wire'[i] \in Releasing(p)
  BY <1>4
<1>8. Known'
  <2>1. (\A i \in DOMAIN wire : Old(wire[i].h))'
    <3>1. ASSUME NEW i \in DOMAIN wire'
          PROVE  \/ i \in DOMAIN wire /\ wire'[i] = wire[i]
                 \/ wire'[i].h = p
      BY <1>7, Messages DEF Releasing
    <3>2. \A i \in DOMAIN wire' : wire'[i].h \in 1 .. used' /\ wire'[i].h # pending'
      BY <1>5, <3>1 DEF IInv, Orderly, Known, Old
    <3> QED
      BY <3>2 DEF Old
  <2>2. (drv # None => Old(drv))'
    BY <1>4, <1>5 DEF Old
  <2>3. (\A i \in DOMAIN events : Old(events[i].h))'
    BY <1>2, <1>5 DEF IInv, Orderly, Known, Old
  <2>4. (holder \in Handles => Old(holder))' /\ (\A h \in told \cup refusals : Old(h))'
    BY <1>2, <1>5 DEF IInv, Orderly, Known, Old
  <2> QED
    BY <1>2, <2>1, <2>2, <2>3, <2>4 DEF Known
<1>9. LockBeforeSync'
  <2> SUFFICES ASSUME NEW i \in DOMAIN wire', NEW j \in DOMAIN wire', NEW h \in Handles,
                      wire'[i] = Msg("lock", h), wire'[j] = Msg("sync", h)
               PROVE  i < j
    BY DEF LockBeforeSync
  <2>1. CASE i \in DOMAIN wire /\ wire'[i] = wire[i] /\ i \in Nat /\ i < n + 1
    <3>1. (j \in DOMAIN wire /\ wire'[j] = wire[j]) \/ j = n + 2
      BY <1>7, <2>1, Messages DEF Releasing
    <3> QED
      BY <2>1, <3>1 DEF IInv, Orderly, LockBeforeSync
  <2>2. CASE i = n + 1 /\ h = p
    BY <1>6, <1>7, <2>2, Messages DEF Releasing
  <2> QED
    BY <1>7, <2>1, <2>2, Messages DEF Releasing
<1>10. Unanswered'
  <2> SUFFICES ASSUME NEW i \in DOMAIN wire', NEW j \in DOMAIN events, NEW h \in Handles,
                      wire'[i] = Msg("lock", h)
               PROVE  events[j] # Msg("done", h)
    BY <1>2 DEF Unanswered
  <2>1. CASE i \in DOMAIN wire /\ wire'[i] = wire[i]
    BY <2>1 DEF IInv, Orderly, Unanswered
  <2>2. CASE h = p
    BY <1>6, <2>2
  <2> QED
    BY <1>7, <2>1, <2>2, Messages DEF Releasing
<1>11. LateSurface'
  <2> SUFFICES ASSUME NEW i \in DOMAIN wire', NEW j \in DOMAIN wire', NEW h \in Handles,
                      wire'[i] = Msg("lock", h), wire'[j] = Msg("surface", h)
               PROVE  FALSE
    BY DEF LateSurface
  <2>1. j \in DOMAIN wire /\ wire'[j] = wire[j]
    BY <1>7, Messages DEF Releasing
  <2>2. h # p
    BY <1>6, <2>1
  <2>3. i \in DOMAIN wire /\ wire'[i] = wire[i]
    BY <1>7, <2>2, Messages DEF Releasing
  <2> QED
    BY <2>1, <2>3 DEF IInv, Orderly, LateSurface
<1>12. SettledLate'
  BY <1>1, <1>4 DEF IInv, Orderly, SettledLate
<1>13. RefusalTold' /\ RefusalFirst' /\ RefusalSettled'
  <2>1. drv' \notin refusals'
    BY <1>2, <1>3, <1>4 DEF IInv, LockTypeOK, Handles, None
  <2> QED
    BY <2>1 DEF RefusalTold, RefusalFirst, RefusalSettled
<1>14. RefusedUncovered'
  BY <1>2, <1>4, Messages DEF IInv, Orderly, RefusedUncovered, InFlight, Releasing
<1>15. \A j \in DOMAIN wire, h \in Handles : Releases(j, h) =>
         j \in DOMAIN wire' /\ Releases(j, h)' /\ j \in Nat /\ j < n + 1
  BY <1>4 DEF Releases
<1>16. OthersReleased'
  <2>1. (holder \in Handles /\ holder # drv => \E j \in DOMAIN wire : Releases(j, holder))'
    BY <1>1, <1>2, <1>15 DEF IInv, Orderly, OthersReleased
  <2>2. ASSUME NEW i \in DOMAIN wire', NEW h \in Handles, wire'[i] = Msg("lock", h), h # drv'
        PROVE  \E j \in DOMAIN wire' : j > i /\ Releases(j, h)'
    <3>1. CASE i \in DOMAIN wire /\ wire'[i] = wire[i]
      BY <1>1, <1>15, <2>2, <3>1 DEF IInv, Orderly, OthersReleased
    <3>2. CASE i = n + 1 /\ h = p
      <4>1. n + 3 \in DOMAIN wire' /\ wire'[n + 3] \in Releasing(p) /\ n + 3 > i
        BY <1>4, <2>2, <3>2
      <4> QED
        BY <3>2, <4>1 DEF Releases, Releasing
    <3> QED
      BY <1>7, <2>2, <3>1, <3>2, Messages DEF Releasing
  <2> QED
    BY <2>1, <2>2 DEF OthersReleased
<1>17. Succession'
  <2>1. ASSUME NEW i \in DOMAIN wire', NEW h \in Handles, wire'[i] = Msg("lock", h), holder \in Handles
        PROVE  \E j \in DOMAIN wire' : j < i /\ Releases(j, holder)'
    <3>1. CASE i \in DOMAIN wire /\ wire'[i] = wire[i]
      BY <1>2, <1>15, <2>1, <3>1 DEF IInv, Orderly, Succession
    <3>2. CASE i = n + 1
      BY <1>1, <1>2, <1>15, <2>1, <3>2 DEF IInv, Orderly, OthersReleased
    <3> QED
      BY <1>7, <2>1, <3>1, <3>2, Messages DEF Releasing
  <2>2. ASSUME NEW i \in DOMAIN wire', NEW k \in DOMAIN wire', NEW g \in Handles, NEW h \in Handles,
               wire'[i] = Msg("lock", g), wire'[k] = Msg("lock", h), i < k
        PROVE  \E j \in DOMAIN wire' : i < j /\ j < k /\ Releases(j, g)'
    <3>1. i \in DOMAIN wire /\ wire'[i] = wire[i]
      BY <1>4, <1>7, <2>2, Messages DEF Releasing
    <3>2. CASE k \in DOMAIN wire /\ wire'[k] = wire[k]
      BY <1>15, <2>2, <3>1, <3>2 DEF IInv, Orderly, Succession
    <3>3. CASE k = n + 1
      BY <1>1, <1>15, <2>2, <3>1, <3>3 DEF IInv, Orderly, OthersReleased
    <3> QED
      BY <1>7, <2>2, <3>2, <3>3, Messages DEF Releasing
  <2> QED
    BY <1>2, <2>1, <2>2 DEF Succession
<1>18. NotReleased'
  <2>1. CASE drv' = p
    BY <1>4, <1>6, <1>7, <2>1, Messages DEF NotReleased, Releases, Releasing
  <2>2. CASE drv' = None
    BY <1>8, <2>2, Messages DEF NotReleased, Releases, Known, Old, None
  <2> QED
    BY <1>4, <2>1, <2>2
<1>19. FlagTrue'
  BY <1>1, <1>2, <1>4, <1>6 DEF IInv, Orderly, FlagTrue, InFlight
<1> QED
  BY <1>8, <1>9, <1>10, <1>11, <1>12, <1>13, <1>14, <1>16, <1>17, <1>18, <1>19 DEF Orderly

(* The lock that is up goes.                                               *)
LEMMA EndsNext ==
  ASSUME IInv, Turned, EndsIt
  PROVE  Orderly'
<1> PICK m \in Releasing(drv) : wire' = Append(wire, m)
  BY DEF EndsIt
<1> PICK n \in Nat : n = Len(wire)
  BY DEF IInv, LockTypeOK
<1> PICK d \in Handles : d = drv
  BY DEF IInv, LockTypeOK, EndsIt
<1> None \notin Handles
  BY DEF None, Handles
<1>1. /\ drv' = None /\ settled' = FALSE /\ sessionLocked' = FALSE /\ pending' = None
      /\ UNCHANGED <<used, holder, clocked, told, refusals, broken, events>>
      /\ drv # None /\ wire \in Seq(Requests) /\ m \in Requests /\ refusals \subseteq Handles
  BY Messages DEF EndsIt, Turned, compositorVars, Releasing, IInv, LockTypeOK
<1>2. /\ \A i \in DOMAIN wire : i \in DOMAIN wire' /\ wire'[i] = wire[i] /\ i \in Nat /\ i < n + 1
      /\ n + 1 \in DOMAIN wire' /\ wire'[n + 1] = m
  BY <1>1, Appended
<1>3. \A i \in DOMAIN wire' : (i \in DOMAIN wire /\ wire'[i] = wire[i])
                              \/ (i = n + 1 /\ wire'[i] \in Releasing(d))
  BY <1>1, <1>2, Appended
<1>4. \A h : Old(h) => Old(h)'
  <2>1. used' = used /\ pending' = 0 /\ used \in Nat
    BY <1>1 DEF None, IInv, LockTypeOK
  <2>2. \A h \in 1 .. used : h # 0
    BY <2>1
  <2> QED
    BY <2>1, <2>2 DEF Old
<1>5. Known'
  <2>1. (\A i \in DOMAIN wire : Old(wire[i].h))'
    <3>1. \A i \in DOMAIN wire' : Old(wire'[i].h)
      BY <1>1, <1>3, Messages DEF Releasing, IInv, Orderly, Known
    <3>2. \A i \in DOMAIN wire' : wire'[i].h \in 1 .. used' /\ wire'[i].h # pending'
      BY <1>4, <3>1 DEF Old
    <3> QED
      BY <3>2 DEF Old
  <2>2. (\A i \in DOMAIN events : Old(events[i].h))'
    BY <1>1, <1>4 DEF IInv, Orderly, Known, Old
  <2>3. (holder \in Handles => Old(holder))' /\ (\A h \in told \cup refusals : Old(h))'
    BY <1>1, <1>4 DEF IInv, Orderly, Known, Old
  <2> QED
    BY <1>1, <2>1, <2>2, <2>3 DEF Known
<1>6. \A i \in DOMAIN wire', k \in {"lock", "sync", "surface"}, h \in Handles :
        wire'[i] = Msg(k, h) => i \in DOMAIN wire /\ wire[i] = Msg(k, h)
  BY <1>3, Messages DEF Releasing
<1>7. LockBeforeSync' /\ Unanswered' /\ LateSurface' /\ RefusedUncovered'
  <2>1. LockBeforeSync'
    BY <1>6 DEF IInv, Orderly, LockBeforeSync
  <2>2. Unanswered'
    BY <1>1, <1>6 DEF IInv, Orderly, Unanswered
  <2>3. LateSurface'
    BY <1>6 DEF IInv, Orderly, LateSurface
  <2>4. RefusedUncovered'
    BY <1>1, <1>6 DEF IInv, Orderly, RefusedUncovered, InFlight
  <2> QED
    BY <2>1, <2>2, <2>3, <2>4
<1>8. SettledLate' /\ RefusalTold' /\ RefusalFirst' /\ RefusalSettled' /\ FlagTrue'
  BY <1>1 DEF SettledLate, RefusalTold, RefusalFirst, RefusalSettled, FlagTrue
<1>9. \A j \in DOMAIN wire, h \in Handles : Releases(j, h) => Releases(j, h)'
  BY <1>2 DEF Releases
<1>10. Releases(n + 1, d)'
  BY <1>2 DEF Releases, Releasing
<1>11. OthersReleased'
  <2>1. (holder \in Handles /\ holder # drv => \E j \in DOMAIN wire : Releases(j, holder))'
    BY <1>1, <1>2, <1>9, <1>10 DEF IInv, Orderly, OthersReleased
  <2>2. ASSUME NEW i \in DOMAIN wire', NEW h \in Handles, wire'[i] = Msg("lock", h)
        PROVE  \E j \in DOMAIN wire' : j > i /\ Releases(j, h)'
    <3>1. i \in DOMAIN wire /\ wire[i] = Msg("lock", h)
      BY <1>6, <2>2
    <3>2. CASE h = d
      <4>1. n + 1 > i
        BY <1>2, <3>1
      <4> QED
        BY <1>2, <1>10, <3>2, <4>1
    <3>3. CASE h # d
      BY <1>2, <1>9, <3>1, <3>3 DEF IInv, Orderly, OthersReleased
    <3> QED
      BY <3>2, <3>3
  <2> QED
    BY <2>1, <2>2 DEF OthersReleased
<1>12. Succession'
  <2>1. ASSUME NEW i \in DOMAIN wire', NEW h \in Handles, wire'[i] = Msg("lock", h), holder \in Handles
        PROVE  \E j \in DOMAIN wire' : j < i /\ Releases(j, holder)'
    BY <1>1, <1>2, <1>6, <1>9, <2>1 DEF IInv, Orderly, Succession
  <2>2. ASSUME NEW i \in DOMAIN wire', NEW k \in DOMAIN wire', NEW g \in Handles, NEW h \in Handles,
               wire'[i] = Msg("lock", g), wire'[k] = Msg("lock", h), i < k
        PROVE  \E j \in DOMAIN wire' : i < j /\ j < k /\ Releases(j, g)'
    BY <1>2, <1>6, <1>9, <2>2 DEF IInv, Orderly, Succession
  <2> QED
    BY <1>1, <2>1, <2>2 DEF Succession
<1>13. NotReleased'
  BY <1>1, <1>5, Messages DEF NotReleased, Releases, Known, Old, None
<1> QED
  BY <1>5, <1>7, <1>8, <1>11, <1>12, <1>13 DEF Orderly

(* The lock that is up stays, and may be given its surfaces; or none is,   *)
(* and none can be asked for.                                              *)
LEMMA GoesOnNext ==
  ASSUME IInv, Turned, GoesOn
  PROVE  Orderly'
<1> PICK n \in Nat : n = Len(wire)
  BY DEF IInv, LockTypeOK
<1> PICK d \in Handles \cup {None} : d = drv
  BY DEF IInv, LockTypeOK, GoesOn
<1>1. /\ UNCHANGED <<drv, settled, sessionLocked>> /\ pending' = None
      /\ UNCHANGED <<used, holder, clocked, told, refusals, broken, events>>
      /\ \A h \in Handles : hfinished[h] => hfinished'[h]
      /\ wire \in Seq(Requests) /\ refusals \subseteq Handles
  BY DEF GoesOn, Turned, compositorVars, IInv, LockTypeOK
<1>2. \A i \in DOMAIN wire : i \in DOMAIN wire' /\ wire'[i] = wire[i] /\ i \in Nat /\ i < n + 1
  BY <1>1, Appended, Messages DEF GoesOn
<1>3. \A i \in DOMAIN wire' :
        \/ i \in DOMAIN wire /\ wire'[i] = wire[i]
        \/ /\ i = n + 1 /\ wire'[i] = Msg("surface", d)
           /\ d # None /\ settled /\ ~hfinished'[d]
  <2>1. CASE wire' = wire
    BY <2>1
  <2>2. CASE wire' = Append(wire, Msg("surface", d)) /\ d # None /\ settled /\ ~hfinished'[d]
    BY <1>1, <2>2, Appended, Messages
  <2> QED
    BY <2>1, <2>2 DEF GoesOn
<1>4. \A h : Old(h) => Old(h)'
  <2>1. used' = used /\ pending' = 0 /\ used \in Nat
    BY <1>1 DEF None, IInv, LockTypeOK
  <2>2. \A h \in 1 .. used : h # 0
    BY <2>1
  <2> QED
    BY <2>1, <2>2 DEF Old
<1>5. Known'
  <2>1. (\A i \in DOMAIN wire : Old(wire[i].h))'
    <3>1. \A i \in DOMAIN wire' : Old(wire'[i].h)
      BY <1>1, <1>3, Messages DEF IInv, Orderly, Known
    <3>2. \A i \in DOMAIN wire' : wire'[i].h \in 1 .. used' /\ wire'[i].h # pending'
      BY <1>4, <3>1 DEF Old
    <3> QED
      BY <3>2 DEF Old
  <2>2. (\A i \in DOMAIN events : Old(events[i].h))' /\ (drv # None => Old(drv))'
    BY <1>1, <1>4 DEF IInv, Orderly, Known, Old
  <2>3. (holder \in Handles => Old(holder))' /\ (\A h \in told \cup refusals : Old(h))'
    BY <1>1, <1>4 DEF IInv, Orderly, Known, Old
  <2> QED
    BY <1>1, <2>1, <2>2, <2>3 DEF Known
<1>6. \A i \in DOMAIN wire', k \in {"lock", "sync", "unlock", "destroy"}, h \in Handles :
        wire'[i] = Msg(k, h) => i \in DOMAIN wire /\ wire[i] = Msg(k, h)
  BY <1>3, Messages
<1>7. \A i \in DOMAIN wire', h \in Handles : wire'[i] = Msg("surface", h) =>
        \/ i \in DOMAIN wire /\ wire[i] = Msg("surface", h)
        \/ h = d /\ settled /\ ~hfinished'[d]
  BY <1>3, Messages
<1>8. LockBeforeSync' /\ Unanswered' /\ SettledLate'
  <2>1. LockBeforeSync'
    BY <1>6 DEF IInv, Orderly, LockBeforeSync
  <2>2. Unanswered'
    BY <1>1, <1>6 DEF IInv, Orderly, Unanswered
  <2>3. SettledLate'
    BY <1>1, <1>6 DEF IInv, Orderly, SettledLate, InFlight
  <2> QED
    BY <2>1, <2>2, <2>3
<1>9. LateSurface'
  BY <1>1, <1>6, <1>7 DEF IInv, Orderly, LateSurface, SettledLate, InFlight
<1>10. RefusalTold' /\ RefusalFirst' /\ RefusalSettled'
  BY <1>1 DEF IInv, Orderly, RefusalTold, RefusalFirst, RefusalSettled, InFlight
<1>11. RefusedUncovered'
  BY <1>1, <1>7 DEF IInv, Orderly, RefusedUncovered, RefusalSettled, InFlight
<1>12. \A j \in DOMAIN wire, h \in Handles : Releases(j, h) => Releases(j, h)'
  BY <1>2 DEF Releases
<1>13. OthersReleased'
  BY <1>1, <1>2, <1>6, <1>12 DEF IInv, Orderly, OthersReleased
<1>14. Succession'
  <2>1. ASSUME NEW i \in DOMAIN wire', NEW h \in Handles, wire'[i] = Msg("lock", h), holder \in Handles
        PROVE  \E j \in DOMAIN wire' : j < i /\ Releases(j, holder)'
    BY <1>1, <1>2, <1>6, <1>12, <2>1 DEF IInv, Orderly, Succession
  <2>2. ASSUME NEW i \in DOMAIN wire', NEW k \in DOMAIN wire', NEW g \in Handles, NEW h \in Handles,
               wire'[i] = Msg("lock", g), wire'[k] = Msg("lock", h), i < k
        PROVE  \E j \in DOMAIN wire' : i < j /\ j < k /\ Releases(j, g)'
    BY <1>2, <1>6, <1>12, <2>2 DEF IInv, Orderly, Succession
  <2> QED
    BY <1>1, <2>1, <2>2 DEF Succession
<1>15. NotReleased'
  <2>1. CASE drv = None
    BY <1>1, <2>1 DEF GoesOn, IInv, Orderly, NotReleased, Releases
  <2>2. CASE drv # None
    <3>1. d \in Handles
      BY <2>2
    <3> QED
      BY <1>1, <1>6, <3>1 DEF IInv, Orderly, NotReleased, Releases
  <2> QED
    BY <2>1, <2>2
<1>16. FlagTrue'
  BY <1>1 DEF IInv, Orderly, FlagTrue, InForce, InFlight
<1> QED
  BY <1>5, <1>8, <1>9, <1>10, <1>11, <1>13, <1>14, <1>15, <1>16 DEF Orderly

-----------------------------------------------------------------------------
(* The driver reads the oldest answer.                                     *)
LEMMA ReadNext ==
  ASSUME IInv, Read
  PROVE  Orderly'
<1> PICK e \in Answers : e = Head(events)
  BY Shorter DEF Read, IInv, LockTypeOK
<1>1. /\ events' = Tail(events)
      /\ UNCHANGED <<used, pending, drv, wire, holder, clocked, told, refusals, broken>>
      /\ hfinished' = [hfinished EXCEPT ![e.h] = @ \/ (e.kind = "finished" /\ drv = e.h)]
      /\ sessionLocked' = (sessionLocked \/ (e.kind = "locked" /\ drv = e.h))
      /\ settled' = IF e.kind = "done" /\ drv # None THEN settled \/ drv = e.h ELSE settled
      /\ hfinished \in [Handles -> BOOLEAN] /\ refusals \subseteq Handles
      /\ drv \in Handles \cup {None} /\ settled \in BOOLEAN /\ sessionLocked \in BOOLEAN
  BY DEF Read, SettledBy, compositorVars, IInv, LockTypeOK
<1>2. e = Msg(e.kind, e.h) /\ e.h \in Handles
  BY Messages
<1>3. /\ 1 \in DOMAIN events /\ events[1] = e
      /\ \A i \in DOMAIN events' : i \in Nat /\ i + 1 \in DOMAIN events /\ events'[i] = events[i + 1]
      /\ \A i \in DOMAIN events : i \in Nat /\ i >= 1
                                  /\ (i # 1 => i - 1 \in DOMAIN events' /\ events'[i - 1] = events[i])
  BY <1>1, Shorter DEF Read, IInv, LockTypeOK
<1>4. \A h : Old(h) <=> Old(h)'
  BY <1>1 DEF Old
<1>5. /\ drv # None /\ hfinished[drv] => hfinished'[drv]
      /\ drv # None /\ e = Msg("finished", drv) => hfinished'[drv]
  <2>1. CASE drv # None
    <3>1. drv \in Handles
      BY <1>1, <2>1
    <3>2. hfinished'[drv] = (hfinished[drv] \/ (e.kind = "finished" /\ drv = e.h))
          \/ (drv # e.h /\ hfinished'[drv] = hfinished[drv])
      BY <1>1, <3>1
    <3>3. e = Msg("finished", drv) => e.kind = "finished" /\ e.h = drv
      BY Messages
    <3> QED
      BY <3>2, <3>3
  <2> QED
    BY <2>1
<1>6. Known'
  <2>1. (\A i \in DOMAIN events : Old(events[i].h))'
    <3>1. \A i \in DOMAIN events' : Old(events'[i].h)
      BY <1>3 DEF IInv, Orderly, Known
    <3> QED
      BY <1>1, <3>1 DEF Old
  <2>2. (\A i \in DOMAIN wire : Old(wire[i].h))' /\ (drv # None => Old(drv))'
    BY <1>1 DEF IInv, Orderly, Known, Old
  <2>3. (holder \in Handles => Old(holder))' /\ (\A h \in told \cup refusals : Old(h))'
    BY <1>1 DEF IInv, Orderly, Known, Old
  <2> QED
    BY <1>1, <2>1, <2>2, <2>3 DEF IInv, Orderly, Known
<1>7. LockBeforeSync' /\ Unanswered' /\ LateSurface' /\ RefusedUncovered'
  BY <1>1, <1>3 DEF IInv, Orderly, LockBeforeSync, Unanswered, LateSurface, RefusedUncovered, InFlight
<1>8. OthersReleased' /\ Succession' /\ NotReleased'
  BY <1>1 DEF IInv, Orderly, OthersReleased, Succession, NotReleased, Releases
<1>9. settled' => settled \/ (drv # None /\ e = Msg("done", drv))
  BY <1>1, <1>2
<1>10. SettledLate'
  <2>1. CASE drv # None /\ e = Msg("done", drv)
    BY <1>1, <1>3, <2>1 DEF IInv, Orderly, Unanswered, SettledLate, InFlight
  <2>2. CASE settled
    BY <1>1, <2>2 DEF IInv, Orderly, SettledLate, InFlight
  <2> QED
    BY <1>9, <2>1, <2>2 DEF SettledLate
<1>11. RefusalSettled'
  <2>1. CASE drv # None /\ e = Msg("done", drv) /\ drv \in refusals
    BY <1>1, <1>3, <1>5, <2>1 DEF IInv, Orderly, RefusalFirst, RefusalSettled
  <2>2. CASE settled /\ drv \in refusals
    BY <1>1, <1>5, <2>2 DEF IInv, Orderly, RefusalSettled, SettledLate
  <2> QED
    BY <1>1, <1>9, <2>1, <2>2 DEF RefusalSettled
<1>12. RefusalTold' /\ RefusalFirst'
  <2> SUFFICES ASSUME drv \in refusals, ~hfinished'[drv]
               PROVE  RefusalTold' /\ RefusalFirst'
    BY <1>1 DEF RefusalTold, RefusalFirst
  <2>1. drv # None /\ ~hfinished[drv] /\ events[1] # Msg("finished", drv)
    BY <1>1, <1>3, <1>5 DEF None, Handles
  <2>2. RefusalTold'
    BY <1>1, <1>3, <2>1 DEF IInv, Orderly, RefusalTold, InFlight
  <2>3. ASSUME NEW i \in DOMAIN events', events'[i] = Msg("done", drv)
        PROVE  \E j \in DOMAIN events' : j < i /\ events'[j] = Msg("finished", drv)
    <3>1. PICK j \in DOMAIN events : j < i + 1 /\ events[j] = Msg("finished", drv)
      BY <1>3, <2>1, <2>3 DEF IInv, Orderly, RefusalFirst
    <3>2. j # 1 /\ j \in Nat /\ i \in Nat /\ j - 1 < i
      BY <1>3, <2>1, <3>1
    <3> QED
      BY <1>3, <3>1, <3>2
  <2> QED
    BY <1>1, <2>2, <2>3 DEF RefusalFirst
<1>13. FlagTrue'
  <2>1. drv # None /\ (sessionLocked' \/ InFlight(events', Msg("locked", drv)))
          => sessionLocked \/ InFlight(events, Msg("locked", drv))
    BY <1>1, <1>2, <1>3 DEF InFlight
  <2>2. drv # None /\ InFlight(events, Msg("finished", drv))
          => InFlight(events', Msg("finished", drv)) \/ hfinished'[drv]
    <3>1. ASSUME drv # None, NEW i \in DOMAIN events, events[i] = Msg("finished", drv)
          PROVE  InFlight(events', Msg("finished", drv)) \/ hfinished'[drv]
      <4>1. CASE i = 1
        BY <1>3, <1>5, <3>1, <4>1
      <4>2. CASE i # 1
        BY <1>3, <3>1, <4>2 DEF InFlight
      <4> QED
        BY <4>1, <4>2
    <3> QED
      BY <3>1 DEF InFlight
  <2>3. e.kind = "locked" /\ drv = e.h => drv # None
    BY <1>2 DEF None, Handles
  <2>4. sessionLocked' => drv # None
    <3>1. sessionLocked' => sessionLocked \/ (e.kind = "locked" /\ drv = e.h)
      BY <1>1
    <3>2. sessionLocked => drv # None
      BY DEF IInv, Orderly, FlagTrue
    <3> QED
      BY <2>3, <3>1, <3>2, Zenon
  <2>5. drv # None /\ InForce => InForce'
    BY <1>1, <1>5, <2>2 DEF InForce
  <2>6. drv # None /\ (sessionLocked' \/ InFlight(events', Msg("locked", drv))) => InForce
    BY <2>1 DEF IInv, Orderly, FlagTrue
  <2> QED
    BY <1>1, <2>4, <2>5, <2>6 DEF FlagTrue
<1> QED
  BY <1>6, <1>7, <1>8, <1>10, <1>11, <1>12, <1>13 DEF Orderly

-----------------------------------------------------------------------------
(* What the compositor may do with the oldest request.                     *)
Accepted(h) ==
  /\ holder \notin Handles /\ holder' = h
  /\ UNCHANGED <<clocked, told, refusals, broken, events>>

Refused(h) ==
  /\ events' = Append(events, Msg("finished", h))
  /\ refusals' = refusals \cup {h}
  /\ UNCHANGED <<holder, clocked, told, broken>>

Synced(h) == events' = Append(events, Msg("done", h)) /\ UNCHANGED compositorVars

Released(h) ==
  /\ IF holder = h THEN holder' \notin Handles ELSE UNCHANGED <<holder, clocked>>
  /\ UNCHANGED <<told, refusals, events>>

LEMMA ServeSplits ==
  ASSUME LockTypeOK, Serve
  PROVE  \E m \in Requests :
           /\ m = Head(wire) /\ wire # <<>> /\ wire' = Tail(wire) /\ ~broken
           /\ UNCHANGED <<driverVars, handleVars>>
           /\ \/ m.kind = "lock" /\ Accepted(m.h)
              \/ m.kind = "lock" /\ Refused(m.h)
              \/ m.kind = "sync" /\ Synced(m.h)
              \/ m.kind = "surface" /\ UNCHANGED <<compositorVars, events>>
              \/ m.kind \in {"unlock", "destroy"} /\ Released(m.h)
<1> PICK m \in Requests : m = Head(wire)
  BY Shorter DEF LockTypeOK, Serve
<1>1. /\ wire # <<>> /\ wire' = Tail(wire) /\ ~broken /\ Served(m)
      /\ UNCHANGED <<driverVars, handleVars>>
  BY DEF Serve
<1>2. None \notin Handles /\ Dead \notin Handles /\ m.h \in Handles
      /\ m.kind \in {"lock", "sync", "surface", "unlock", "destroy"}
  BY Messages DEF None, Dead, Handles
<1>3. CASE m.kind = "lock"
  BY <1>1, <1>2, <1>3 DEF Served, Accept, Refuse, Accepted, Refused
<1>4. CASE m.kind = "sync"
  BY <1>1, <1>4 DEF Served, Synced
<1>5. CASE m.kind = "surface"
  BY <1>1, <1>5 DEF Served
<1>6. CASE m.kind \in {"unlock", "destroy"}
  BY <1>1, <1>2, <1>6 DEF Served, Released, Orphaned
<1> QED
  BY <1>1, <1>2, <1>3, <1>4, <1>5, <1>6

(* One more answer on its way says nothing new, except of the lock it is   *)
(* about.                                                                  *)
OneMore(k, h) == events' = Append(events, Msg(k, h))

LEMMA MoreAnswers ==
  ASSUME IInv, NEW h \in Handles, NEW k \in {"locked", "finished", "done"}, OneMore(k, h)
  PROVE  \E n \in Nat :
           /\ \A i \in DOMAIN events : i \in DOMAIN events' /\ events'[i] = events[i]
                                       /\ i \in Nat /\ i < n + 1
           /\ n + 1 \in DOMAIN events' /\ events'[n + 1] = Msg(k, h)
           /\ \A i \in DOMAIN events' : \/ i \in DOMAIN events /\ events'[i] = events[i]
                                        \/ i = n + 1
<1>1. events \in Seq(Answers) /\ Msg(k, h) \in Answers
  BY Messages DEF IInv, LockTypeOK
<1> QED
  BY <1>1, Appended DEF OneMore

LEMMA ServeNext ==
  ASSUME IInv, Serve
  PROVE  Orderly'
<1> PICK m \in Requests :
      /\ m = Head(wire) /\ wire # <<>> /\ wire' = Tail(wire) /\ ~broken
      /\ UNCHANGED <<driverVars, handleVars>>
      /\ \/ m.kind = "lock" /\ Accepted(m.h)
         \/ m.kind = "lock" /\ Refused(m.h)
         \/ m.kind = "sync" /\ Synced(m.h)
         \/ m.kind = "surface" /\ UNCHANGED <<compositorVars, events>>
         \/ m.kind \in {"unlock", "destroy"} /\ Released(m.h)
  BY ServeSplits DEF IInv
<1>1. /\ UNCHANGED <<used, pending, drv, settled, sessionLocked, hfinished>>
      /\ refusals \subseteq Handles /\ told \subseteq Handles /\ drv \in Handles \cup {None}
      /\ None \notin Handles
  BY DEF driverVars, handleVars, IInv, LockTypeOK, None, Handles
<1>2. m = Msg(m.kind, m.h) /\ m.h \in Handles
  BY Messages
<1>3. /\ 1 \in DOMAIN wire /\ wire[1] = m
      /\ \A i \in DOMAIN wire' : i \in Nat /\ i + 1 \in DOMAIN wire /\ wire'[i] = wire[i + 1]
      /\ \A i \in DOMAIN wire : i \in Nat /\ i >= 1
                                /\ (i # 1 => i - 1 \in DOMAIN wire' /\ wire'[i - 1] = wire[i])
  BY Shorter DEF IInv, LockTypeOK
<1>4. \A h : Old(h) <=> Old(h)'
  BY <1>1 DEF Old
<1>5. Old(m.h)
  BY <1>3 DEF IInv, Orderly, Known
<1>6. \A i \in DOMAIN wire, h \in Handles : Releases(i, h) =>
        \/ i # 1 /\ i - 1 \in DOMAIN wire' /\ (Releases(i - 1, h))'
        \/ m.kind \in {"unlock", "destroy"} /\ m.h = h
  BY <1>2, <1>3, Messages DEF Releases
<1>7. LockBeforeSync' /\ LateSurface' /\ SettledLate' /\ NotReleased'
  <2>1. LockBeforeSync'
    <3>1. ASSUME NEW i \in DOMAIN wire', NEW j \in DOMAIN wire', NEW h \in Handles,
                 wire'[i] = Msg("lock", h), wire'[j] = Msg("sync", h)
          PROVE  i < j
      <4>1. i + 1 < j + 1 /\ i \in Nat /\ j \in Nat
        BY <1>3, <3>1 DEF IInv, Orderly, LockBeforeSync
      <4> QED
        BY <4>1
    <3> QED
      BY <3>1 DEF LockBeforeSync
  <2>2. LateSurface'
    BY <1>3 DEF IInv, Orderly, LateSurface
  <2>3. SettledLate'
    BY <1>1, <1>3 DEF IInv, Orderly, SettledLate, InFlight
  <2>4. NotReleased'
    BY <1>1, <1>3 DEF IInv, Orderly, NotReleased, Releases
  <2> QED
    BY <2>1, <2>2, <2>3, <2>4
<1>8. (\A i \in DOMAIN wire, h \in Handles :
         wire[i] = Msg("lock", h) /\ h # drv => \E j \in DOMAIN wire : j > i /\ Releases(j, h))'
  <2>1. ASSUME NEW i \in DOMAIN wire', NEW h \in Handles, wire'[i] = Msg("lock", h), h # drv
        PROVE  \E j \in DOMAIN wire' : j > i /\ (Releases(j, h))'
    <3>1. PICK j \in DOMAIN wire : j > i + 1 /\ Releases(j, h)
      BY <1>3, <2>1 DEF IInv, Orderly, OthersReleased
    <3>2. i \in Nat /\ j \in Nat /\ j # 1 /\ j - 1 > i
      BY <1>3, <3>1
    <3>3. j - 1 \in DOMAIN wire' /\ (Releases(j - 1, h))'
      BY <1>3, <3>1, <3>2 DEF Releases
    <3> QED
      BY <3>2, <3>3
  <2> QED
    BY <1>1, <2>1
<1>9. (\A i, k \in DOMAIN wire, g, h \in Handles :
         wire[i] = Msg("lock", g) /\ wire[k] = Msg("lock", h) /\ i < k =>
           \E j \in DOMAIN wire : i < j /\ j < k /\ Releases(j, g))'
  <2>1. ASSUME NEW i \in DOMAIN wire', NEW k \in DOMAIN wire', NEW g \in Handles, NEW h \in Handles,
               wire'[i] = Msg("lock", g), wire'[k] = Msg("lock", h), i < k
        PROVE  \E j \in DOMAIN wire' : i < j /\ j < k /\ (Releases(j, g))'
    <3>1. i \in Nat /\ k \in Nat /\ i + 1 < k + 1
      BY <1>3, <2>1
    <3>2. PICK j \in DOMAIN wire : i + 1 < j /\ j < k + 1 /\ Releases(j, g)
      BY <1>3, <2>1, <3>1 DEF IInv, Orderly, Succession
    <3>3. j \in Nat /\ j # 1 /\ i < j - 1 /\ j - 1 < k
      <4>1. j \in Nat
        BY <1>3
      <4> QED
        BY <3>1, <3>2, <4>1
    <3>4. j - 1 \in DOMAIN wire' /\ (Releases(j - 1, g))'
      BY <1>3, <3>2, <3>3 DEF Releases
    <3> QED
      BY <3>3, <3>4
  <2> QED
    BY <2>1
<1>10. (\A i \in DOMAIN wire : Old(wire[i].h))'
  <2>1. \A i \in DOMAIN wire' : Old(wire'[i].h)
    BY <1>3 DEF IInv, Orderly, Known
  <2> QED
    BY <1>1, <2>1 DEF Old
<1>11. ASSUME UNCHANGED events
       PROVE  /\ Unanswered'
              /\ (\A i \in DOMAIN events : Old(events[i].h))'
              /\ refusals' = refusals => RefusalTold' /\ RefusalFirst'
  <2>1. Unanswered'
    BY <1>3, <1>11 DEF IInv, Orderly, Unanswered
  <2>2. (\A i \in DOMAIN events : Old(events[i].h))'
    BY <1>4, <1>11 DEF IInv, Orderly, Known, Old
  <2>3. refusals' = refusals => RefusalTold' /\ RefusalFirst'
    BY <1>1, <1>11 DEF IInv, Orderly, RefusalTold, RefusalFirst, InFlight
  <2> QED
    BY <2>1, <2>2, <2>3
<1>12. ASSUME UNCHANGED refusals
       PROVE  RefusedUncovered' /\ RefusalSettled'
  BY <1>1, <1>3, <1>12 DEF IInv, Orderly, RefusedUncovered, RefusalSettled, InFlight
<1>13. ASSUME UNCHANGED holder, m.kind \notin {"unlock", "destroy"}
       PROVE  OthersReleased' /\ Succession'
  <2>1. (holder \in Handles /\ holder # drv => \E j \in DOMAIN wire : Releases(j, holder))'
    <3>1. holder \in Handles /\ holder # drv => \E j \in DOMAIN wire' : (Releases(j, holder))'
      BY <1>6, <1>13 DEF IInv, Orderly, OthersReleased
    <3> QED
      BY <1>1, <1>13, <3>1 DEF Releases
  <2>2. ASSUME NEW i \in DOMAIN wire', NEW h \in Handles, wire'[i] = Msg("lock", h), holder \in Handles
        PROVE  \E j \in DOMAIN wire' : j < i /\ (Releases(j, holder))'
    <3>1. PICK j \in DOMAIN wire : j < i + 1 /\ Releases(j, holder)
      BY <1>3, <2>2 DEF IInv, Orderly, Succession
    <3>2. j # 1 /\ j - 1 \in DOMAIN wire' /\ (Releases(j - 1, holder))'
      BY <1>6, <1>13, <2>2, <3>1 DEF Releases
    <3>3. i \in Nat /\ j \in Nat /\ j - 1 < i
      BY <1>3, <3>1
    <3> QED
      BY <3>2, <3>3
  <2> QED
    BY <1>8, <1>9, <1>13, <2>1, <2>2 DEF OthersReleased, Succession, Releases
<1>14. ASSUME UNCHANGED <<holder, clocked, broken>>,
              \/ UNCHANGED events
              \/ \E k \in {"finished", "done"} : OneMore(k, m.h)
       PROVE  FlagTrue'
  <2>1. /\ drv # None => (InFlight(events', Msg("locked", drv)) => InFlight(events, Msg("locked", drv)))
        /\ drv # None => (InFlight(events, Msg("finished", drv)) => InFlight(events', Msg("finished", drv)))
    <3>1. CASE UNCHANGED events
      BY <3>1 DEF InFlight
    <3>2. CASE \E k \in {"finished", "done"} : OneMore(k, m.h)
      BY <1>2, <3>2, MoreAnswers, Messages DEF InFlight
    <3> QED
      BY <1>14, <3>1, <3>2
  <2> QED
    BY <1>1, <1>14, <2>1 DEF IInv, Orderly, FlagTrue, InForce
<1>15. CASE m.kind = "lock" /\ Accepted(m.h)
  <2>1. /\ holder \notin Handles /\ holder' = m.h /\ wire[1] = Msg("lock", m.h)
        /\ UNCHANGED <<clocked, told, refusals, broken, events>>
    BY <1>2, <1>3, <1>15 DEF Accepted
  <2>2. Known'
    <3>1. (drv # None => Old(drv))' /\ (\A h \in told \cup refusals : Old(h))'
      BY <1>1, <1>4, <2>1 DEF IInv, Orderly, Known, Old
    <3>2. (holder \in Handles => Old(holder))'
      BY <1>1, <1>5, <2>1 DEF Old
    <3> QED
      BY <1>1, <1>10, <1>11, <2>1, <3>1, <3>2 DEF IInv, Orderly, Known
  <2>3. (holder \in Handles /\ holder # drv => \E j \in DOMAIN wire : Releases(j, holder))'
    <3>1. m.h # drv => \E j \in DOMAIN wire : j > 1 /\ Releases(j, m.h)
      BY <1>2, <1>3, <2>1 DEF IInv, Orderly, OthersReleased
    <3>2. m.h # drv => \E j \in DOMAIN wire' : (Releases(j, m.h))'
      BY <1>2, <1>6, <1>15, <3>1
    <3> QED
      BY <1>1, <2>1, <3>2 DEF Releases
  <2>4. (\A i \in DOMAIN wire, h \in Handles :
           wire[i] = Msg("lock", h) /\ holder \in Handles =>
             \E j \in DOMAIN wire : j < i /\ Releases(j, holder))'
    <3>1. ASSUME NEW i \in DOMAIN wire', NEW h \in Handles, wire'[i] = Msg("lock", h)
          PROVE  \E j \in DOMAIN wire' : j < i /\ (Releases(j, m.h))'
      <4>1. i \in Nat /\ i + 1 \in DOMAIN wire /\ wire[i + 1] = Msg("lock", h) /\ 1 < i + 1
        <5>1. i \in Nat /\ i + 1 \in DOMAIN wire /\ wire[i + 1] = Msg("lock", h)
          BY <1>3, <3>1
        <5>2. i # 0
          <6>1. i \in 1 .. Len(wire')
            BY <1>3, Shorter, <3>1 DEF IInv, LockTypeOK
          <6> QED
            BY <6>1
        <5> QED
          BY <5>1, <5>2
      <4>2. PICK j \in DOMAIN wire : 1 < j /\ j < i + 1 /\ Releases(j, m.h)
        BY <1>2, <1>3, <2>1, <4>1 DEF IInv, Orderly, Succession
      <4>3. j - 1 \in DOMAIN wire' /\ (Releases(j - 1, m.h))'
        BY <1>2, <1>6, <1>15, <4>2
      <4>4. j \in Nat /\ j - 1 < i
        BY <1>3, <4>1, <4>2
      <4> QED
        BY <4>3, <4>4
    <3> QED
      BY <2>1, <3>1 DEF Releases
  <2>5. FlagTrue'
    <3>1. drv # None => holder # drv
      BY <1>1, <2>1
    <3> QED
      BY <1>1, <2>1, <3>1 DEF IInv, Orderly, FlagTrue, InForce, InFlight
  <2> QED
    BY <1>7, <1>8, <1>9, <1>11, <1>12, <2>1, <2>2, <2>3, <2>4, <2>5
       DEF Orderly, OthersReleased, Succession
<1>16. CASE m.kind = "lock" /\ Refused(m.h)
  <2>1. /\ events' = Append(events, Msg("finished", m.h)) /\ refusals' = refusals \cup {m.h}
        /\ UNCHANGED <<holder, clocked, told, broken>> /\ wire[1] = Msg("lock", m.h)
    BY <1>2, <1>3, <1>16 DEF Refused
  <2>2. PICK n \in Nat :
          /\ \A i \in DOMAIN events : i \in DOMAIN events' /\ events'[i] = events[i]
                                      /\ i \in Nat /\ i < n + 1
          /\ n + 1 \in DOMAIN events' /\ events'[n + 1] = Msg("finished", m.h)
          /\ \A i \in DOMAIN events' : \/ i \in DOMAIN events /\ events'[i] = events[i]
                                       \/ i = n + 1
    BY <1>2, <2>1, MoreAnswers DEF OneMore
  <2>3. Known'
    <3>1. (drv # None => Old(drv))' /\ (holder \in Handles => Old(holder))'
      BY <1>1, <1>4, <2>1 DEF IInv, Orderly, Known, Old
    <3>2. (\A h \in told \cup refusals : Old(h))'
      <4>1. \A h \in told' \cup refusals' : Old(h)
        BY <1>5, <2>1 DEF IInv, Orderly, Known
      <4> QED
        BY <1>1, <4>1 DEF Old
    <3>3. (\A i \in DOMAIN events : Old(events[i].h))'
      <4>1. \A i \in DOMAIN events' : Old(events'[i].h)
        BY <1>5, <2>2, Messages DEF IInv, Orderly, Known
      <4> QED
        BY <1>1, <4>1 DEF Old
    <3> QED
      BY <1>1, <1>10, <3>1, <3>2, <3>3 DEF IInv, Orderly, Known
  <2>4. Unanswered'
    <3>1. \A i \in DOMAIN events', h \in Handles :
            events'[i] = Msg("done", h) => i \in DOMAIN events /\ events[i] = Msg("done", h)
      BY <2>2, Messages
    <3> QED
      BY <1>3, <3>1 DEF IInv, Orderly, Unanswered
  <2>5. RefusedUncovered'
    <3>1. \A i \in DOMAIN wire, h \in refusals' : wire[i] # Msg("surface", h)
      BY <1>2, <1>3, <2>1 DEF IInv, Orderly, RefusedUncovered, LateSurface, InFlight
    <3> QED
      BY <1>3, <3>1 DEF RefusedUncovered, InFlight
  <2>6. settled => drv # m.h
    BY <1>3, <2>1 DEF IInv, Orderly, SettledLate, InFlight
  <2>7. RefusalSettled'
    BY <1>1, <2>1, <2>6 DEF IInv, Orderly, RefusalSettled
  <2>8. RefusalTold'
    BY <1>1, <2>1, <2>2 DEF IInv, Orderly, RefusalTold, InFlight
  <2>9. RefusalFirst'
    <3> SUFFICES ASSUME drv \in refusals', ~hfinished[drv],
                        NEW i \in DOMAIN events', events'[i] = Msg("done", drv)
                 PROVE  \E j \in DOMAIN events' : j < i /\ events'[j] = Msg("finished", drv)
      BY <1>1 DEF RefusalFirst
    <3>1. i \in DOMAIN events /\ events[i] = Msg("done", drv)
      BY <2>2, Messages
    <3>2. drv # m.h
      BY <1>2, <1>3, <2>1, <3>1 DEF IInv, Orderly, Unanswered
    <3> QED
      BY <2>1, <2>2, <3>1, <3>2 DEF IInv, Orderly, RefusalFirst
  <2>10. OthersReleased' /\ Succession'
    BY <1>13, <1>16, <2>1
  <2>11. FlagTrue'
    BY <1>14, <2>1 DEF OneMore
  <2> QED
    BY <1>7, <2>3, <2>4, <2>5, <2>7, <2>8, <2>9, <2>10, <2>11 DEF Orderly
<1>17. CASE m.kind = "sync" /\ Synced(m.h)
  <2>1. /\ events' = Append(events, Msg("done", m.h)) /\ wire[1] = Msg("sync", m.h)
        /\ UNCHANGED <<holder, clocked, told, refusals, broken>>
    BY <1>2, <1>3, <1>17 DEF Synced, compositorVars
  <2>2. PICK n \in Nat :
          /\ \A i \in DOMAIN events : i \in DOMAIN events' /\ events'[i] = events[i]
                                      /\ i \in Nat /\ i < n + 1
          /\ n + 1 \in DOMAIN events' /\ events'[n + 1] = Msg("done", m.h)
          /\ \A i \in DOMAIN events' : \/ i \in DOMAIN events /\ events'[i] = events[i]
                                       \/ i = n + 1
    BY <1>2, <2>1, MoreAnswers DEF OneMore
  <2>3. Known'
    <3>1. (drv # None => Old(drv))' /\ (holder \in Handles => Old(holder))'
          /\ (\A h \in told \cup refusals : Old(h))'
      BY <1>1, <1>4, <2>1 DEF IInv, Orderly, Known, Old
    <3>2. (\A i \in DOMAIN events : Old(events[i].h))'
      <4>1. \A i \in DOMAIN events' : Old(events'[i].h)
        BY <1>5, <2>2, Messages DEF IInv, Orderly, Known
      <4> QED
        BY <1>1, <4>1 DEF Old
    <3> QED
      BY <1>1, <1>10, <3>1, <3>2 DEF IInv, Orderly, Known
  <2>4. Unanswered'
    <3> SUFFICES ASSUME NEW i \in DOMAIN wire', NEW j \in DOMAIN events', NEW h \in Handles,
                        wire'[i] = Msg("lock", h), events'[j] = Msg("done", h)
                 PROVE  FALSE
      BY DEF Unanswered
    <3>1. i \in Nat /\ i + 1 \in DOMAIN wire /\ wire[i + 1] = Msg("lock", h)
      BY <1>3
    <3>2. j \notin DOMAIN events \/ events'[j] # events[j]
      BY <3>1 DEF IInv, Orderly, Unanswered
    <3>3. h = m.h
      BY <2>2, <3>2, Messages
    <3>4. i + 1 < 1
      BY <1>2, <1>3, <2>1, <3>1, <3>3 DEF IInv, Orderly, LockBeforeSync
    <3> QED
      BY <3>1, <3>4
  <2>5. RefusalTold'
    BY <1>1, <2>1, <2>2 DEF IInv, Orderly, RefusalTold, InFlight
  <2>6. RefusalFirst'
    <3> SUFFICES ASSUME drv \in refusals, ~hfinished[drv],
                        NEW i \in DOMAIN events', events'[i] = Msg("done", drv)
                 PROVE  \E j \in DOMAIN events' : j < i /\ events'[j] = Msg("finished", drv)
      BY <1>1, <2>1 DEF RefusalFirst
    <3>1. CASE i \in DOMAIN events /\ events'[i] = events[i]
      BY <2>2, <3>1 DEF IInv, Orderly, RefusalFirst
    <3>2. CASE i = n + 1
      BY <2>2, <3>2 DEF IInv, Orderly, RefusalTold, InFlight
    <3> QED
      BY <2>2, <3>1, <3>2
  <2>7. RefusedUncovered' /\ RefusalSettled'
    BY <1>12, <2>1
  <2>8. OthersReleased' /\ Succession'
    BY <1>13, <1>17, <2>1
  <2>9. FlagTrue'
    BY <1>14, <2>1 DEF OneMore
  <2> QED
    BY <1>7, <2>3, <2>4, <2>5, <2>6, <2>7, <2>8, <2>9 DEF Orderly
<1>18. CASE m.kind = "surface" /\ UNCHANGED <<compositorVars, events>>
  <2>1. UNCHANGED <<holder, clocked, told, refusals, broken, events>>
    BY <1>18 DEF compositorVars
  <2>2. Known'
    <3>1. (drv # None => Old(drv))' /\ (holder \in Handles => Old(holder))'
          /\ (\A h \in told \cup refusals : Old(h))'
      BY <1>1, <1>4, <2>1 DEF IInv, Orderly, Known, Old
    <3> QED
      BY <1>1, <1>10, <1>11, <2>1, <3>1 DEF IInv, Orderly, Known
  <2> QED
    BY <1>7, <1>11, <1>12, <1>13, <1>14, <1>18, <2>1, <2>2 DEF Orderly
<1>19. CASE m.kind \in {"unlock", "destroy"} /\ Released(m.h)
  <2>1. /\ holder = m.h => holder' \notin Handles
        /\ holder # m.h => UNCHANGED <<holder, clocked>>
        /\ UNCHANGED <<told, refusals, events>>
        /\ wire[1] \in {Msg("unlock", m.h), Msg("destroy", m.h)}
    BY <1>2, <1>3, <1>19 DEF Released
  <2>2. drv # m.h
    BY <1>3, <2>1 DEF IInv, Orderly, NotReleased, Releases
  <2>3. Known'
    <3>1. (drv # None => Old(drv))' /\ (\A h \in told \cup refusals : Old(h))'
          /\ (holder \in Handles => Old(holder))'
      BY <1>1, <1>4, <2>1 DEF IInv, Orderly, Known, Old
    <3> QED
      BY <1>1, <1>10, <1>11, <2>1, <3>1 DEF IInv, Orderly, Known
  <2>4. ASSUME holder' \in Handles
        PROVE  holder' = holder /\ holder # m.h
    BY <2>1, <2>4
  <2>5. (holder \in Handles /\ holder # drv => \E j \in DOMAIN wire : Releases(j, holder))'
    <3>1. ASSUME holder' \in Handles, holder' # drv
          PROVE  \E j \in DOMAIN wire' : (Releases(j, holder))'
      <4>1. PICK j \in DOMAIN wire : Releases(j, holder)
        BY <2>4, <3>1 DEF IInv, Orderly, OthersReleased
      <4>2. j - 1 \in DOMAIN wire' /\ wire'[j - 1] = wire[j]
        BY <1>3, <2>1, <2>4, <3>1, <4>1, Messages DEF Releases
      <4> QED
        BY <2>4, <3>1, <4>1, <4>2 DEF Releases
    <3> QED
      BY <1>1, <3>1
  <2>6. (\A i \in DOMAIN wire, h \in Handles :
           wire[i] = Msg("lock", h) /\ holder \in Handles =>
             \E j \in DOMAIN wire : j < i /\ Releases(j, holder))'
    <3>1. ASSUME NEW i \in DOMAIN wire', NEW h \in Handles, wire'[i] = Msg("lock", h),
                 holder' \in Handles
          PROVE  \E j \in DOMAIN wire' : j < i /\ (Releases(j, holder))'
      <4>1. PICK j \in DOMAIN wire : j < i + 1 /\ Releases(j, holder)
        BY <1>3, <2>4, <3>1 DEF IInv, Orderly, Succession
      <4>2. j # 1
        BY <2>1, <2>4, <3>1, <4>1, Messages DEF Releases
      <4>3. j - 1 \in DOMAIN wire' /\ wire'[j - 1] = wire[j] /\ i \in Nat /\ j \in Nat /\ j - 1 < i
        BY <1>3, <3>1, <4>1, <4>2
      <4> QED
        BY <2>4, <3>1, <4>1, <4>3 DEF Releases
    <3> QED
      BY <3>1
  <2>7. FlagTrue'
    <3>1. drv # None /\ InForce => InForce'
      BY <1>1, <2>1, <2>2 DEF InForce, InFlight
    <3> QED
      BY <1>1, <2>1, <3>1 DEF IInv, Orderly, FlagTrue, InFlight
  <2> QED
    BY <1>7, <1>8, <1>9, <1>11, <1>12, <2>1, <2>3, <2>5, <2>6, <2>7
       DEF Orderly, OthersReleased, Succession
<1> QED
  BY <1>15, <1>16, <1>17, <1>18, <1>19

-----------------------------------------------------------------------------
(* The compositor speaks of the lock it holds.                             *)
LEMMA SpokenNext ==
  ASSUME IInv, holder \in Handles, UNCHANGED <<driverVars, handleVars, refusals, broken, wire>>,
         \/ /\ OneMore("locked", holder)
            /\ clocked' = TRUE /\ told' = told \cup {holder} /\ UNCHANGED holder
         \/ /\ OneMore("finished", holder)
            /\ holder' = None /\ UNCHANGED told
  PROVE  Orderly'
<1> PICK h \in Handles : h = holder
  OBVIOUS
<1> PICK k \in {"locked", "finished"} :
      /\ OneMore(k, h)
      /\ k = "locked" => clocked' = TRUE /\ told' = told \cup {h} /\ holder' = holder
      /\ k = "finished" => holder' = None /\ told' = told
  OBVIOUS
<1>1. /\ UNCHANGED <<used, pending, drv, settled, sessionLocked, hfinished, refusals, broken, wire>>
      /\ drv \in Handles \cup {None} /\ refusals \subseteq Handles /\ None \notin Handles
  BY DEF driverVars, handleVars, IInv, LockTypeOK, None, Handles
<1>2. PICK n \in Nat :
        /\ \A i \in DOMAIN events : i \in DOMAIN events' /\ events'[i] = events[i]
                                    /\ i \in Nat /\ i < n + 1
        /\ n + 1 \in DOMAIN events' /\ events'[n + 1] = Msg(k, h)
        /\ \A i \in DOMAIN events' : \/ i \in DOMAIN events /\ events'[i] = events[i]
                                     \/ i = n + 1
  BY MoreAnswers
<1>3. \A i \in DOMAIN events', g \in Handles :
        events'[i] = Msg("done", g) => i \in DOMAIN events /\ events[i] = Msg("done", g)
  BY <1>2, Messages
<1>4. Old(h) /\ \A g : Old(g) <=> Old(g)'
  BY <1>1 DEF IInv, Orderly, Known, Old
<1>5. Known'
  <2>1. (\A i \in DOMAIN events : Old(events[i].h))'
    <3>1. \A i \in DOMAIN events' : Old(events'[i].h)
      BY <1>2, <1>4, Messages DEF IInv, Orderly, Known
    <3> QED
      BY <1>1, <3>1 DEF Old
  <2>2. (\A i \in DOMAIN wire : Old(wire[i].h))' /\ (drv # None => Old(drv))'
    BY <1>1 DEF IInv, Orderly, Known, Old
  <2>3. (holder \in Handles => Old(holder))' /\ (\A g \in told \cup refusals : Old(g))'
    <3>1. holder' \in Handles => Old(holder')
      BY <1>1, <1>4
    <3>2. \A g \in told' \cup refusals' : Old(g)
      BY <1>1, <1>4 DEF IInv, Orderly, Known
    <3> QED
      BY <1>1, <3>1, <3>2 DEF Old
  <2> QED
    BY <1>1, <2>1, <2>2, <2>3 DEF IInv, Orderly, Known
<1>6. LockBeforeSync' /\ LateSurface' /\ SettledLate' /\ RefusedUncovered' /\ RefusalSettled'
  BY <1>1 DEF IInv, Orderly, LockBeforeSync, LateSurface, SettledLate, RefusedUncovered,
              RefusalSettled, InFlight
<1>7. Unanswered'
  BY <1>1, <1>3 DEF IInv, Orderly, Unanswered
<1>8. RefusalTold' /\ RefusalFirst'
  <2>1. RefusalTold'
    BY <1>1, <1>2 DEF IInv, Orderly, RefusalTold, InFlight
  <2>2. RefusalFirst'
    BY <1>1, <1>2, <1>3 DEF IInv, Orderly, RefusalFirst
  <2> QED
    BY <2>1, <2>2
<1>9. OthersReleased' /\ Succession' /\ NotReleased'
  <2>1. holder' \in Handles => holder' = holder
    BY <1>1
  <2>2. NotReleased'
    BY <1>1 DEF IInv, Orderly, NotReleased, Releases
  <2>3. OthersReleased'
    BY <1>1, <2>1 DEF IInv, Orderly, OthersReleased, Releases
  <2>4. Succession'
    BY <1>1, <2>1 DEF IInv, Orderly, Succession, Releases
  <2> QED
    BY <2>2, <2>3, <2>4
<1>10. FlagTrue'
  <2>1. CASE h = drv
    <3>1. InForce'
      BY <1>1, <1>2, <2>1 DEF InForce, InFlight
    <3> QED
      BY <1>1, <2>1, <3>1 DEF FlagTrue
  <2>2. CASE h # drv
    <3>1. InFlight(events', Msg("locked", drv)) => InFlight(events, Msg("locked", drv))
      BY <1>2, <2>2, Messages DEF InFlight
    <3>2. InForce => InForce'
      BY <1>1, <1>2, <2>2 DEF InForce, InFlight
    <3> QED
      BY <1>1, <3>1, <3>2 DEF IInv, Orderly, FlagTrue
  <2> QED
    BY <2>1, <2>2
<1> QED
  BY <1>5, <1>6, <1>7, <1>8, <1>9, <1>10 DEF Orderly

(* A new handle is the youngest, and nothing has been said of it.          *)
LEMMA AskNext ==
  ASSUME IInv, Ask
  PROVE  Orderly'
<1>1. /\ used' = used + 1 /\ pending' = used + 1 /\ used \in Nat
      /\ UNCHANGED <<drv, settled, sessionLocked, wire, events, holder, clocked, told, refusals, broken>>
      /\ drv \in Handles \cup {None} /\ refusals \subseteq Handles /\ None \notin Handles
  BY DEF Ask, LockSession, compositorVars, IInv, LockTypeOK, None, Handles
<1>2. \A h \in Handles : hfinished[h] => hfinished'[h]
  BY DEF Ask, LockSession, IInv, LockTypeOK
<1>3. ASSUME NEW h, Old(h)
      PROVE  (Old(h))'
  <2>1. h \in 1 .. used + 1 /\ h # used + 1
    BY <1>1, <1>3 DEF Old
  <2> QED
    BY <1>1, <2>1 DEF Old
<1>4. Known'
  <2>1. (\A i \in DOMAIN wire : Old(wire[i].h))' /\ (\A i \in DOMAIN events : Old(events[i].h))'
    BY <1>1, <1>3 DEF IInv, Orderly, Known
  <2>2. (drv # None => Old(drv))' /\ (holder \in Handles => Old(holder))'
        /\ (\A h \in told \cup refusals : Old(h))'
    BY <1>1, <1>3 DEF IInv, Orderly, Known
  <2> QED
    BY <1>1, <2>1, <2>2 DEF Known
<1>5. LockBeforeSync' /\ Unanswered' /\ LateSurface' /\ SettledLate' /\ RefusedUncovered'
  BY <1>1 DEF IInv, Orderly, LockBeforeSync, Unanswered, LateSurface, SettledLate,
              RefusedUncovered, InFlight
<1>6. RefusalTold' /\ RefusalFirst' /\ RefusalSettled'
  BY <1>1, <1>2 DEF IInv, Orderly, RefusalTold, RefusalFirst, RefusalSettled, InFlight
<1>7. OthersReleased' /\ Succession' /\ NotReleased'
  BY <1>1 DEF IInv, Orderly, OthersReleased, Succession, NotReleased, Releases
<1>8. FlagTrue'
  BY <1>1, <1>2 DEF IInv, Orderly, FlagTrue, InForce, InFlight
<1> QED
  BY <1>4, <1>5, <1>6, <1>7, <1>8 DEF Orderly

(* Steps that touch nothing the order is about.                            *)
LEMMA GiveUpNext ==
  ASSUME IInv, UNCHANGED <<driverVars, used, hfinished, compositorVars, wire, events>>
  PROVE  Orderly'
<1>1. UNCHANGED <<used, pending, drv, settled, sessionLocked, hfinished, wire, events,
                  holder, clocked, told, refusals, broken>>
  BY DEF driverVars, compositorVars
<1>2. Known'
  BY <1>1 DEF IInv, Orderly, Known, Old
<1>3. LockBeforeSync' /\ Unanswered' /\ LateSurface' /\ SettledLate' /\ RefusedUncovered'
  BY <1>1 DEF IInv, Orderly, LockBeforeSync, Unanswered, LateSurface, SettledLate,
              RefusedUncovered, InFlight
<1>4. RefusalTold' /\ RefusalFirst' /\ RefusalSettled'
  BY <1>1 DEF IInv, Orderly, RefusalTold, RefusalFirst, RefusalSettled, InFlight
<1>5. OthersReleased' /\ Succession' /\ NotReleased' /\ FlagTrue'
  BY <1>1 DEF IInv, Orderly, OthersReleased, Succession, NotReleased, Releases,
              FlagTrue, InForce, InFlight
<1> QED
  BY <1>2, <1>3, <1>4, <1>5 DEF Orderly

-----------------------------------------------------------------------------
(* Types, one action at a time.                                            *)

LEMMA TurnTypes ==
  ASSUME LockTypeOK, Turn
  PROVE  LockTypeOK'
<1> USE DEF LockTypeOK
<1>1. /\ pending' = None /\ hfinished' = Finished /\ (End \/ Cover)
      /\ UNCHANGED <<used, hunlock, holder, clocked, told, refusals, broken, events>>
  BY DEF Turn, compositorVars
<1>2. Current \in Handles \cup {None} /\ StartRequests \in Seq(Requests)
  BY Messages DEF Current, StartRequests, Starts
<1>3. Finished \in [Handles -> BOOLEAN]
  BY DEF Finished
<1>4. CASE End
  <2>1. Current \in Handles
    BY <1>2, <1>4 DEF End, Over
  <2>2. <<Msg(IF hlocked[Current] THEN "unlock" ELSE "destroy", Current)>> \in Seq(Requests)
    BY <2>1, Messages
  <2>3. wire' \in Seq(Requests)
    BY <1>2, <1>4, <2>2 DEF End
  <2>4. hlocked' \in [Handles -> BOOLEAN]
    BY <1>4, <2>1 DEF End
  <2> QED
    BY <1>1, <1>3, <1>4, <2>3, <2>4 DEF End
<1>5. CASE Cover
  <2> DEFINE covers == ~Starts /\ drv # None /\ settled /\ ~covered
             more == IF covers THEN <<Msg("surface", drv)>> ELSE <<>>
  <2>1. more \in Seq(Requests)
    BY Messages
  <2>2. wire' = wire \o StartRequests \o more /\ covered' = (covered \/ covers)
        /\ drv' = Current /\ UNCHANGED <<settled, hlocked, sessionLocked>>
    BY <1>5 DEF Cover
  <2>3. covered' \in BOOLEAN
    BY <2>2
  <2> HIDE DEF more, covers
  <2>4. wire' \in Seq(Requests)
    BY <1>2, <2>1, <2>2
  <2> QED
    BY <1>1, <1>2, <1>3, <2>2, <2>3, <2>4
<1> QED
  BY <1>1, <1>4, <1>5

LEMMA ReadTypes ==
  ASSUME LockTypeOK, Read
  PROVE  LockTypeOK'
<1> USE DEF LockTypeOK
<1> PICK e \in Answers : e = Head(events)
  BY Shorter DEF Read
<1>1. e.h \in Handles
  BY Messages
<1>2. /\ hlocked' = [hlocked EXCEPT ![e.h] = @ \/ (e.kind = "locked" /\ drv = e.h)]
      /\ hfinished' = [hfinished EXCEPT ![e.h] = @ \/ (e.kind = "finished" /\ drv = e.h)]
      /\ sessionLocked' = (sessionLocked \/ (e.kind = "locked" /\ drv = e.h))
      /\ settled' = IF e.kind = "done" /\ drv # None THEN SettledBy(e.h) ELSE settled
      /\ events' = Tail(events) /\ events # <<>>
      /\ UNCHANGED <<used, pending, drv, covered, hunlock, holder, clocked, told, refusals, broken, wire>>
  BY DEF Read, compositorVars
<1>3. events' \in Seq(Answers)
  BY <1>2, Shorter
<1>4. hlocked' \in [Handles -> BOOLEAN] /\ hfinished' \in [Handles -> BOOLEAN]
  BY <1>1, <1>2
<1>5. sessionLocked' \in BOOLEAN /\ settled' \in BOOLEAN
  BY <1>2 DEF SettledBy
<1> QED
  BY <1>2, <1>3, <1>4, <1>5

LEMMA ServeTypes ==
  ASSUME LockTypeOK, Serve
  PROVE  LockTypeOK'
<1> USE DEF LockTypeOK
<1> PICK m \in Requests : m = Head(wire)
  BY Shorter DEF Serve
<1>1. /\ m.h \in Handles /\ m.kind \in {"lock", "sync", "surface", "unlock", "destroy"}
      /\ Msg("finished", m.h) \in Answers /\ Msg("done", m.h) \in Answers
  BY Messages
<1>2. /\ Served(m) /\ wire' \in Seq(Requests)
      /\ UNCHANGED <<used, pending, drv, settled, covered, sessionLocked, hlocked, hfinished, hunlock>>
  BY Shorter DEF Serve, driverVars, handleVars
<1>3. /\ holder' \in Handles \cup {None, Dead} /\ told' \subseteq Handles /\ refusals' \subseteq Handles
      /\ clocked' \in BOOLEAN /\ broken' \in BOOLEAN
      /\ (holder' = Dead => clocked')
      /\ events' = events \/ (\E a \in Answers : events' = Append(events, a))
  <2> None # Dead /\ Dead \notin Handles
    BY DEF None, Dead, Handles
  <2>1. CASE m.kind = "lock"
    BY <1>1, <1>2, <2>1 DEF Served, Accept, Refuse
  <2>2. CASE m.kind = "sync"
    BY <1>1, <1>2, <2>2 DEF Served, compositorVars
  <2>3. CASE m.kind = "surface"
    BY <1>2, <2>3 DEF Served, compositorVars
  <2>4. CASE m.kind = "unlock"
    BY <1>1, <1>2, <2>4 DEF Served
  <2>5. CASE m.kind = "destroy"
    <3>1. /\ holder' = (IF holder = m.h THEN Orphaned ELSE holder)
          /\ broken' = (m.h \in told)
          /\ UNCHANGED <<clocked, told, refusals, events>>
      BY <1>2, <2>5 DEF Served
    <3>2. broken' \in BOOLEAN
      BY <3>1
    <3>3. CASE holder = m.h
      <4>1. (holder' = Dead /\ clocked) \/ holder' = None
        BY <3>1, <3>3 DEF Orphaned
      <4> QED
        BY <3>1, <3>2, <4>1
    <3>4. CASE holder # m.h
      BY <3>1, <3>2, <3>4
    <3> QED
      BY <3>3, <3>4
  <2> QED
    BY <1>1, <2>1, <2>2, <2>3, <2>4, <2>5
<1>4. events' \in Seq(Answers)
  BY <1>3
<1> QED
  BY <1>2, <1>3, <1>4

LEMMA GrantTypes ==
  ASSUME LockTypeOK, Grant \/ TakeBack
  PROVE  LockTypeOK'
<1> USE DEF LockTypeOK
<1>0. None # Dead /\ Dead \notin Handles
  BY DEF None, Dead, Handles
<1>1. CASE Grant
  <2>1. Msg("locked", holder) \in Answers
    BY <1>1, Messages DEF Grant
  <2> QED
    BY <1>0, <1>1, <2>1 DEF Grant, driverVars, handleVars
<1>2. CASE TakeBack
  <2>1. Msg("finished", holder) \in Answers
    BY <1>0, <1>2, Messages DEF TakeBack
  <2>2. /\ holder' = None /\ clocked' = FALSE /\ events' = Append(events, Msg("finished", holder))
        /\ UNCHANGED <<pending, drv, settled, covered, sessionLocked, used, hlocked, hfinished,
                       hunlock, told, refusals, broken, wire>>
    BY <1>2 DEF TakeBack, driverVars, handleVars
  <2>3. events' \in Seq(Answers)
    BY <1>0, <2>1, <2>2
  <2>4. holder' # Dead
    BY <1>0, <2>2
  <2> QED
    BY <1>0, <2>2, <2>3, <2>4
<1> QED
  BY <1>1, <1>2

LEMMA AskTypes ==
  ASSUME IInv, Ask \/ \E h \in Handles : GiveUp(h)
  PROVE  LockTypeOK'
<1> USE DEF LockTypeOK
<1>0. LockTypeOK /\ (drv # None => Old(drv))
  BY DEF IInv, Orderly, Known
<1>1. CASE Ask
  <2>1. /\ used' = used + 1 /\ pending' = used + 1 /\ used < MaxLocks /\ used \in Nat
        /\ UNCHANGED <<drv, settled, covered, sessionLocked, hlocked, hunlock, holder, clocked,
                       told, refusals, broken, wire, events>>
    BY <1>0, <1>1 DEF Ask, LockSession, compositorVars
  <2>2. used' \in 0 .. MaxLocks /\ pending' \in Handles
    BY <2>1, LockDriverAssumption DEF Handles
  <2>3. pending' # drv' /\ pending' <= used'
    BY <2>1 , <1>0 DEF Old, None
  <2>4. hfinished' \in [Handles -> BOOLEAN]
    BY <1>0, <1>1 DEF Ask, LockSession
  <2> QED
    BY <1>0, <2>1, <2>2, <2>3, <2>4
<1>2. ASSUME NEW h \in Handles, GiveUp(h)
      PROVE  LockTypeOK'
  BY <1>0, <1>2 DEF GiveUp, Unlock, driverVars, compositorVars
<1> QED
  BY <1>1, <1>2

-----------------------------------------------------------------------------
LEMMA IInvInit == LockInit => IInv
<1> SUFFICES ASSUME LockInit PROVE IInv
  OBVIOUS
<1> USE DEF LockInit
<1>1. LockTypeOK
  <2>1. used \in 0 .. MaxLocks /\ holder # Dead
    BY LockDriverAssumption DEF None, Dead
  <2>2. {hlocked, hfinished, hunlock} \subseteq [Handles -> BOOLEAN]
    BY DEF NoHandle
  <2>3. wire \in Seq(Requests) /\ events \in Seq(Answers)
    OBVIOUS
  <2> QED
    BY <2>1, <2>2, <2>3 DEF LockTypeOK
<1>2. wire = <<>> /\ events = <<>> /\ DOMAIN wire = {} /\ DOMAIN events = {}
  OBVIOUS
<1>3. None \notin Handles /\ holder = None /\ drv = None /\ refusals = {} /\ told = {}
  BY DEF None, Handles
<1>4. Known
  BY <1>2, <1>3 DEF Known
<1>5. LockBeforeSync /\ Unanswered /\ LateSurface /\ SettledLate
  BY <1>2 DEF LockBeforeSync, Unanswered, LateSurface, SettledLate
<1>6. RefusalTold /\ RefusalFirst /\ RefusalSettled /\ RefusedUncovered
  BY <1>3 DEF RefusalTold, RefusalFirst, RefusalSettled, RefusedUncovered
<1>7. OthersReleased /\ Succession /\ NotReleased /\ FlagTrue
  BY <1>2, <1>3 DEF OthersReleased, Succession, NotReleased, FlagTrue
<1> QED
  BY <1>1, <1>4, <1>5, <1>6, <1>7 DEF IInv, Orderly

LEMMA IInvNext == IInv /\ [LockNext]_lockVars => IInv'
<1> SUFFICES ASSUME IInv, [LockNext]_lockVars PROVE IInv'
  OBVIOUS
<1>0. LockTypeOK
  BY DEF IInv
<1>1. CASE Ask
  BY <1>1, AskNext, AskTypes DEF IInv
<1>2. ASSUME NEW h \in Handles, GiveUp(h)
      PROVE  IInv'
  <2>1. UNCHANGED <<driverVars, used, hfinished, compositorVars, wire, events>>
    BY <1>2 DEF GiveUp
  <2> QED
    BY <1>2, <2>1, GiveUpNext, AskTypes DEF IInv
<1>3. CASE Turn
  BY <1>0, <1>3, TurnSplits, StartsNext, EndsNext, GoesOnNext, TurnTypes DEF IInv
<1>4. CASE Read
  BY <1>0, <1>4, ReadNext, ReadTypes DEF IInv
<1>5. CASE Serve
  BY <1>0, <1>5, ServeNext, ServeTypes DEF IInv
<1>6. CASE Grant
  <2>1. Orderly'
    BY <1>6, SpokenNext DEF Grant, OneMore
  <2> QED
    BY <1>6, <2>1, GrantTypes DEF IInv
<1>7. CASE TakeBack
  <2>1. holder \in Handles
    BY <1>0, <1>7 DEF TakeBack, LockTypeOK
  <2>2. Orderly'
    BY <1>7, <2>1, SpokenNext DEF TakeBack, OneMore
  <2> QED
    BY <1>7, <2>2, GrantTypes DEF IInv
<1>8. CASE UNCHANGED lockVars
  <2>1. Orderly'
    BY <1>8, GiveUpNext DEF lockVars, handleVars
  <2>2. LockTypeOK'
    BY <1>0, <1>8 DEF LockTypeOK, lockVars, driverVars, handleVars, compositorVars
  <2> QED
    BY <2>1, <2>2 DEF IInv
<1> QED
  BY <1>1, <1>2, <1>3, <1>4, <1>5, <1>6, <1>7, <1>8 DEF LockNext

LEMMA IInvHonest == IInv => DriverHonest
<1> SUFFICES ASSUME IInv PROVE DriverHonest
  OBVIOUS
<1>1. RefusedUncovered
  BY DEF IInv, Orderly
<1>2. NeverAgainstItself
  <2> SUFFICES ASSUME wire # <<>>, Head(wire).kind = "lock", holder \in Handles
               PROVE  FALSE
    BY DEF NeverAgainstItself, IInv, LockTypeOK
  <2>1. 1 \in DOMAIN wire /\ Head(wire) = wire[1] /\ Head(wire) \in Requests
    BY Shorter DEF IInv, LockTypeOK
  <2>2. wire[1] = Msg("lock", wire[1].h) /\ wire[1].h \in Handles
    BY <2>1, Messages
  <2>3. PICK j \in DOMAIN wire : j < 1
    BY <2>1, <2>2 DEF IInv, Orderly, Succession
  <2>4. j \in Nat /\ j >= 1
    BY <2>3, Shorter DEF IInv, LockTypeOK
  <2> QED
    BY <2>3, <2>4
<1>3. FlagHonest
  BY DEF FlagHonest, IInv, Orderly, FlagTrue, InForce
<1> QED
  BY <1>1, <1>2, <1>3 DEF DriverHonest

(* The driver never gives a surface to a lock the compositor refused, asks *)
(* for a lock only when its last one is over for the compositor too, and   *)
(* holds SESSION_LOCKED only while that lock is in force or the end of it  *)
(* is on its way (start, end and cover_outputs of lock.rs), whatever the   *)
(* number of handles and the compositor's policy.                          *)
THEOREM DriverHonestAlways == LockSpec => []DriverHonest
<1>1. IInv /\ [LockNext]_lockVars => IInv'
  BY IInvNext
<1> QED
  BY <1>1, IInvInit, IInvHonest, PTL DEF LockSpec
=============================================================================
