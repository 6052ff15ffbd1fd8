--------------------------- MODULE LayoutStoreProofs ---------------------------
(* The layout store keeps its history, the screen, the files and the timer *)
(* in agreement, whatever is edited, imported, rewritten or restarted.     *)
EXTENDS LayoutStore, SubsequenceProofs

-----------------------------------------------------------------------------
(* A history that applies to the layouts as they are, all of them held.    *)
Upheld(stack, texts) ==
  /\ AppliesOn(stack, texts)
  /\ \A i \in DOMAIN stack : texts[stack[i].layout] # Absent

LEMMA EntryLayout ==
  ASSUME NEW s \in Seq(Entry), NEW i \in DOMAIN s
  PROVE  s[i] \in Entry /\ s[i].layout \in Layouts /\ s[i].back \in Texts /\ s[i].on \in Texts
<1>1. s[i] \in Entry
  OBVIOUS
<1> QED
  BY <1>1 DEF Entry

(* It stands while what is held is left alone.                             *)
LEMMA UpheldStill ==
  ASSUME NEW s \in Seq(Entry), NEW texts, NEW after, Upheld(s, texts),
         \A l \in Layouts : texts[l] # Absent => after[l] = texts[l]
  PROVE  Upheld(s, after)
<1>1. \A i \in DOMAIN s : after[s[i].layout] = texts[s[i].layout]
  BY EntryLayout DEF Upheld
<1> QED
  BY <1>1 DEF Upheld, AppliesOn

(* It stands once the entries of what was rewritten are forgotten.         *)
LEMMA UpheldForgotten ==
  ASSUME NEW s \in Seq(Entry), NEW texts, NEW after, NEW gone, Upheld(s, texts),
         \A l \in Layouts : l \notin gone /\ texts[l] # Absent => after[l] = texts[l]
  PROVE  LET left == Picked(s, {i \in DOMAIN s : s[i].layout \notin gone})
         IN  left \in Seq(Entry) /\ Upheld(left, after)
<1> DEFINE at == {i \in DOMAIN s : s[i].layout \notin gone}
           n == Cardinality(at)
           left == Picked(s, at)
<1>1. /\ IsFiniteSet(at) /\ at \subseteq Nat /\ n \in Nat
      /\ left \in Seq(Entry) /\ DOMAIN left = 1 .. n
      /\ \A k \in 1 .. n : Place(at, k) \in at /\ left[k] = s[Place(at, k)]
  <2>1. at \in SUBSET DOMAIN s
    OBVIOUS
  <2> QED
    BY <2>1, PickedType
<1>2. \A i \in at : after[s[i].layout] = texts[s[i].layout] /\ texts[s[i].layout] # Absent
  BY EntryLayout DEF Upheld
<1>3. ASSUME NEW k \in 1 .. n, NEW j \in DOMAIN s, Place(at, k) < j,
             s[j].layout = s[Place(at, k)].layout
      PROVE  \E m \in 1 .. n : k < m /\ Place(at, m) = j
  <2>1. j \in at /\ Place(at, k) \in at
    BY <1>1, <1>3
  <2>2. Place(at, Rank(at, j)) = j /\ Rank(at, j) \in 1 .. n
    BY <1>1, <2>1, RankPlace, RankType
  <2>3. k < Rank(at, j) <=> Place(at, k) < Place(at, Rank(at, j))
    <3> HIDE DEF at
    <3> QED
      BY <1>1, <2>2, PlaceGrows
  <2> QED
    BY <1>3, <2>2, <2>3
<1>4. ASSUME NEW k \in 1 .. n, Newest(left, k)
      PROVE  Newest(s, Place(at, k))
  <2> SUFFICES ASSUME NEW j \in DOMAIN s, Place(at, k) < j,
                      s[j].layout = s[Place(at, k)].layout
               PROVE  FALSE
    BY DEF Newest
  <2>1. PICK m \in 1 .. n : k < m /\ Place(at, m) = j
    BY <1>3
  <2>2. left[m] = s[j] /\ left[k] = s[Place(at, k)] /\ m \in DOMAIN left
    BY <1>1, <2>1
  <2> QED
    BY <1>4, <2>1, <2>2 DEF Newest
<1>5. ASSUME NEW k \in 1 .. n, NEW m \in 1 .. n, Follow(left, k, m)
      PROVE  Follow(s, Place(at, k), Place(at, m))
  <2>1. left[k] = s[Place(at, k)] /\ left[m] = s[Place(at, m)]
    BY <1>1
  <2>2. Place(at, k) < Place(at, m)
    BY <1>1, <1>5, PlaceGrows DEF Follow
  <2>3. ASSUME NEW j \in DOMAIN s, Place(at, k) < j, j < Place(at, m),
               s[j].layout = s[Place(at, k)].layout
        PROVE  FALSE
    <3>1. PICK p \in 1 .. n : k < p /\ Place(at, p) = j
      BY <1>3, <2>3
    <3>2. p < m
      BY <1>1, <2>3, <3>1, PlaceGrows
    <3>3. left[p] = s[j] /\ p \in DOMAIN left
      BY <1>1, <3>1
    <3> QED
      BY <1>5, <2>1, <2>3, <3>1, <3>2, <3>3 DEF Follow
  <2> QED
    BY <1>5, <2>1, <2>2, <2>3 DEF Follow
<1>6. ASSUME NEW k \in 1 .. n
      PROVE  /\ after[left[k].layout] # Absent
             /\ Newest(left, k) => left[k].on = after[left[k].layout]
             /\ \A m \in 1 .. n : Follow(left, k, m) => left[k].on = left[m].back
  <2>1. Place(at, k) \in at /\ Place(at, k) \in DOMAIN s /\ left[k] = s[Place(at, k)]
    BY <1>1
  <2>2. \A m \in 1 .. n : Place(at, m) \in DOMAIN s /\ left[m] = s[Place(at, m)]
    BY <1>1
  <2>3. after[left[k].layout] = texts[left[k].layout] /\ texts[left[k].layout] # Absent
    BY <1>2, <2>1
  <2>4. Newest(left, k) => left[k].on = after[left[k].layout]
    BY <1>4, <2>1, <2>3 DEF Upheld, AppliesOn
  <2>5. \A m \in 1 .. n : Follow(left, k, m) => left[k].on = left[m].back
    BY <1>5, <2>1, <2>2 DEF Upheld, AppliesOn
  <2> QED
    BY <2>3, <2>4, <2>5
<1>7. Upheld(left, after)
  <2> HIDE DEF left, at
  <2> QED
    BY <1>1, <1>6 DEF Upheld, AppliesOn
<1> QED
  BY <1>1, <1>7

(* It stands with one more entry, recorded against what was there.         *)
LEMMA UpheldLonger ==
  ASSUME NEW s \in Seq(Entry), NEW texts, NEW after, NEW e \in Entry, Upheld(s, texts),
         texts[e.layout] \in {e.back, Absent}, after[e.layout] = e.on, e.on # Absent,
         \A l \in Layouts : l # e.layout /\ texts[l] # Absent => after[l] = texts[l]
  PROVE  Append(s, e) \in Seq(Entry) /\ Upheld(Append(s, e), after)
<1> DEFINE t == Append(s, e)
           n == Len(s)
<1>1. /\ t \in Seq(Entry) /\ Len(t) = n + 1 /\ n \in Nat
      /\ DOMAIN t = 1 .. n + 1 /\ DOMAIN s = 1 .. n
      /\ t[n + 1] = e /\ \A i \in 1 .. n : t[i] = s[i]
  OBVIOUS
<1>2. ASSUME NEW i \in 1 .. n
      PROVE  /\ after[t[i].layout] # Absent
             /\ Newest(t, i) => t[i].on = after[t[i].layout]
             /\ \A j \in 1 .. n + 1 : Follow(t, i, j) => t[i].on = t[j].back
  <2>1. t[i] = s[i] /\ i \in DOMAIN s /\ s[i].layout \in Layouts /\ i < n + 1
    BY <1>1, EntryLayout
  <2>2. texts[t[i].layout] # Absent
    BY <2>1 DEF Upheld
  <2>3. after[t[i].layout] # Absent
    BY <2>1, <2>2
  <2>4. Newest(t, i) => t[i].on = after[t[i].layout]
    <3> SUFFICES ASSUME Newest(t, i)
                 PROVE  t[i].on = after[t[i].layout]
      OBVIOUS
    <3>1. t[i].layout # e.layout
      BY <1>1, <2>1 DEF Newest
    <3>2. Newest(s, i)
      BY <1>1, <2>1 DEF Newest
    <3>3. s[i].on = texts[s[i].layout]
      BY <2>1, <3>2 DEF Upheld, AppliesOn
    <3> QED
      BY <2>1, <2>2, <3>1, <3>3
  <2>5. ASSUME NEW j \in 1 .. n + 1, Follow(t, i, j)
        PROVE  t[i].on = t[j].back
    <3>1. CASE j \in 1 .. n
      <4>1. Follow(s, i, j)
        BY <1>1, <2>1, <2>5, <3>1 DEF Follow
      <4>2. j \in DOMAIN s /\ t[j] = s[j]
        BY <1>1, <3>1
      <4> QED
        BY <2>1, <4>1, <4>2 DEF Upheld, AppliesOn
    <3>2. CASE j = n + 1
      <4>1. t[j] = e /\ t[i].layout = e.layout
        BY <1>1, <2>5, <3>2 DEF Follow
      <4>2. \A k \in 1 .. n : i < k => s[k].layout # s[i].layout
        <5>1. \A k \in 1 .. n : k < n + 1 /\ k \in DOMAIN t
          BY <1>1
        <5> QED
          BY <1>1, <2>1, <2>5, <3>2, <5>1 DEF Follow
      <4>3. Newest(s, i)
        BY <1>1, <4>2 DEF Newest
      <4>4. s[i].on = texts[s[i].layout]
        BY <2>1, <4>3 DEF Upheld, AppliesOn
      <4> QED
        BY <2>1, <2>2, <4>1, <4>4
    <3> QED
      BY <1>1, <3>1, <3>2
  <2> QED
    BY <2>3, <2>4, <2>5
<1>3. /\ after[t[n + 1].layout] # Absent
      /\ t[n + 1].on = after[t[n + 1].layout]
      /\ \A j \in 1 .. n + 1 : ~Follow(t, n + 1, j)
  <2>1. \A j \in 1 .. n + 1 : ~(n + 1 < j)
    BY <1>1
  <2> QED
    BY <1>1, <2>1 DEF Follow
<1>4. \A i \in 1 .. n + 1 : i \in 1 .. n \/ i = n + 1
  BY <1>1
<1>5. Upheld(t, after)
  <2> HIDE DEF t, n
  <2> QED
    BY <1>1, <1>2, <1>3, <1>4 DEF Upheld, AppliesOn
<1> QED
  BY <1>1, <1>5

(* Its last entry was recorded against what is there, and it stands        *)
(* without it once that is put back.                                       *)
LEMMA UpheldShorter ==
  ASSUME NEW s \in Seq(Entry), NEW texts, NEW after, s # <<>>, Upheld(s, texts),
         after[Last(s).layout] = Last(s).back,
         \A l \in Layouts : l # Last(s).layout /\ texts[l] # Absent => after[l] = texts[l]
  PROVE  /\ Last(s) \in Entry /\ texts[Last(s).layout] = Last(s).on
         /\ Front(s) \in Seq(Entry) /\ Upheld(Front(s), after)
<1> DEFINE t == Front(s)
           n == Len(s)
           e == Last(s)
<1>1. n \in Nat /\ n > 0 /\ DOMAIN s = 1 .. n
  OBVIOUS
<1>2. /\ t \in Seq(Entry) /\ Len(t) = n - 1 /\ DOMAIN t = 1 .. n - 1
      /\ \A i \in 1 .. n - 1 : t[i] = s[i]
  BY <1>1 DEF Front
<1>3. n \in DOMAIN s /\ e = s[n] /\ e \in Entry /\ e.layout \in Layouts /\ e.back \in Texts
  BY <1>1, EntryLayout DEF Last
<1>4. texts[e.layout] = e.on
  <2>1. Newest(s, n)
    BY <1>1 DEF Newest
  <2> QED
    BY <1>3, <2>1 DEF Upheld, AppliesOn
<1>5. ASSUME NEW i \in 1 .. n - 1
      PROVE  /\ after[t[i].layout] # Absent
             /\ Newest(t, i) => t[i].on = after[t[i].layout]
             /\ \A j \in 1 .. n - 1 : Follow(t, i, j) => t[i].on = t[j].back
  <2>1. t[i] = s[i] /\ i \in DOMAIN s /\ s[i].layout \in Layouts /\ i < n
    BY <1>1, <1>2, EntryLayout
  <2>2. texts[t[i].layout] # Absent
    BY <2>1 DEF Upheld
  <2>3. after[t[i].layout] # Absent
    BY <1>3, <2>1, <2>2, LayoutAssumption
  <2>4. Newest(t, i) => t[i].on = after[t[i].layout]
    <3> SUFFICES ASSUME Newest(t, i)
                 PROVE  t[i].on = after[t[i].layout]
      OBVIOUS
    <3>1. CASE t[i].layout = e.layout
      <4>1. \A k \in DOMAIN s : i < k /\ k < n => s[k].layout # s[i].layout
        BY <1>1, <1>2, <2>1 DEF Newest
      <4>2. Follow(s, i, n)
        BY <1>3, <2>1, <3>1, <4>1 DEF Follow
      <4>3. s[i].on = s[n].back
        BY <1>3, <2>1, <4>2 DEF Upheld, AppliesOn
      <4> QED
        BY <1>3, <2>1, <3>1, <4>3
    <3>2. CASE t[i].layout # e.layout
      <4>1. \A k \in DOMAIN s : k \in 1 .. n - 1 \/ k = n
        BY <1>1
      <4>2. Newest(s, i)
        BY <1>2, <1>3, <2>1, <3>2, <4>1 DEF Newest
      <4>3. s[i].on = texts[s[i].layout]
        BY <2>1, <4>2 DEF Upheld, AppliesOn
      <4> QED
        BY <2>1, <2>2, <3>2, <4>3
    <3> QED
      BY <3>1, <3>2
  <2>5. ASSUME NEW j \in 1 .. n - 1, Follow(t, i, j)
        PROVE  t[i].on = t[j].back
    <3>1. j \in DOMAIN s /\ t[j] = s[j]
      BY <1>1, <1>2
    <3>2. \A k \in DOMAIN s : k < j => k \in DOMAIN t /\ t[k] = s[k]
      BY <1>1, <1>2
    <3>3. Follow(s, i, j)
      BY <2>1, <2>5, <3>1, <3>2 DEF Follow
    <3> QED
      BY <2>1, <3>1, <3>3 DEF Upheld, AppliesOn
  <2> QED
    BY <2>3, <2>4, <2>5
<1>6. Upheld(t, after)
  <2> HIDE DEF t, n
  <2> QED
    BY <1>2, <1>5 DEF Upheld, AppliesOn
<1> QED
  BY <1>2, <1>3, <1>4, <1>6

(* What is forgotten of other layouts leaves a layout its history.         *)
LEMMA HistoryKept ==
  ASSUME NEW s \in Seq(Entry), NEW gone, NEW l, l \notin gone
  PROVE  History(l, Picked(s, {i \in DOMAIN s : s[i].layout \notin gone})) = History(l, s)
<1> DEFINE at == {i \in DOMAIN s : s[i].layout \notin gone}
           part == {i \in DOMAIN s : s[i].layout = l}
           left == Picked(s, at)
           n == Cardinality(at)
<1>1. at \in SUBSET DOMAIN s /\ part \in SUBSET at
  OBVIOUS
<1>2. /\ DOMAIN left = 1 .. n
      /\ \A k \in 1 .. n : Place(at, k) \in at /\ left[k] = s[Place(at, k)]
  <2> HIDE DEF at
  <2> QED
    BY <1>1, PickedType
<1>3. \A k \in 1 .. n : left[k].layout = l <=> Place(at, k) \in part
  <2>1. \A i \in at : s[i].layout = l <=> i \in part
    OBVIOUS
  <2> HIDE DEF at, part, left
  <2> QED
    BY <1>2, <2>1
<1>4. {k \in DOMAIN left : left[k].layout = l} = {k \in 1 .. n : Place(at, k) \in part}
  <2> HIDE DEF at, part, left
  <2> QED
    BY <1>2, <1>3
<1>5. Picked(left, {k \in 1 .. n : Place(at, k) \in part}) = Picked(s, part)
  <2> HIDE DEF at, part
  <2> QED
    BY <1>1, PickedOfPicked
<1> QED
  BY <1>4, <1>5 DEF History

-----------------------------------------------------------------------------
(* The invariant: what StoreHonest says of the store, and that what the    *)
(* history has entries of, or was seen in a file, is held.                 *)
SeenIsHeld == \A l \in Layouts : seen[l] # Absent => library[l] # Absent

StoreInv ==
  /\ StoreTypeOK /\ SeenIsHeld
  /\ Upheld(done, library) /\ Upheld(undone, library)
  /\ InStep /\ NoneForgotten /\ TimerRuns /\ DrawsHeld /\ DirtyIsHeld

LEMMA ShownType ==
  ASSUME NEW texts \in [Layouts -> Content], NEW name \in AnyLayout,
         name = BuiltIn \/ texts[name] # Absent
  PROVE  Shown(name, texts) \in Showing /\ Shown(name, texts).text \in Texts
<1>1. CASE name = BuiltIn
  BY <1>1, LayoutAssumption DEF Shown, Showing, AnyLayout
<1>2. CASE name # BuiltIn
  <2>1. name \in Layouts /\ texts[name] \in Texts
    BY <1>2 DEF AnyLayout, Content
  <2> QED
    BY <1>2, <2>1 DEF Shown, Showing, AnyLayout
<1> QED
  BY <1>1, <1>2

(* A redraw shows what the store draws.                                    *)
LEMMA Redrawn ==
  ASSUME good \in [Layouts -> Sound \cup {Absent}], library' \in [Layouts -> Content],
         active' \in AnyLayout, DrawsHeld',
         NEW open \in Showing \cup {Absent}, Redraws(open)
  PROVE  /\ good' \in [Layouts -> Sound \cup {Absent}]
         /\ display' \in Showing /\ edit' \in Showing \cup {Absent} /\ halfway' = FALSE
         /\ InStep'
<1>1. good' \in [Layouts -> Sound \cup {Absent}]
  BY DEF Redraws, Keeps
<1>2. Shown(active', library') \in Showing
  <2>1. active' = BuiltIn \/ library'[active'] # Absent
    BY DEF DrawsHeld
  <2> QED
    BY <2>1, ShownType
<1>3. display' \in Showing /\ display' = Shown(active', library') /\ halfway' = FALSE
  BY <1>2 DEF Redraws
<1>4. edit' \in Showing \cup {Absent} /\ edit' \in {Absent, display'}
  BY <1>3 DEF Redraws, Follows
<1> QED
  BY <1>1, <1>3, <1>4 DEF InStep

(* An edit: of the layout drawn, or of a copy of the built-in one.         *)
LEMMA CommitKeeps ==
  ASSUME StoreInv, NEW l \in Layouts, NEW text \in Texts, NEW refused \in BOOLEAN,
         NEW open \in Showing \cup {Absent}, Commit(l, text, refused, open),
         acts' \in 0 .. MaxActs
  PROVE  StoreInv'
<1> DEFINE before == Shown(active, library).text
           e == [layout |-> l, back |-> before, on |-> text]
           after == IF refused THEN before ELSE text
<1>1. StoreTypeOK
  BY DEF StoreInv
<1>2. before \in Texts
  BY <1>1, ShownType DEF StoreInv, DrawsHeld, StoreTypeOK
<1>3. /\ library' = [library EXCEPT ![l] = after] /\ active' = l
      /\ chosen' \in {chosen, l} /\ dirty' = dirty \cup {l}
      /\ done' = IF refused THEN done ELSE Append(done, e)
      /\ undone' = IF refused THEN undone ELSE <<>>
      /\ waiting' = TRUE /\ recent' = waiting
      /\ file' = file /\ record' = record /\ safe' = safe /\ seen' = seen
      /\ unwritten' = unwritten
      /\ Redraws(open)
  BY DEF Commit, Arms
<1>4. after \in Texts /\ after # Absent /\ text # Absent
  BY <1>2, LayoutAssumption
<1>5. /\ library' \in [Layouts -> Content] /\ active' \in AnyLayout
      /\ chosen' \in AnyLayout \cup {Absent} /\ dirty' \in SUBSET Layouts
      /\ library'[l] = after /\ \A k \in Layouts : k # l => library'[k] = library[k]
  BY <1>1, <1>3, <1>4 DEF StoreTypeOK, Content, AnyLayout
<1>6. library[l] = Absent \/ (~refused /\ library[l] = before)
  <2>1. CASE active = BuiltIn
    BY <2>1 DEF Commit, Free
  <2>2. CASE active # BuiltIn
    BY <2>2 DEF Commit, Shown
  <2> QED
    BY <2>1, <2>2
<1>7. done' \in Seq(Entry) /\ Upheld(done, library) /\ Upheld(done', library')
  <2>1. done \in Seq(Entry) /\ Upheld(done, library)
    BY <1>1 DEF StoreInv, StoreTypeOK
  <2>2. CASE refused
    <3>1. \A k \in Layouts : library[k] # Absent => library'[k] = library[k]
      BY <1>5, <1>6, <2>2
    <3>2. Upheld(done, library')
      BY <2>1, <3>1, UpheldStill
    <3> QED
      BY <1>3, <2>1, <2>2, <3>2
  <2>3. CASE ~refused
    <3>1. e \in Entry /\ e.layout = l /\ e.back = before /\ e.on = text
      BY <1>2 DEF Entry
    <3>2. library[e.layout] \in {e.back, Absent} /\ library'[e.layout] = e.on
      BY <1>5, <1>6, <2>3, <3>1
    <3>3. \A k \in Layouts : k # e.layout /\ library[k] # Absent => library'[k] = library[k]
      BY <1>5, <3>1
    <3>4. Append(done, e) \in Seq(Entry) /\ Upheld(Append(done, e), library')
      <4> HIDE DEF e
      <4> QED
        BY <1>4, <2>1, <3>1, <3>2, <3>3, UpheldLonger
    <3> QED
      BY <1>3, <2>1, <2>3, <3>4
  <2> QED
    BY <2>2, <2>3
<1>8. undone' \in Seq(Entry) /\ Upheld(undone', library')
  <2>1. undone \in Seq(Entry) /\ Upheld(undone, library)
    BY <1>1 DEF StoreInv, StoreTypeOK
  <2>2. CASE refused
    <3>1. \A k \in Layouts : library[k] # Absent => library'[k] = library[k]
      BY <1>5, <1>6, <2>2
    <3>2. Upheld(undone, library')
      BY <2>1, <3>1, UpheldStill
    <3> QED
      BY <1>3, <2>1, <2>2, <3>2
  <2>3. CASE ~refused
    <3>1. undone' = <<>>
      BY <1>3, <2>3
    <3>2. <<>> \in Seq(Entry) /\ DOMAIN <<>> = {}
      OBVIOUS
    <3> QED
      BY <3>1, <3>2 DEF Upheld, AppliesOn
  <2> QED
    BY <2>2, <2>3
<1>9. DrawsHeld' /\ DirtyIsHeld'
  BY <1>3, <1>4, <1>5 DEF StoreInv, DrawsHeld, DirtyIsHeld
<1>10. /\ good' \in [Layouts -> Sound \cup {Absent}]
       /\ display' \in Showing /\ edit' \in Showing \cup {Absent} /\ halfway' = FALSE
       /\ InStep'
  BY <1>1, <1>3, <1>5, <1>9, Redrawn DEF StoreTypeOK
<1>11. StoreTypeOK'
  BY <1>1, <1>3, <1>5, <1>7, <1>8, <1>10 DEF StoreTypeOK
<1>12. NoneForgotten' /\ TimerRuns' /\ SeenIsHeld'
  BY <1>3, <1>4, <1>5 DEF StoreInv, NoneForgotten, TimerRuns, SeenIsHeld
<1> QED
  BY <1>7, <1>8, <1>9, <1>10, <1>11, <1>12 DEF StoreInv

LEMMA ActsType ==
  ASSUME StoreTypeOK, Acts
  PROVE  acts' \in 0 .. MaxActs
<1>1. acts \in Nat /\ acts < MaxActs /\ MaxActs \in Nat /\ acts' = acts + 1
  BY LayoutAssumption DEF StoreTypeOK, Acts
<1> QED
  BY <1>1

LEMMA ScriptKeeps ==
  ASSUME StoreInv, Script
  PROVE  StoreInv'
<1>1. acts' \in 0 .. MaxActs
  BY ActsType DEF StoreInv, Script
<1>2. PICK l \in Layouts, text \in Texts, refused \in BOOLEAN : Commit(l, text, refused, edit)
  BY DEF Script
<1>3. edit \in Showing \cup {Absent}
  BY DEF StoreInv, StoreTypeOK
<1> QED
  BY <1>1, <1>2, <1>3, CommitKeeps

LEMMA DecideKeeps ==
  ASSUME StoreInv, Decide
  PROVE  StoreInv'
<1>1. acts' \in 0 .. MaxActs
  BY DEF StoreInv, StoreTypeOK, Decide
<1>2. PICK l \in Layouts, text \in Texts, refused \in BOOLEAN :
        Commit(l, text, refused, Absent)
  BY DEF Decide
<1> QED
  BY <1>1, <1>2, CommitKeeps

(* What leaves the layouts, their history and what is dirty alone, and the *)
(* screen in step.                                                         *)
LEMMA LeftAlone ==
  ASSUME StoreInv, StoreTypeOK', InStep', NoneForgotten', TimerRuns',
         UNCHANGED <<library, active, historyVars, dirty, seen>>
  PROVE  StoreInv'
<1>1. library' = library /\ active' = active /\ done' = done /\ undone' = undone
      /\ dirty' = dirty /\ seen' = seen
  BY DEF historyVars
<1>2. DrawsHeld' /\ DirtyIsHeld' /\ SeenIsHeld'
  BY <1>1 DEF StoreInv, DrawsHeld, DirtyIsHeld, SeenIsHeld
<1>3. Upheld(done', library') /\ Upheld(undone', library')
  BY <1>1 DEF StoreInv
<1> QED
  BY <1>2, <1>3 DEF StoreInv

LEMMA BeginKeeps ==
  ASSUME StoreInv, Begin
  PROVE  StoreInv'
<1>1. acts' \in 0 .. MaxActs
  BY ActsType DEF StoreInv, Begin
<1>2. edit' = display /\ UNCHANGED <<file, stateVars, safe, library, active, historyVars, dirty, seen,
        timerVars, display, halfway, unwritten>>
  BY DEF Begin
<1>3. StoreTypeOK'
  BY <1>1, <1>2 DEF StoreInv, StoreTypeOK, stateVars, historyVars, timerVars
<1>4. InStep' /\ NoneForgotten' /\ TimerRuns'
  BY <1>2 DEF StoreInv, InStep, NoneForgotten, TimerRuns, timerVars
<1> QED
  BY <1>2, <1>3, <1>4, LeftAlone

LEMMA RevertKeeps ==
  ASSUME StoreInv, RevertEdit
  PROVE  StoreInv'
<1>1. edit' = Absent /\ UNCHANGED <<acts, file, stateVars, safe, library, active, historyVars, dirty,
        seen, timerVars, display, halfway, unwritten>>
  BY DEF RevertEdit
<1>2. StoreTypeOK'
  BY <1>1 DEF StoreInv, StoreTypeOK, stateVars, historyVars, timerVars
<1>3. InStep' /\ NoneForgotten' /\ TimerRuns'
  BY <1>1 DEF StoreInv, InStep, NoneForgotten, TimerRuns, timerVars
<1> QED
  BY <1>1, <1>2, <1>3, LeftAlone

LEMMA UseKeeps ==
  ASSUME StoreInv, UseLayout
  PROVE  StoreInv'
<1>1. acts' \in 0 .. MaxActs
  BY ActsType DEF StoreInv, UseLayout
<1>2. /\ chosen' \in Layouts \cup {BuiltIn}
      /\ UNCHANGED <<file, good, record, safe, library, active, historyVars, dirty, seen,
           timerVars, screenVars, unwritten>>
  BY DEF UseLayout
<1>3. StoreTypeOK'
  BY <1>1, <1>2 DEF StoreInv, StoreTypeOK, AnyLayout, historyVars, timerVars, screenVars
<1>4. InStep' /\ NoneForgotten' /\ TimerRuns'
  BY <1>2 DEF StoreInv, InStep, NoneForgotten, TimerRuns, timerVars, screenVars
<1> QED
  BY <1>2, <1>3, <1>4, LeftAlone

LEMMA OutsideKeeps ==
  ASSUME StoreInv, Outside
  PROVE  StoreInv'
<1>1. acts' \in 0 .. MaxActs
  BY ActsType DEF StoreInv, Outside
<1>2. PICK l \in Layouts, text \in Content \cup {Broken} : file' = [file EXCEPT ![l] = text]
  BY DEF Outside
<1>3. UNCHANGED <<stateVars, safe, library, active, historyVars, dirty, seen, timerVars, screenVars,
        unwritten>>
  BY DEF Outside
<1>4. StoreTypeOK'
  BY <1>1, <1>2, <1>3
  DEF StoreInv, StoreTypeOK, stateVars, historyVars, timerVars, screenVars
<1>5. InStep' /\ NoneForgotten' /\ TimerRuns'
  BY <1>3 DEF StoreInv, InStep, NoneForgotten, TimerRuns, timerVars, screenVars
<1> QED
  BY <1>3, <1>4, <1>5, LeftAlone

LEMMA SettledKeeps ==
  ASSUME StoreInv, OnSettled
  PROVE  StoreInv'
<1>1. /\ waiting' = (dirty # {} /\ recent) /\ recent' = FALSE
      /\ UNCHANGED <<acts, stateVars, safe, library, active, historyVars, screenVars>>
  BY DEF OnSettled
<1>2. acts' = acts /\ good' = good /\ chosen' = chosen /\ record' = record /\ safe' = safe
      /\ library' = library /\ active' = active /\ done' = done /\ undone' = undone
      /\ display' = display /\ edit' = edit /\ halfway' = halfway
  BY <1>1 DEF stateVars, historyVars, screenVars
<1>3. CASE waiting'
  <2>1. UNCHANGED <<file, seen, dirty, unwritten>>
    BY <1>3 DEF OnSettled
  <2>2. StoreTypeOK'
    BY <1>1, <1>2, <2>1 DEF StoreInv, StoreTypeOK
  <2>3. InStep' /\ NoneForgotten' /\ TimerRuns'
    BY <1>2, <1>3, <2>1 DEF StoreInv, InStep, NoneForgotten, TimerRuns
  <2> QED
    BY <1>1, <2>1, <2>2, <2>3, LeftAlone
<1>4. CASE ~waiting'
  <2>1. PICK failed \in SUBSET dirty : Flush(failed)
    BY <1>4 DEF OnSettled
  <2> DEFINE wrote == dirty \ failed
  <2>2. /\ file' = [l \in Layouts |-> IF l \in wrote THEN library[l] ELSE file[l]]
        /\ seen' = [l \in Layouts |-> IF l \in wrote THEN library[l] ELSE seen[l]]
        /\ dirty' = {} /\ unwritten' = (unwritten \ wrote) \cup failed
    BY <2>1 DEF Flush
  <2>3. file' \in [Layouts -> Content \cup {Broken}] /\ seen' \in [Layouts -> Content]
    BY <2>2 DEF StoreInv, StoreTypeOK
  <2>4. unwritten' \subseteq Layouts
    BY <2>2 DEF StoreInv, StoreTypeOK
  <2>5. StoreTypeOK'
    BY <1>1, <1>2, <2>2, <2>3, <2>4 DEF StoreInv, StoreTypeOK
  <2>6. \A l \in Layouts : l \in unwritten' \/ seen'[l] \in {Absent, library'[l]}
    <3> SUFFICES ASSUME NEW l \in Layouts, l \notin unwritten'
                 PROVE  seen'[l] \in {Absent, library'[l]}
      OBVIOUS
    <3>1. CASE l \in wrote
      BY <1>2, <2>2, <3>1
    <3>2. CASE l \notin wrote
      <4>1. l \notin dirty /\ l \notin unwritten
        BY <2>2, <3>2
      <4> QED
        BY <1>2, <2>2, <3>2, <4>1 DEF StoreInv, NoneForgotten
    <3> QED
      BY <3>1, <3>2
  <2>7. NoneForgotten' /\ TimerRuns' /\ DirtyIsHeld'
    BY <2>2, <2>6 DEF NoneForgotten, TimerRuns, DirtyIsHeld
  <2>8. InStep' /\ DrawsHeld' /\ SeenIsHeld'
    BY <1>2, <2>2 DEF StoreInv, InStep, DrawsHeld, SeenIsHeld, DirtyIsHeld
  <2>9. Upheld(done', library') /\ Upheld(undone', library')
    BY <1>2 DEF StoreInv
  <2> QED
    BY <2>5, <2>7, <2>8, <2>9 DEF StoreInv
<1> QED
  BY <1>3, <1>4

(* An entry put back: the layouts, the screen and the timer.               *)
LEMMA PutBackKeeps ==
  ASSUME StoreInv, NEW e \in Entry, library[e.layout] = e.on, PutBack(e),
         acts' \in 0 .. MaxActs, done' \in Seq(Entry), undone' \in Seq(Entry),
         Upheld(done', library'), Upheld(undone', library')
  PROVE  StoreInv'
<1> DEFINE l == e.layout
<1>1. StoreTypeOK
  BY DEF StoreInv
<1>2. l \in Layouts /\ e.back \in Texts /\ e.back # Absent /\ e.on # Absent
  BY LayoutAssumption DEF Entry
<1>3. /\ library' = [library EXCEPT ![l] = e.back] /\ active' = active
      /\ chosen' = chosen /\ dirty' = dirty \cup {l}
      /\ waiting' = TRUE /\ recent' = waiting
      /\ file' = file /\ record' = record /\ safe' = safe /\ seen' = seen
      /\ unwritten' = unwritten
      /\ Redraws(edit)
  BY DEF PutBack, Arms
<1>4. /\ library' \in [Layouts -> Content] /\ active' \in AnyLayout
      /\ chosen' \in AnyLayout \cup {Absent} /\ dirty' \in SUBSET Layouts
      /\ library'[l] = e.back /\ \A k \in Layouts : k # l => library'[k] = library[k]
  BY <1>1, <1>2, <1>3 DEF StoreTypeOK, Content
<1>5. DrawsHeld' /\ DirtyIsHeld'
  <2>1. active = BuiltIn \/ (active \in Layouts /\ library[active] # Absent)
    BY <1>1 DEF StoreInv, DrawsHeld, StoreTypeOK, AnyLayout
  <2>2. \A k \in dirty : k \in Layouts /\ library[k] # Absent
    BY <1>1 DEF StoreInv, DirtyIsHeld, StoreTypeOK
  <2>3. \A k \in Layouts : library[k] # Absent => library'[k] # Absent
    BY <1>2, <1>4
  <2> QED
    BY <1>2, <1>3, <1>4, <2>1, <2>2, <2>3 DEF DrawsHeld, DirtyIsHeld
<1>6. /\ good' \in [Layouts -> Sound \cup {Absent}]
      /\ display' \in Showing /\ edit' \in Showing \cup {Absent} /\ halfway' = FALSE
      /\ InStep'
  <2>1. edit \in Showing \cup {Absent} /\ good \in [Layouts -> Sound \cup {Absent}]
    BY <1>1 DEF StoreTypeOK
  <2> QED
    BY <1>3, <1>4, <1>5, <2>1, Redrawn
<1>7. StoreTypeOK'
  BY <1>1, <1>3, <1>4, <1>6 DEF StoreTypeOK
<1>8. NoneForgotten' /\ TimerRuns' /\ SeenIsHeld'
  BY <1>2, <1>3, <1>4 DEF StoreInv, NoneForgotten, TimerRuns, SeenIsHeld
<1> QED
  BY <1>5, <1>6, <1>7, <1>8 DEF StoreInv

LEMMA UndoKeeps ==
  ASSUME StoreInv, UndoEdit
  PROVE  StoreInv'
<1> DEFINE e == Last(done)
           b == Reversed(e)
<1>1. /\ done \in Seq(Entry) /\ done # <<>> /\ Upheld(done, library)
      /\ undone \in Seq(Entry) /\ Upheld(undone, library)
      /\ library \in [Layouts -> Content] /\ acts' \in 0 .. MaxActs
  BY ActsType DEF StoreInv, StoreTypeOK, UndoEdit
<1>2. PutBack(e) /\ done' = Front(done) /\ undone' = Append(undone, b)
  BY DEF UndoEdit
<1>3. library' = [library EXCEPT ![e.layout] = e.back]
  BY <1>2 DEF PutBack
<1>4. e \in Entry
  <2>1. Len(done) \in DOMAIN done
    BY <1>1
  <2> QED
    BY <1>1, <2>1, EntryLayout DEF Last
<1>5. e.layout \in Layouts /\ e.back \in Texts /\ e.on \in Texts /\ e.back # Absent
  BY <1>4, LayoutAssumption DEF Entry
<1>6. /\ library'[e.layout] = e.back
      /\ \A l \in Layouts : l # e.layout /\ library[l] # Absent => library'[l] = library[l]
  <2> HIDE DEF e
  <2> QED
    BY <1>1, <1>3, <1>5
<1>7. /\ library[e.layout] = e.on
      /\ Front(done) \in Seq(Entry) /\ Upheld(Front(done), library')
  BY <1>1, <1>6, UpheldShorter
<1>8. /\ b \in Entry /\ b.layout = e.layout /\ b.back = library[e.layout] /\ b.on = e.back
  BY <1>5, <1>7 DEF Reversed, Entry
<1>9. Append(undone, b) \in Seq(Entry) /\ Upheld(Append(undone, b), library')
  <2>1. library[b.layout] \in {b.back, Absent} /\ library'[b.layout] = b.on /\ b.on # Absent
    BY <1>5, <1>6, <1>8
  <2>2. \A l \in Layouts : l # b.layout /\ library[l] # Absent => library'[l] = library[l]
    BY <1>6, <1>8
  <2> HIDE DEF b
  <2> QED
    BY <1>1, <1>8, <2>1, <2>2, UpheldLonger
<1> HIDE DEF e, b
<1>10. done' \in Seq(Entry) /\ Upheld(done', library')
  BY <1>2, <1>7
<1>11. undone' \in Seq(Entry) /\ Upheld(undone', library')
  BY <1>2, <1>9
<1> QED
  BY <1>1, <1>2, <1>4, <1>7, <1>10, <1>11, PutBackKeeps

LEMMA RedoKeeps ==
  ASSUME StoreInv, RedoEdit
  PROVE  StoreInv'
<1> DEFINE e == Last(undone)
           b == Reversed(e)
<1>1. /\ undone \in Seq(Entry) /\ undone # <<>> /\ Upheld(undone, library)
      /\ done \in Seq(Entry) /\ Upheld(done, library)
      /\ library \in [Layouts -> Content] /\ acts' \in 0 .. MaxActs
  BY ActsType DEF StoreInv, StoreTypeOK, RedoEdit
<1>2. PutBack(e) /\ undone' = Front(undone) /\ done' = Append(done, b)
  BY DEF RedoEdit
<1>3. library' = [library EXCEPT ![e.layout] = e.back]
  BY <1>2 DEF PutBack
<1>4. e \in Entry
  <2>1. Len(undone) \in DOMAIN undone
    BY <1>1
  <2> QED
    BY <1>1, <2>1, EntryLayout DEF Last
<1>5. e.layout \in Layouts /\ e.back \in Texts /\ e.on \in Texts /\ e.back # Absent
  BY <1>4, LayoutAssumption DEF Entry
<1>6. /\ library'[e.layout] = e.back
      /\ \A l \in Layouts : l # e.layout /\ library[l] # Absent => library'[l] = library[l]
  <2> HIDE DEF e
  <2> QED
    BY <1>1, <1>3, <1>5
<1>7. /\ library[e.layout] = e.on
      /\ Front(undone) \in Seq(Entry) /\ Upheld(Front(undone), library')
  BY <1>1, <1>6, UpheldShorter
<1>8. /\ b \in Entry /\ b.layout = e.layout /\ b.back = library[e.layout] /\ b.on = e.back
  BY <1>5, <1>7 DEF Reversed, Entry
<1>9. Append(done, b) \in Seq(Entry) /\ Upheld(Append(done, b), library')
  <2>1. library[b.layout] \in {b.back, Absent} /\ library'[b.layout] = b.on /\ b.on # Absent
    BY <1>5, <1>6, <1>8
  <2>2. \A l \in Layouts : l # b.layout /\ library[l] # Absent => library'[l] = library[l]
    BY <1>6, <1>8
  <2> HIDE DEF b
  <2> QED
    BY <1>1, <1>8, <2>1, <2>2, UpheldLonger
<1> HIDE DEF e, b
<1>10. undone' \in Seq(Entry) /\ Upheld(undone', library')
  BY <1>2, <1>7
<1>11. done' \in Seq(Entry) /\ Upheld(done', library')
  BY <1>2, <1>9
<1> QED
  BY <1>1, <1>2, <1>4, <1>7, <1>10, <1>11, PutBackKeeps

LEMMA StartKeeps ==
  ASSUME StoreInv, StartFrom
  PROVE  StoreInv'
<1>1. StoreTypeOK /\ acts' \in 0 .. MaxActs
  BY ActsType DEF StoreInv, StartFrom
<1>2. PICK l \in Free, text \in Sound :
        /\ library' = [library EXCEPT ![l] = text] /\ active' = l /\ chosen' = l
        /\ dirty' = dirty \cup {l}
  BY DEF StartFrom
<1>3. /\ waiting' = TRUE /\ recent' = waiting /\ Redraws(edit)
      /\ UNCHANGED <<file, record, safe, historyVars, seen, unwritten>>
  BY DEF StartFrom, Arms
<1>4. done' = done /\ undone' = undone
  BY <1>3 DEF historyVars
<1>5. l \in Layouts /\ library[l] = Absent /\ text \in Texts /\ text # Absent
  BY LayoutAssumption DEF Free
<1>6. /\ library' \in [Layouts -> Content] /\ active' \in AnyLayout
      /\ chosen' \in AnyLayout \cup {Absent} /\ dirty' \in SUBSET Layouts
      /\ library'[l] = text /\ \A k \in Layouts : k # l => library'[k] = library[k]
  BY <1>1, <1>2, <1>5 DEF StoreTypeOK, Content, AnyLayout
<1>7. DrawsHeld' /\ DirtyIsHeld'
  BY <1>2, <1>5, <1>6 DEF StoreInv, DrawsHeld, DirtyIsHeld
<1>8. Upheld(done', library') /\ Upheld(undone', library')
  <2>1. \A k \in Layouts : library[k] # Absent => library'[k] = library[k]
    BY <1>5, <1>6
  <2>2. /\ done \in Seq(Entry) /\ undone \in Seq(Entry)
        /\ Upheld(done, library) /\ Upheld(undone, library)
    BY <1>1 DEF StoreInv, StoreTypeOK
  <2>3. Upheld(done, library') /\ Upheld(undone, library')
    BY <2>1, <2>2, UpheldStill
  <2> QED
    BY <1>4, <2>3
<1>9. /\ good' \in [Layouts -> Sound \cup {Absent}]
      /\ display' \in Showing /\ edit' \in Showing \cup {Absent} /\ halfway' = FALSE
      /\ InStep'
  <2>1. edit \in Showing \cup {Absent} /\ good \in [Layouts -> Sound \cup {Absent}]
    BY <1>1 DEF StoreTypeOK
  <2> QED
    BY <1>3, <1>6, <1>7, <2>1, Redrawn
<1>10. StoreTypeOK'
  BY <1>1, <1>3, <1>4, <1>6, <1>9 DEF StoreTypeOK
<1>11. NoneForgotten' /\ TimerRuns' /\ SeenIsHeld'
  BY <1>2, <1>3, <1>5, <1>6 DEF StoreInv, NoneForgotten, TimerRuns, SeenIsHeld
<1> QED
  BY <1>7, <1>8, <1>9, <1>10, <1>11 DEF StoreInv

(* Both histories are upheld once what was rewritten is forgotten.         *)
LEMMA ForgottenUpheld ==
  ASSUME StoreInv, NEW gone, Forget(gone),
         \A l \in Layouts : l \notin gone /\ library[l] # Absent => library'[l] = library[l]
  PROVE  /\ done' \in Seq(Entry) /\ Upheld(done', library')
         /\ undone' \in Seq(Entry) /\ Upheld(undone', library')
<1>1. /\ done \in Seq(Entry) /\ Upheld(done, library)
      /\ undone \in Seq(Entry) /\ Upheld(undone, library)
  BY DEF StoreInv, StoreTypeOK
<1>2. /\ done' = Picked(done, {i \in DOMAIN done : done[i].layout \notin gone})
      /\ undone' = Picked(undone, {i \in DOMAIN undone : undone[i].layout \notin gone})
  BY DEF Forget
<1>3. done' \in Seq(Entry) /\ Upheld(done', library')
  BY <1>1, <1>2, UpheldForgotten
<1>4. undone' \in Seq(Entry) /\ Upheld(undone', library')
  BY <1>1, <1>2, UpheldForgotten
<1> QED
  BY <1>3, <1>4

(* The layout chosen, once it is held or as it last worked.                *)
LEMMA SelectedHeld ==
  ASSUME NEW texts \in [Layouts -> Content], NEW name \in AnyLayout,
         name = BuiltIn \/ texts[name] # Absent,
         good \in [Layouts -> Sound \cup {Absent}], chosen \in AnyLayout \cup {Absent}
  PROVE  /\ Rescued(texts) \in [Layouts -> Content]
         /\ \A l \in Layouts : texts[l] # Absent => Rescued(texts)[l] = texts[l]
         /\ Selected(texts, name) \in AnyLayout
         /\ Selected(texts, name) = BuiltIn \/ Rescued(texts)[Selected(texts, name)] # Absent
<1>1. Rescued(texts) \in [Layouts -> Content]
  BY LayoutAssumption DEF Rescued, Content
<1>2. \A l \in Layouts : texts[l] # Absent => Rescued(texts)[l] = texts[l]
  BY DEF Rescued
<1>3. Selected(texts, name) \in AnyLayout
  BY DEF Selected, AnyLayout
<1>4. Selected(texts, name) = BuiltIn \/ Rescued(texts)[Selected(texts, name)] # Absent
  <2>1. CASE chosen = BuiltIn \/ (chosen \in Layouts /\ Rescued(texts)[chosen] # Absent)
    BY <2>1 DEF Selected
  <2>2. CASE ~(chosen = BuiltIn \/ (chosen \in Layouts /\ Rescued(texts)[chosen] # Absent))
    <3>1. Selected(texts, name) = name
      BY <2>2 DEF Selected
    <3>2. name = BuiltIn \/ (name \in Layouts /\ texts[name] # Absent)
      BY DEF AnyLayout
    <3> QED
      BY <1>2, <3>1, <3>2
  <2> QED
    BY <2>1, <2>2
<1> QED
  BY <1>1, <1>2, <1>3, <1>4

(* What a reload leaves each layout.                                       *)
LEMMA ReloadReads ==
  ASSUME StoreTypeOK, ReloadFiles, DrawsHeld
  PROVE  /\ library' \in [Layouts -> Content] /\ active' \in AnyLayout
         /\ seen' \in [Layouts -> Content] /\ DrawsHeld'
         /\ \A l \in Rewritten : library'[l] = file[l] /\ seen'[l] = file[l] /\ file[l] # Absent
         /\ \A l \in Vanished : seen'[l] = Absent
         /\ \A l \in Layouts : l \notin Rewritten \cup Vanished =>
              /\ library[l] # Absent => library'[l] = library[l] /\ seen'[l] = seen[l]
              /\ library[l] = Absent => seen'[l] = Absent \/ (seen'[l] = seen[l] /\ library'[l] = Absent)
<1> DEFINE R == Read(library)
<1>1. Rewritten \subseteq Layouts /\ Vanished \subseteq Layouts
  BY DEF Rewritten, Vanished
<1>2. \A l \in Rewritten : file[l] \in Texts /\ file[l] # Absent
  BY LayoutAssumption DEF Rewritten
<1>3. /\ \A l \in Rewritten : R[l] = file[l] /\ Read(seen)[l] = file[l]
      /\ \A l \in Vanished : R[l] = Absent /\ Read(seen)[l] = Absent
      /\ \A l \in Layouts : l \notin Rewritten \cup Vanished =>
           R[l] = library[l] /\ Read(seen)[l] = seen[l]
  <2>1. \A l \in Vanished : l \notin Rewritten
    BY <1>2 DEF Vanished
  <2> QED
    BY <1>1, <2>1 DEF Read
<1>4. R \in [Layouts -> Content] /\ Read(seen) \in [Layouts -> Content]
  BY <1>2 DEF Read, StoreTypeOK, Content
<1>5. Stands \in AnyLayout /\ (Stands = BuiltIn \/ R[Stands] # Absent)
  BY DEF Stands, StoreTypeOK, AnyLayout
<1>6. good \in [Layouts -> Sound \cup {Absent}] /\ chosen \in AnyLayout \cup {Absent}
  BY DEF StoreTypeOK
<1> HIDE DEF R
<1>7. /\ Rescued(R) \in [Layouts -> Content]
      /\ \A l \in Layouts : R[l] # Absent => Rescued(R)[l] = R[l]
      /\ Selected(R, Stands) \in AnyLayout
      /\ Selected(R, Stands) = BuiltIn \/ Rescued(R)[Selected(R, Stands)] # Absent
  BY <1>4, <1>5, <1>6, SelectedHeld
<1>8. /\ library' = Rescued(R) /\ active' = Selected(R, Stands)
      /\ seen' = [l \in Layouts |-> IF library'[l] # R[l] THEN Absent ELSE Read(seen)[l]]
  BY DEF ReloadFiles, R
<1>9. library' \in [Layouts -> Content] /\ active' \in AnyLayout /\ DrawsHeld'
  BY <1>7, <1>8 DEF DrawsHeld
<1>10. seen' \in [Layouts -> Content]
  BY <1>4, <1>8 DEF Content
<1>11. \A l \in Layouts : seen'[l] = IF library'[l] # R[l] THEN Absent ELSE Read(seen)[l]
  BY <1>8
<1>12. \A l \in Layouts : R[l] # Absent => library'[l] = R[l]
  BY <1>7, <1>8
<1>13. \A l \in Rewritten : library'[l] = file[l] /\ seen'[l] = file[l] /\ file[l] # Absent
  BY <1>1, <1>2, <1>3, <1>11, <1>12
<1>14. \A l \in Vanished : seen'[l] = Absent
  BY <1>1, <1>3, <1>11
<1>15. \A l \in Layouts : l \notin Rewritten \cup Vanished =>
         /\ library[l] # Absent => library'[l] = library[l] /\ seen'[l] = seen[l]
         /\ library[l] = Absent => seen'[l] = Absent \/ (seen'[l] = seen[l] /\ library'[l] = Absent)
  BY <1>3, <1>11, <1>12
<1> QED
  BY <1>9, <1>10, <1>13, <1>14, <1>15

LEMMA ReloadKeepsInv ==
  ASSUME StoreInv, ReloadFiles
  PROVE  StoreInv'
<1>1. StoreTypeOK /\ DrawsHeld
  BY DEF StoreInv
<1>2. /\ dirty' = dirty \ Rewritten
      /\ unwritten' = unwritten \ (Rewritten \cup Vanished)
      /\ Forget(Rewritten \cup Vanished) /\ Redraws(edit)
      /\ UNCHANGED <<acts, file, chosen, record, safe, timerVars>>
  BY DEF ReloadFiles
<1>3. /\ library' \in [Layouts -> Content] /\ active' \in AnyLayout
      /\ seen' \in [Layouts -> Content] /\ DrawsHeld'
      /\ \A l \in Rewritten : library'[l] = file[l] /\ seen'[l] = file[l] /\ file[l] # Absent
      /\ \A l \in Vanished : seen'[l] = Absent
      /\ \A l \in Layouts : l \notin Rewritten \cup Vanished =>
           /\ library[l] # Absent => library'[l] = library[l] /\ seen'[l] = seen[l]
           /\ library[l] = Absent => seen'[l] = Absent \/ (seen'[l] = seen[l] /\ library'[l] = Absent)
  BY <1>1, ReloadReads
<1>4. /\ done' \in Seq(Entry) /\ Upheld(done', library')
      /\ undone' \in Seq(Entry) /\ Upheld(undone', library')
  <2>1. \A l \in Layouts : l \notin Rewritten \cup Vanished /\ library[l] # Absent
          => library'[l] = library[l]
    BY <1>3
  <2> QED
    BY <1>2, <2>1, ForgottenUpheld
<1>5. DirtyIsHeld'
  <2> SUFFICES ASSUME NEW l \in dirty, l \notin Rewritten
               PROVE  library'[l] # Absent
    BY <1>2 DEF DirtyIsHeld
  <2>1. l \in Layouts /\ library[l] # Absent /\ l \notin Vanished
    BY DEF StoreInv, StoreTypeOK, DirtyIsHeld, Vanished
  <2> QED
    BY <1>3, <2>1
<1>6. /\ good' \in [Layouts -> Sound \cup {Absent}]
      /\ display' \in Showing /\ edit' \in Showing \cup {Absent} /\ halfway' = FALSE
      /\ InStep'
  <2>1. edit \in Showing \cup {Absent} /\ good \in [Layouts -> Sound \cup {Absent}]
    BY <1>1 DEF StoreTypeOK
  <2> QED
    BY <1>2, <1>3, <2>1, Redrawn
<1>7. StoreTypeOK'
  <2>1. dirty' \subseteq Layouts /\ unwritten' \subseteq Layouts
    BY <1>1, <1>2 DEF StoreTypeOK
  <2>2. acts' = acts /\ file' = file /\ chosen' = chosen /\ record' = record /\ safe' = safe
        /\ waiting' = waiting /\ recent' = recent
    BY <1>2 DEF timerVars
  <2> QED
    BY <1>1, <1>3, <1>4, <1>6, <2>1, <2>2 DEF StoreTypeOK
<1>8. NoneForgotten'
  <2> SUFFICES ASSUME NEW l \in Layouts, l \notin dirty', l \notin unwritten'
               PROVE  seen'[l] \in {Absent, library'[l]}
    BY DEF NoneForgotten
  <2>1. CASE l \in Rewritten
    BY <1>3, <2>1
  <2>2. CASE l \in Vanished
    BY <1>3, <2>2
  <2>3. CASE l \notin Rewritten \cup Vanished
    <3>1. seen[l] \in {Absent, library[l]}
      BY <1>2, <2>3 DEF StoreInv, NoneForgotten
    <3> QED
      BY <1>3, <2>3, <3>1
  <2> QED
    BY <2>1, <2>2, <2>3
<1>9. TimerRuns'
  BY <1>2 DEF StoreInv, TimerRuns, timerVars
<1>10. SeenIsHeld'
  <2> SUFFICES ASSUME NEW l \in Layouts, seen'[l] # Absent
               PROVE  library'[l] # Absent
    BY DEF SeenIsHeld
  <2>1. CASE l \in Rewritten
    BY <1>3, <2>1
  <2>2. CASE l \in Vanished
    BY <1>3, <2>2
  <2>3. CASE l \notin Rewritten \cup Vanished
    <3>1. seen[l] # Absent => library[l] # Absent
      BY DEF StoreInv, SeenIsHeld
    <3> QED
      BY <1>3, <2>3, <3>1
  <2> QED
    BY <2>1, <2>2, <2>3
<1> QED
  BY <1>3, <1>4, <1>5, <1>6, <1>7, <1>8, <1>9, <1>10 DEF StoreInv

(* "A reload keeps whatever the files do not contradict".                  *)
LEMMA ReloadOutlasts ==
  ASSUME StoreInv
  PROVE  EditsOutlast
<1> SUFFICES ASSUME ReloadFiles, NEW l \in Layouts,
                    seen[l] # Absent, file[l] \in {seen[l], Broken}
             PROVE  /\ library'[l] = library[l] /\ (l \in dirty' <=> l \in dirty)
                    /\ History(l, done') = History(l, done)
                    /\ History(l, undone') = History(l, undone)
  BY DEF EditsOutlast
<1>1. StoreTypeOK /\ DrawsHeld /\ library[l] # Absent
  BY DEF StoreInv, SeenIsHeld
<1>2. l \notin Rewritten \cup Vanished
  BY LayoutAssumption DEF Rewritten, Vanished
<1>3. library'[l] = library[l]
  BY <1>1, <1>2, ReloadReads
<1>4. l \in dirty' <=> l \in dirty
  BY <1>2 DEF ReloadFiles
<1>5. /\ done' = Picked(done, {i \in DOMAIN done : done[i].layout \notin Rewritten \cup Vanished})
      /\ undone' = Picked(undone, {i \in DOMAIN undone :
                                     undone[i].layout \notin Rewritten \cup Vanished})
  BY DEF ReloadFiles, Forget
<1>6. done \in Seq(Entry) /\ undone \in Seq(Entry)
  BY <1>1 DEF StoreTypeOK
<1>7. History(l, done') = History(l, done) /\ History(l, undone') = History(l, undone)
  BY <1>2, <1>5, <1>6, HistoryKept
<1> QED
  BY <1>3, <1>4, <1>7

LEMMA ImportKeeps ==
  ASSUME StoreInv, Import
  PROVE  StoreInv'
<1>1. StoreTypeOK /\ acts' \in 0 .. MaxActs
  BY ActsType DEF StoreInv, Import
<1>2. PICK brought \in [Shared -> Sound], wrote \in SUBSET Shared, whole \in BOOLEAN :
        LET put == [l \in Layouts |-> IF l \in wrote THEN brought[l] ELSE library[l]]
        IN  /\ library' = put
            /\ file' = [l \in Layouts |-> IF l \in wrote THEN put[l] ELSE file[l]]
            /\ seen' = [l \in Layouts |-> IF l \in wrote THEN put[l] ELSE seen[l]]
            /\ record' = [l \in Shared |-> IF l \in wrote THEN put[l] ELSE record[l]]
            /\ dirty' = dirty \ wrote /\ unwritten' = unwritten \ wrote
            /\ active' = active
            /\ IF whole THEN Redraws(edit) /\ Arms
               ELSE /\ halfway' = TRUE /\ recent' = waiting
                    /\ UNCHANGED <<good, waiting, display, edit>>
  BY DEF Import
<1> DEFINE put == [l \in Layouts |-> IF l \in wrote THEN brought[l] ELSE library[l]]
<1>3. wrote \subseteq Shared /\ Shared \subseteq Layouts
      /\ \A l \in wrote : brought[l] \in Texts /\ brought[l] # Absent
  BY LayoutAssumption
<1>4. put \in [Layouts -> Content]
      /\ \A l \in Layouts : put[l] = IF l \in wrote THEN brought[l] ELSE library[l]
  BY <1>1, <1>3 DEF StoreTypeOK, Content
<1>5. library' = put /\ library' \in [Layouts -> Content]
  BY <1>2, <1>4
<1>6. file' \in [Layouts -> Content \cup {Broken}]
  BY <1>1, <1>2, <1>4 DEF StoreTypeOK
<1>7. seen' \in [Layouts -> Content] /\ record' \in [Shared -> Content]
  BY <1>1, <1>2, <1>3, <1>4 DEF StoreTypeOK
<1>8. /\ done' \in Seq(Entry) /\ Upheld(done', library')
      /\ undone' \in Seq(Entry) /\ Upheld(undone', library')
  <2>1. Forget(Shared)
    BY DEF Import
  <2>2. \A l \in Layouts : l \notin Shared /\ library[l] # Absent => library'[l] = library[l]
    BY <1>3, <1>4, <1>5
  <2> QED
    BY <2>1, <2>2, ForgottenUpheld
<1>9. /\ active' = active /\ dirty' = dirty \ wrote /\ unwritten' = unwritten \ wrote
      /\ chosen' = chosen /\ safe' = safe
      /\ seen' = [l \in Layouts |-> IF l \in wrote THEN put[l] ELSE seen[l]]
  BY <1>2 DEF Import
<1>10. \A l \in Layouts :
         /\ library'[l] = IF l \in wrote THEN brought[l] ELSE library[l]
         /\ seen'[l] = IF l \in wrote THEN brought[l] ELSE seen[l]
  BY <1>4, <1>5, <1>9
<1>11. \A l \in Layouts : library[l] # Absent => library'[l] # Absent
  BY <1>3, <1>10
<1>12. DrawsHeld' /\ active' \in AnyLayout
  <2>1. active = BuiltIn \/ (active \in Layouts /\ library[active] # Absent)
    BY <1>1 DEF StoreInv, DrawsHeld, StoreTypeOK, AnyLayout
  <2> QED
    BY <1>1, <1>9, <1>11, <2>1 DEF DrawsHeld, StoreTypeOK
<1>13. DirtyIsHeld'
  <2>1. \A l \in dirty : l \in Layouts /\ library[l] # Absent
    BY <1>1 DEF StoreInv, DirtyIsHeld, StoreTypeOK
  <2> QED
    BY <1>9, <1>11, <2>1 DEF DirtyIsHeld
<1>14. SeenIsHeld' /\ NoneForgotten'
  <2>1. \A l \in Layouts : seen[l] # Absent => library[l] # Absent
    BY DEF StoreInv, SeenIsHeld
  <2>2. \A l \in Layouts : l \in dirty \cup unwritten \/ seen[l] \in {Absent, library[l]}
    BY DEF StoreInv, NoneForgotten
  <2>3. \A l \in Layouts : seen'[l] # Absent => library'[l] # Absent
    BY <1>3, <1>10, <2>1
  <2>4. \A l \in Layouts : l \in dirty' \cup unwritten' \/ seen'[l] \in {Absent, library'[l]}
    BY <1>9, <1>10, <2>2
  <2> QED
    BY <2>3, <2>4 DEF SeenIsHeld, NoneForgotten
<1>15. /\ good' \in [Layouts -> Sound \cup {Absent}]
       /\ display' \in Showing /\ edit' \in Showing \cup {Absent} /\ halfway' \in BOOLEAN
       /\ waiting' \in BOOLEAN /\ recent' \in BOOLEAN
       /\ InStep' /\ TimerRuns'
  <2>1. /\ good \in [Layouts -> Sound \cup {Absent}] /\ display \in Showing
        /\ edit \in Showing \cup {Absent} /\ waiting \in BOOLEAN
        /\ (dirty # {} => waiting)
    BY <1>1 DEF StoreInv, StoreTypeOK, TimerRuns
  <2>2. CASE whole
    <3>1. Redraws(edit) /\ waiting' = TRUE /\ recent' = waiting
      BY <1>2, <2>2 DEF Arms
    <3>2. /\ good' \in [Layouts -> Sound \cup {Absent}]
          /\ display' \in Showing /\ edit' \in Showing \cup {Absent} /\ halfway' = FALSE
          /\ InStep'
      BY <1>5, <1>12, <2>1, <3>1, Redrawn
    <3> QED
      BY <2>1, <3>1, <3>2 DEF TimerRuns
  <2>3. CASE ~whole
    <3>1. halfway' = TRUE /\ recent' = waiting /\ good' = good /\ waiting' = waiting
          /\ display' = display /\ edit' = edit
      BY <1>2, <2>3
    <3> QED
      BY <1>9, <2>1, <3>1 DEF TimerRuns, InStep
  <2> QED
    BY <2>2, <2>3
<1>16. StoreTypeOK'
  <2>1. dirty' \subseteq Layouts /\ unwritten' \subseteq Layouts
    BY <1>1, <1>9 DEF StoreTypeOK
  <2>2. chosen' \in AnyLayout \cup {Absent} /\ safe' \in BOOLEAN
    BY <1>1, <1>9 DEF StoreTypeOK
  <2> QED
    BY <1>1, <1>5, <1>6, <1>7, <1>8, <1>12, <1>15, <2>1, <2>2 DEF StoreTypeOK
<1> QED
  BY <1>8, <1>12, <1>13, <1>14, <1>15, <1>16 DEF StoreInv

(* What is loaded from the files, or the built-in layout alone.            *)
LEMMA AfterLoads ==
  ASSUME StoreTypeOK, NEW files \in [Layouts -> Content \cup {Broken}],
         safe' \in BOOLEAN, LoadsFiles(files)
  PROVE  /\ library' \in [Layouts -> Content] /\ active' \in AnyLayout
         /\ seen' \in [Layouts -> Content] /\ DrawsHeld' /\ SeenIsHeld'
         /\ \A l \in Layouts : seen'[l] \in {Absent, library'[l]}
<1> DEFINE D == OnDisk(files)
<1>1. D \in [Layouts -> Content]
  BY DEF OnDisk, Content
<1>2. CASE safe'
  <2>1. library' = [l \in Layouts |-> Absent] /\ active' = BuiltIn
        /\ seen' = [l \in Layouts |-> Absent]
    BY <1>2 DEF LoadsFiles
  <2> QED
    BY <2>1 DEF Content, AnyLayout, DrawsHeld, SeenIsHeld
<1>3. CASE ~safe'
  <2>1. library' = Rescued(D) /\ active' = Selected(D, BuiltIn) /\ seen' = D
    BY <1>3 DEF LoadsFiles
  <2>2. good \in [Layouts -> Sound \cup {Absent}] /\ chosen \in AnyLayout \cup {Absent}
        /\ BuiltIn \in AnyLayout
    BY DEF StoreTypeOK, AnyLayout
  <2> HIDE DEF D
  <2>3. /\ Rescued(D) \in [Layouts -> Content]
        /\ \A l \in Layouts : D[l] # Absent => Rescued(D)[l] = D[l]
        /\ Selected(D, BuiltIn) \in AnyLayout
        /\ Selected(D, BuiltIn) = BuiltIn \/ Rescued(D)[Selected(D, BuiltIn)] # Absent
    BY <1>1, <2>2, SelectedHeld
  <2> QED
    BY <1>1, <2>1, <2>3 DEF DrawsHeld, SeenIsHeld
<1> QED
  BY <1>2, <1>3

LEMMA RestartKeeps ==
  ASSUME StoreInv, Restart
  PROVE  StoreInv'
<1>1. StoreTypeOK /\ acts' \in 0 .. MaxActs
  BY ActsType DEF StoreInv, Restart
<1>2. /\ safe' \in {FALSE, MayBeSafe} /\ LoadsFiles(file')
      /\ done' = <<>> /\ undone' = <<>> /\ dirty' = {} /\ unwritten' = {}
      /\ waiting' = FALSE /\ recent' = FALSE
      /\ Redraws(Absent) /\ chosen' = chosen /\ record' = record
  BY DEF Restart
<1>3. safe' \in BOOLEAN
  BY <1>2, LayoutAssumption
<1>4. file' \in [Layouts -> Content \cup {Broken}]
  <2>1. PICK wrote \in SUBSET dirty :
          file' = [l \in Layouts |-> IF l \in wrote THEN library[l] ELSE file[l]]
    BY DEF Restart
  <2> QED
    BY <1>1, <2>1 DEF StoreTypeOK
<1>5. /\ library' \in [Layouts -> Content] /\ active' \in AnyLayout
      /\ seen' \in [Layouts -> Content] /\ DrawsHeld' /\ SeenIsHeld'
      /\ \A l \in Layouts : seen'[l] \in {Absent, library'[l]}
  BY <1>1, <1>2, <1>3, <1>4, AfterLoads
<1>6. /\ done' \in Seq(Entry) /\ Upheld(done', library')
      /\ undone' \in Seq(Entry) /\ Upheld(undone', library')
  <2>1. <<>> \in Seq(Entry) /\ DOMAIN <<>> = {}
    OBVIOUS
  <2> QED
    BY <1>2, <2>1 DEF Upheld, AppliesOn
<1>7. /\ good' \in [Layouts -> Sound \cup {Absent}]
      /\ display' \in Showing /\ edit' \in Showing \cup {Absent} /\ halfway' = FALSE
      /\ InStep'
  <2>1. good \in [Layouts -> Sound \cup {Absent}]
    BY <1>1 DEF StoreTypeOK
  <2> QED
    BY <1>2, <1>5, <2>1, Redrawn
<1>8. StoreTypeOK'
  BY <1>1, <1>2, <1>3, <1>4, <1>5, <1>6, <1>7 DEF StoreTypeOK
<1>9. NoneForgotten' /\ TimerRuns' /\ DirtyIsHeld'
  BY <1>2, <1>5 DEF NoneForgotten, TimerRuns, DirtyIsHeld
<1> QED
  BY <1>5, <1>6, <1>7, <1>8, <1>9 DEF StoreInv

LEMMA StoreStarts ==
  ASSUME StoreInit
  PROVE  StoreInv
<1>1. /\ acts = 0 /\ safe = FALSE /\ done = <<>> /\ undone = <<>> /\ dirty = {}
      /\ unwritten = {} /\ waiting = FALSE /\ recent = FALSE /\ edit = Absent
      /\ halfway = FALSE /\ library = file /\ seen = file
      /\ file \in [Layouts -> {Absent} \cup Sound] /\ chosen \in {Absent} \cup Layouts
      /\ good = [l \in Layouts |-> Absent] /\ record = [l \in Shared |-> Absent]
      /\ active = IF chosen \in Layouts /\ library[chosen] # Absent THEN chosen ELSE BuiltIn
      /\ display = Shown(active, library)
  BY DEF StoreInit
<1>2. library \in [Layouts -> Content] /\ file \in [Layouts -> Content \cup {Broken}]
  BY <1>1, LayoutAssumption DEF Content
<1>3. active \in AnyLayout /\ DrawsHeld
  BY <1>1 DEF AnyLayout, DrawsHeld
<1>4. display \in Showing
  BY <1>1, <1>2, <1>3, ShownType DEF DrawsHeld
<1>5. <<>> \in Seq(Entry) /\ DOMAIN <<>> = {}
  OBVIOUS
<1>6. acts \in 0 .. MaxActs
  BY <1>1, LayoutAssumption
<1>7. StoreTypeOK
  BY <1>1, <1>2, <1>3, <1>4, <1>5, <1>6 DEF StoreTypeOK, AnyLayout, Content
<1>8. Upheld(done, library) /\ Upheld(undone, library)
  BY <1>1, <1>5 DEF Upheld, AppliesOn
<1>9. InStep /\ NoneForgotten /\ TimerRuns /\ DirtyIsHeld /\ SeenIsHeld
  BY <1>1, <1>2 DEF InStep, NoneForgotten, TimerRuns, DirtyIsHeld, SeenIsHeld
<1> QED
  BY <1>3, <1>7, <1>8, <1>9 DEF StoreInv

LEMMA StoreNextKeeps ==
  ASSUME StoreInv, [StoreNext]_storeVars
  PROVE  StoreInv'
<1>1. CASE StoreNext
  BY <1>1, ScriptKeeps, BeginKeeps, DecideKeeps, RevertKeeps, UndoKeeps, RedoKeeps, StartKeeps,
     ReloadKeepsInv, UseKeeps, OutsideKeeps, SettledKeeps, ImportKeeps, RestartKeeps
  DEF StoreNext
<1>2. CASE UNCHANGED storeVars
  <2>1. UNCHANGED <<acts, file, stateVars, safe, library, active, historyVars, dirty, seen,
                    timerVars, screenVars, unwritten>>
    BY <1>2 DEF storeVars
  <2>2. StoreTypeOK'
    BY <2>1 DEF StoreInv, StoreTypeOK, stateVars, historyVars, timerVars, screenVars
  <2>3. InStep' /\ NoneForgotten' /\ TimerRuns'
    BY <2>1 DEF StoreInv, InStep, NoneForgotten, TimerRuns, timerVars, screenVars
  <2> QED
    BY <2>1, <2>2, <2>3, LeftAlone
<1> QED
  BY <1>1, <1>2

(* The store, its history, the screen, the files as it knows them and its  *)
(* timer agree in every state, however many layouts there are and however  *)
(* they are edited, undone, imported, rewritten or restarted.              *)
THEOREM StoreHonestAlways == StoreSpec => []StoreHonest
<1>1. StoreInv => StoreHonest
  BY DEF StoreInv, StoreHonest, HistoryApplies, Upheld
<1> QED
  BY <1>1, StoreStarts, StoreNextKeeps, PTL DEF StoreSpec

(* The store's variables keep their types.                                 *)
THEOREM StoreTyped == StoreSpec => []StoreTypeOK
<1>1. StoreInv => StoreTypeOK
  BY DEF StoreInv
<1> QED
  BY <1>1, StoreStarts, StoreNextKeeps, PTL DEF StoreSpec

(* A reload leaves what the files do not contradict its text, its place in *)
(* the flush and its history.                                              *)
THEOREM EditsOutlastAlways == StoreSpec => [][EditsOutlast]_storeVars
BY StoreStarts, StoreNextKeeps, ReloadOutlasts, PTL DEF StoreSpec
=============================================================================
