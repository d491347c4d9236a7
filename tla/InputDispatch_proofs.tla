------------------------- MODULE InputDispatch_proofs -------------------------
(***************************************************************************)
(* Proofs about pixel input, for any platforms, sessions and number of     *)
(* failing calls.                                                          *)
(***************************************************************************)
EXTENDS InputDispatch, Integers, TLAPS, SequenceTheorems

Events == [press : BOOLEAN, of : Inputs]
Notes  == {"none", "add", "drop", "hold", "forget"}

\* The batches plans are made of.  What a session forgets was lifted.
Batches ==
  {b \in [events : Seq(Events), undo : Seq(Inputs), note : Notes, of : Inputs \union {"none"}] :
     /\ b.note = "add" => b.of \in Inputs
     /\ b.note \in {"drop", "hold", "forget"} => b.of \in LiftedBy(b.events)}

Undone(b) == {b.undo[i] : i \in 1..Len(b.undo)}

\* From its i-th batch on a sequence lifts x, or leaves it to those who release
\* the inputs in later; on Windows, a batch that fails before lifts it too.
Released(seq, i, x, later) ==
  \E k \in i..Len(seq) + 1 :
    /\ IF k = Len(seq) + 1 THEN x \in later ELSE x \in LiftedBy(seq[k].events)
    /\ os = "windows" => \A j \in i..k - 1 : x \in Undone(seq[j])

\* What a batch of the sequence leaves down is remembered or released.
Kept(seq, later) ==
  \A i \in 1..Len(seq) : \A x \in LeftDown(seq[i].events) :
    \/ seq[i].note = "add" /\ seq[i].of = x
    \/ Released(seq, i + 1, x, later)

\* The inputs the end of an action lifts, whatever fails.
Lifts(close) == UNION {LiftedBy(close[i].events) : i \in 1..Len(close)}

PlanOK(d) ==
  /\ d.open \in Seq(Batches) /\ d.body \in Seq(Batches) /\ d.close \in Seq(Batches)
  /\ Kept(d.open, Lifts(d.close)) /\ Kept(d.body, {})
  /\ \A i \in 1..Len(d.close) : LeftDown(d.close[i].events) = {}

\* Something is left to do.
Busy(d) == d.open # <<>> \/ d.body # <<>> \/ d.close # <<>>

Ready(d) == PlanOK(d) /\ Busy(d)

\* The rest of an action lifts x.
Cared(d, x) ==
  IF d.open # <<>>
    THEN Released(d.open, 1, x, Lifts(d.close))
    ELSE x \in Lifts(d.close) \/ Released(d.body, 1, x, {})

Accounted(p, x) ==
  (\E s \in InputSessions : x \in tracked[s]) \/ (p = doing.to /\ Cared(doing, x))

\* What the sequences of an action are.
Doings ==
  [by : InputSessions \union {"nobody"}, to : Places,
   open : Seq(Batches), body : Seq(Batches), close : Seq(Batches)]

InputInv ==
  /\ InputTypeOK
  /\ doing \in Doings /\ PlanOK(doing) /\ (doing = Nothing \/ Busy(doing))
  /\ os = "windows" \/ faults = 0 =>
       \A p \in Places : \A x \in down[p] \ lost[p] : Accounted(p, x)

-----------------------------------------------------------------------------
(* Sequences of batches.                                                   *)

\* The first batch of a sequence, seen from after it.
LEMMA ReleasedTail ==
  ASSUME NEW seq \in Seq(Batches), seq # <<>>, NEW i \in Nat \ {0}, NEW x, NEW later
  PROVE  Released(Tail(seq), i, x, later) <=> Released(seq, i + 1, x, later)
<1>1. /\ Len(Tail(seq)) = Len(seq) - 1 /\ Len(seq) \in Nat \ {0}
      /\ \A j \in 1..Len(seq) - 1 : Tail(seq)[j] = seq[j + 1]
  OBVIOUS
<1>2. ASSUME Released(Tail(seq), i, x, later) PROVE Released(seq, i + 1, x, later)
  <2>1. PICK k \in i..Len(seq) :
          /\ IF k = Len(seq) THEN x \in later ELSE x \in LiftedBy(seq[k + 1].events)
          /\ os = "windows" => \A j \in i..k - 1 : x \in Undone(seq[j + 1])
    <3>1. PICK k \in i..Len(Tail(seq)) + 1 :
            /\ IF k = Len(Tail(seq)) + 1 THEN x \in later ELSE x \in LiftedBy(Tail(seq)[k].events)
            /\ os = "windows" => \A j \in i..k - 1 : x \in Undone(Tail(seq)[j])
      BY <1>2 DEF Released
    <3>2. /\ k \in i..Len(seq) /\ (k = Len(Tail(seq)) + 1 <=> k = Len(seq))
          /\ k # Len(seq) => Tail(seq)[k] = seq[k + 1]
      <4>1. /\ k \in Int /\ i \in Int /\ i >= 1 /\ Len(seq) \in Int /\ Len(Tail(seq)) = Len(seq) - 1
            /\ i <= k /\ k <= Len(Tail(seq)) + 1
        BY <1>1
      <4>2. /\ k \in i..Len(seq) /\ (k = Len(Tail(seq)) + 1 <=> k = Len(seq))
            /\ k # Len(seq) => k \in 1..Len(seq) - 1
        BY ONLY <4>1
      <4> QED BY <1>1, <4>2
    <3>3. \A j \in i..k - 1 : Tail(seq)[j] = seq[j + 1]
      <4>1. /\ k \in Int /\ i \in Int /\ i >= 1 /\ Len(seq) \in Int /\ Len(Tail(seq)) = Len(seq) - 1
            /\ k <= Len(Tail(seq)) + 1
        BY <1>1
      <4>2. \A j \in i..k - 1 : j \in 1..Len(seq) - 1
        BY ONLY <4>1
      <4> QED BY <1>1, <4>2
    <3> QED BY <3>1, <3>2, <3>3
  <2>2. os = "windows" => \A j \in i + 1..(k + 1) - 1 : x \in Undone(seq[j])
    <3>1. \A j \in i + 1..(k + 1) - 1 : j - 1 \in i..k - 1 /\ (j - 1) + 1 = j
      BY <1>1
    <3> QED BY <2>1, <3>1
  <2>3. /\ k + 1 \in i + 1..Len(seq) + 1
        /\ k + 1 = Len(seq) + 1 <=> k = Len(seq)
    <3>1. k \in Int /\ i \in Int /\ Len(seq) \in Int /\ i <= k /\ k <= Len(seq)
      BY <1>1
    <3> QED BY ONLY <3>1
  <2> QED BY <2>1, <2>2, <2>3 DEF Released
<1>3. ASSUME Released(seq, i + 1, x, later) PROVE Released(Tail(seq), i, x, later)
  <2>1. PICK k \in i + 1..Len(seq) + 1 :
          /\ IF k = Len(seq) + 1 THEN x \in later ELSE x \in LiftedBy(seq[k].events)
          /\ os = "windows" => \A j \in i + 1..k - 1 : x \in Undone(seq[j])
    BY <1>3 DEF Released
  <2>2. /\ k - 1 \in i..Len(Tail(seq)) + 1
        /\ k - 1 = Len(Tail(seq)) + 1 <=> k = Len(seq) + 1
        /\ k # Len(seq) + 1 => Tail(seq)[k - 1] = seq[k]
    BY <1>1
  <2>3. os = "windows" => \A j \in i..(k - 1) - 1 : x \in Undone(Tail(seq)[j])
    <3>1. \A j \in i..(k - 1) - 1 : j + 1 \in i + 1..k - 1 /\ Tail(seq)[j] = seq[j + 1]
      BY <1>1
    <3> QED BY <2>1, <3>1
  <2> QED BY <2>1, <2>2, <2>3 DEF Released
<1> QED BY <1>2, <1>3

\* Without its first batch a sequence still lifts what the others press.
LEMMA KeptTail ==
  ASSUME NEW seq \in Seq(Batches), seq # <<>>, NEW later, Kept(seq, later)
  PROVE  Tail(seq) \in Seq(Batches) /\ Kept(Tail(seq), later)
<1>1. /\ Len(Tail(seq)) = Len(seq) - 1 /\ Len(seq) \in Nat \ {0}
      /\ \A j \in 1..Len(seq) - 1 : Tail(seq)[j] = seq[j + 1]
      /\ Tail(seq) \in Seq(Batches)
  OBVIOUS
<1>2. ASSUME NEW i \in 1..Len(Tail(seq)), NEW x \in LeftDown(Tail(seq)[i].events)
      PROVE  \/ Tail(seq)[i].note = "add" /\ Tail(seq)[i].of = x
             \/ Released(Tail(seq), i + 1, x, later)
  <2>1. i + 1 \in 1..Len(seq) /\ i + 1 \in Nat \ {0} /\ Tail(seq)[i] = seq[i + 1]
    BY <1>1
  <2>2. \/ seq[i + 1].note = "add" /\ seq[i + 1].of = x
        \/ Released(seq, (i + 1) + 1, x, later)
    BY <2>1 DEF Kept
  <2> QED BY <2>1, <2>2, ReleasedTail
<1> QED BY <1>1, <1>2 DEF Kept

\* What the first batch neither lifts nor undoes.
LEMMA ReleasedBeyond ==
  ASSUME NEW seq \in Seq(Batches), seq # <<>>, NEW x, NEW later, Released(seq, 1, x, later),
         x \notin LiftedBy(seq[1].events)
  PROVE  Released(seq, 2, x, later) /\ (os = "windows" => x \in Undone(seq[1]))
<1>1. PICK k \in 1..Len(seq) + 1 :
        /\ IF k = Len(seq) + 1 THEN x \in later ELSE x \in LiftedBy(seq[k].events)
        /\ os = "windows" => \A j \in 1..k - 1 : x \in Undone(seq[j])
  BY DEF Released
<1>2. Len(seq) \in Nat \ {0} /\ k # 1
  BY <1>1
<1>3. k \in 2..Len(seq) + 1 /\ 1 \in 1..k - 1 /\ \A j \in 2..k - 1 : j \in 1..k - 1
  BY <1>2
<1> QED BY <1>1, <1>3 DEF Released

\* Released at the end of the sequence.
LEMMA ReleasedEmpty ==
  ASSUME NEW x, NEW later
  PROVE  Released(<<>>, 1, x, later) <=> x \in later
<1>1. Len(<<>>) + 1 = 1 /\ 1..1 = {1} /\ 1..1 - 1 = {}
  OBVIOUS
<1> QED BY <1>1 DEF Released

\* One sequence after another.
LEMMA KeptConcat ==
  ASSUME NEW s \in Seq(Batches), NEW t \in Seq(Batches), NEW later, Kept(s, {}), Kept(t, later)
  PROVE  s \o t \in Seq(Batches) /\ Kept(s \o t, later)
<1> DEFINE u == s \o t
<1>1. /\ u \in Seq(Batches) /\ Len(u) = Len(s) + Len(t) /\ Len(s) \in Nat /\ Len(t) \in Nat
      /\ \A i \in 1..Len(s) : u[i] = s[i]
      /\ \A i \in 1..Len(t) : u[i + Len(s)] = t[i]
  OBVIOUS
<1> HIDE DEF u
<1>2. ASSUME NEW i \in 1..Len(u), NEW x \in LeftDown(u[i].events),
             ~(u[i].note = "add" /\ u[i].of = x)
      PROVE  Released(u, i + 1, x, later)
  <2>1. CASE i <= Len(s)
    <3>1. i \in 1..Len(s) /\ u[i] = s[i]
      BY <1>1, <2>1
    <3>2. Released(s, i + 1, x, {})
      BY <3>1, <1>2 DEF Kept
    <3>3. PICK k \in i + 1..Len(s) + 1 :
            /\ IF k = Len(s) + 1 THEN x \in {} ELSE x \in LiftedBy(s[k].events)
            /\ os = "windows" => \A j \in i + 1..k - 1 : x \in Undone(s[j])
      BY <3>2 DEF Released
    <3>4. /\ k \in 1..Len(s) /\ k \in i + 1..Len(u) + 1 /\ k # Len(u) + 1 /\ u[k] = s[k]
          /\ \A j \in i + 1..k - 1 : u[j] = s[j]
      <4>1. k # Len(s) + 1
        BY <3>3
      <4>2. k \in 1..Len(s) /\ k \in i + 1..Len(u) + 1 /\ k # Len(u) + 1
        <5>1. /\ k \in Int /\ i \in Int /\ i >= 1 /\ Len(s) \in Nat /\ Len(t) \in Nat
              /\ Len(u) = Len(s) + Len(t) /\ i + 1 <= k /\ k <= Len(s) + 1
          BY <1>1, <3>1
        <5> QED BY ONLY <5>1, <4>1
      <4>3. \A j \in i + 1..k - 1 : j \in 1..Len(s)
        BY <1>1, <3>1, <4>2
      <4> QED BY <1>1, <4>2, <4>3
    <3>5. x \in LiftedBy(u[k].events)
      BY <3>3, <3>4, <1>1
    <3> QED BY <3>3, <3>4, <3>5 DEF Released
  <2>2. CASE i > Len(s)
    <3> DEFINE n == Len(s)
    <3>1. i - n \in 1..Len(t) /\ (i - n) + n = i
      BY <1>1, <2>2
    <3>2. u[i] = t[i - n]
      BY <1>1, <3>1
    <3>3. Released(t, (i - n) + 1, x, later)
      BY <3>1, <3>2, <1>2 DEF Kept
    <3>4. PICK k \in (i - n) + 1..Len(t) + 1 :
            /\ IF k = Len(t) + 1 THEN x \in later ELSE x \in LiftedBy(t[k].events)
            /\ os = "windows" => \A j \in (i - n) + 1..k - 1 : x \in Undone(t[j])
      BY <3>3 DEF Released
    <3>5. /\ k + n \in i + 1..Len(u) + 1 /\ (k + n = Len(u) + 1 <=> k = Len(t) + 1)
          /\ k # Len(t) + 1 => u[k + n] = t[k]
      <4>1. /\ k \in Int /\ i \in Int /\ n \in Nat /\ Len(t) \in Nat /\ Len(u) = n + Len(t)
            /\ (i - n) + 1 <= k /\ k <= Len(t) + 1 /\ i - n >= 1
        BY <1>1, <3>1
      <4>2. /\ k + n \in i + 1..Len(u) + 1 /\ (k + n = Len(u) + 1 <=> k = Len(t) + 1)
            /\ k # Len(t) + 1 => k \in 1..Len(t)
        BY ONLY <4>1
      <4> QED BY <1>1, <4>2
    <3>6. \A j \in i + 1..(k + n) - 1 : j - n \in (i - n) + 1..k - 1 /\ u[j] = t[j - n]
      <4>1. ASSUME NEW j \in i + 1..(k + n) - 1
            PROVE  j - n \in (i - n) + 1..k - 1 /\ j - n \in 1..Len(t) /\ (j - n) + n = j
        BY <1>1, <3>1, <3>4
      <4> QED BY <4>1, <1>1
    <3>7. os = "windows" => \A j \in i + 1..(k + n) - 1 : x \in Undone(u[j])
      BY <3>4, <3>6
    <3>8. IF k + n = Len(u) + 1 THEN x \in later ELSE x \in LiftedBy(u[k + n].events)
      BY <3>4, <3>5
    <3> HIDE DEF n
    <3> QED BY <3>5, <3>7, <3>8 DEF Released
  <2> QED BY <2>1, <2>2, <1>1
<1>3. Kept(u, later)
  BY <1>2 DEF Kept
<1> QED BY <1>1, <1>3 DEF u

-----------------------------------------------------------------------------
(* The batches of the plans.                                               *)

\* A press and a release of one input are two events.
LEMMA EventTypes ==
  ASSUME NEW x \in Inputs
  PROVE  Press(x) \in Events /\ Lift(x) \in Events /\ Press(x) # Lift(x)
BY DEF Press, Lift, Events

\* Nothing is left down by events that lift later what they press.
LEMMA Balanced ==
  ASSUME NEW e \in Seq(Events),
         \A i \in 1..Len(e) : e[i].press => \E j \in i + 1..Len(e) : e[j] = Lift(e[i].of)
  PROVE  LeftDown(e) = {}
<1> SUFFICES ASSUME NEW x \in LeftDown(e) PROVE FALSE
  OBVIOUS
<1>1. PICK i \in 1..Len(e) : e[i] = Press(x) /\ \A j \in i + 1..Len(e) : e[j] # Lift(x)
  BY DEF LeftDown
<1>2. e[i].press /\ e[i].of = x
  BY <1>1 DEF Press
<1> QED BY <1>1, <1>2

\* No events leave nothing down.
LEMMA NoEvents == <<>> \in Seq(Events) /\ LeftDown(<<>>) = {}
<1>1. <<>> \in Seq(Events) /\ 1..Len(<<>>) = {}
  OBVIOUS
<1> QED BY <1>1, Balanced

\* A tap, or two, leaves nothing down.
LEMMA TapEvents ==
  ASSUME NEW x \in Inputs
  PROVE  /\ Tap(x) \in Seq(Events) /\ LeftDown(Tap(x)) = {}
         /\ Tap(x) \o Tap(x) \in Seq(Events) /\ LeftDown(Tap(x) \o Tap(x)) = {}
<1> DEFINE p == Press(x)
           l == Lift(x)
<1>1. p \in Events /\ l \in Events /\ l.press = FALSE /\ p.of = x
  BY EventTypes DEF Press, Lift
<1>2. Tap(x) = <<p, l>> /\ l = Lift(p.of)
  BY <1>1 DEF Tap
<1> HIDE DEF p, l
<1>3. Tap(x) \in Seq(Events) /\ LeftDown(Tap(x)) = {}
  <2>1. <<p, l>> \in Seq(Events) /\ Len(<<p, l>>) = 2 /\ <<p, l>>[1] = p /\ <<p, l>>[2] = l
    BY <1>1
  <2>2. \A i \in 1..2 : i = 1 \/ i = 2
    OBVIOUS
  <2>3. 2 \in 1 + 1..2
    OBVIOUS
  <2> QED BY <1>1, <1>2, <2>1, <2>2, <2>3, Balanced
<1>4. Tap(x) \o Tap(x) \in Seq(Events) /\ LeftDown(Tap(x) \o Tap(x)) = {}
  <2> DEFINE e == Tap(x) \o Tap(x)
  <2>1. e \in Seq(Events) /\ Len(e) = 4 /\ e[1] = p /\ e[2] = l /\ e[3] = p /\ e[4] = l
    BY <1>1, <1>2
  <2> HIDE DEF e
  <2>2. \A i \in 1..4 : i = 1 \/ i = 2 \/ i = 3 \/ i = 4
    OBVIOUS
  <2>3. 2 \in 1 + 1..4 /\ 4 \in 3 + 1..4
    OBVIOUS
  <2>4. LeftDown(e) = {}
    BY <1>1, <1>2, <2>1, <2>2, <2>3, Balanced
  <2> QED BY <2>1, <2>4 DEF e
<1> QED BY <1>3, <1>4

\* A modifier around an input.
LEMMA AroundEvents ==
  ASSUME NEW x \in Inputs
  PROVE  LET e == <<Press("shift"), Press(x), Lift(x), Lift("shift")>>
         IN e \in Seq(Events) /\ LeftDown(e) = {}
<1> DEFINE s == Press("shift")
           p == Press(x)
           l == Lift(x)
           u == Lift("shift")
           e == <<s, p, l, u>>
<1>1. /\ s \in Events /\ p \in Events /\ l \in Events /\ u \in Events
      /\ l.press = FALSE /\ u.press = FALSE /\ l = Lift(p.of) /\ u = Lift(s.of)
  BY EventTypes DEF Press, Lift, Inputs
<1> HIDE DEF s, p, l, u
<1>2. e \in Seq(Events) /\ Len(e) = 4 /\ e[1] = s /\ e[2] = p /\ e[3] = l /\ e[4] = u
  BY <1>1
<1> HIDE DEF e
<1>3. \A i \in 1..4 : i = 1 \/ i = 2 \/ i = 3 \/ i = 4
  OBVIOUS
<1>4. 4 \in 1 + 1..4 /\ 3 \in 2 + 1..4
  OBVIOUS
<1>5. e \in Seq(Events) /\ LeftDown(e) = {}
  BY <1>1, <1>2, <1>3, <1>4, Balanced
<1> QED BY <1>5 DEF e, s, p, l, u

\* One event.
LEMMA OneEvent ==
  ASSUME NEW x \in Inputs
  PROVE  /\ <<Press(x)>> \in Seq(Events) /\ LeftDown(<<Press(x)>>) = {x}
         /\ <<Lift(x)>> \in Seq(Events) /\ LeftDown(<<Lift(x)>>) = {} /\ LiftedBy(<<Lift(x)>>) = {x}
<1>1. Press(x) \in Events /\ Lift(x) \in Events
  BY EventTypes
<1>2. /\ <<Press(x)>> \in Seq(Events) /\ Len(<<Press(x)>>) = 1 /\ <<Press(x)>>[1] = Press(x)
      /\ <<Lift(x)>> \in Seq(Events) /\ Len(<<Lift(x)>>) = 1 /\ <<Lift(x)>>[1] = Lift(x)
  BY <1>1
<1>3. 1..1 = {1} /\ 1 + 1..1 = {}
  OBVIOUS
<1>4. Press(x).press = TRUE /\ Press(x).of = x /\ Lift(x).press = FALSE /\ Lift(x).of = x
  BY DEF Press, Lift
<1>5. LeftDown(<<Lift(x)>>) = {}
  BY <1>2, <1>3, <1>4, Balanced
<1>6. LiftedBy(<<Lift(x)>>) = {x}
  BY <1>2, <1>3, <1>4 DEF LiftedBy
<1>7. PressedBy(<<Press(x)>>) = {x}
  BY <1>2, <1>3, <1>4 DEF PressedBy
<1>8. LeftDown(<<Press(x)>>) = {x}
  BY <1>2, <1>3, <1>7 DEF LeftDown
<1> QED BY <1>2, <1>5, <1>6, <1>8

\* A batch with its undo, as the plans write it.
LEMMA BatchTypes ==
  ASSUME NEW events \in Seq(Events), NEW undo \in Seq(Inputs)
  PROVE  /\ Batch(events, undo) \in Batches
         /\ Batch(events, undo).events = events /\ Batch(events, undo).undo = undo
         /\ Batch(events, undo).note = "none"
BY DEF Batch, Batches, Notes

\* A batch that also changes what the session remembers.
LEMMA NotedTypes ==
  ASSUME NEW events \in Seq(Events), NEW undo \in Seq(Inputs), NEW note \in Notes, NEW x \in Inputs,
         note \in {"drop", "hold", "forget"} => x \in LiftedBy(events)
  PROVE  LET b == Noted(Batch(events, undo), note, x)
         IN /\ b \in Batches /\ b.events = events /\ b.undo = undo
            /\ b.note = note /\ b.of = x
BY DEF Noted, Batch, Batches, Notes

-----------------------------------------------------------------------------
(* The plans.                                                              *)

\* Nothing to do, nothing left down.
LEMMA KeptNone ==
  ASSUME NEW later
  PROVE  <<>> \in Seq(Batches) /\ Kept(<<>>, later)
<1>1. <<>> \in Seq(Batches) /\ 1..Len(<<>>) = {}
  OBVIOUS
<1> QED BY <1>1 DEF Kept

\* One batch, whose presses are remembered or lifted later.
LEMMA KeptOne ==
  ASSUME NEW b \in Batches, NEW later,
         \A x \in LeftDown(b.events) : (b.note = "add" /\ b.of = x) \/ x \in later
  PROVE  <<b>> \in Seq(Batches) /\ Kept(<<b>>, later)
<1>1. <<b>> \in Seq(Batches) /\ Len(<<b>>) = 1 /\ 1..1 = {1} /\ <<b>>[1] = b
  OBVIOUS
<1>2. \A x \in later : Released(<<b>>, 2, x, later)
  <2>1. 2 \in 2..1 + 1 /\ 2..2 - 1 = {}
    OBVIOUS
  <2> QED BY <1>1, <2>1 DEF Released
<1> QED BY <1>1, <1>2 DEF Kept

\* Two batches, the second of which lifts or undoes what the first presses.
LEMMA KeptPair ==
  ASSUME NEW a \in Batches, NEW b \in Batches, NEW later,
         \A x \in LeftDown(a.events) : x \in LiftedBy(b.events) \/ (x \in later /\ x \in Undone(b)),
         \A x \in LeftDown(b.events) : x \in later
  PROVE  <<a, b>> \in Seq(Batches) /\ Kept(<<a, b>>, later)
<1> DEFINE s == <<a, b>>
<1>1. s \in Seq(Batches) /\ Len(s) = 2 /\ s[1] = a /\ s[2] = b
  OBVIOUS
<1> HIDE DEF s
<1>2. \A x \in LiftedBy(b.events) : Released(s, 2, x, later)
  <2>1. 2 \in 2..2 + 1 /\ 2..2 - 1 = {}
    OBVIOUS
  <2> QED BY <1>1, <2>1 DEF Released
<1>3. \A x \in later \intersect Undone(b) : Released(s, 2, x, later)
  <2>1. 3 \in 2..2 + 1 /\ 2..3 - 1 = {2} /\ 3 = 2 + 1
    OBVIOUS
  <2> QED BY <1>1, <2>1 DEF Released
<1>4. \A x \in later : Released(s, 3, x, later)
  <2>1. 3 \in 3..2 + 1 /\ 3..3 - 1 = {} /\ 3 = 2 + 1
    OBVIOUS
  <2> QED BY <1>1, <2>1 DEF Released
<1>5. 1..2 = {1, 2} /\ 1 + 1 = 2 /\ 2 + 1 = 3
  OBVIOUS
<1>6. Kept(s, later)
  BY <1>1, <1>2, <1>3, <1>4, <1>5 DEF Kept
<1> QED BY <1>1, <1>6 DEF s

\* A press, something done meanwhile, and the lift.
LEMMA KeptHeld ==
  ASSUME NEW x \in Inputs, NEW a \in Batches, NEW m \in Batches, NEW l \in Batches,
         LeftDown(a.events) = {x}, LeftDown(m.events) = {}, LeftDown(l.events) = {},
         os = "windows" => x \in Undone(m), x \in LiftedBy(l.events)
  PROVE  <<a, m, l>> \in Seq(Batches) /\ Kept(<<a, m, l>>, {})
<1> DEFINE s == <<a, m, l>>
<1>1. s \in Seq(Batches) /\ Len(s) = 3 /\ s[1] = a /\ s[2] = m /\ s[3] = l
  OBVIOUS
<1> HIDE DEF s
<1>2. Released(s, 2, x, {})
  <2>1. 3 \in 2..3 + 1 /\ 2..3 - 1 = {2} /\ 3 # 3 + 1
    OBVIOUS
  <2> QED BY <1>1, <2>1 DEF Released
<1>3. 1..3 = {1, 2, 3} /\ 1 + 1 = 2
  OBVIOUS
<1>4. Kept(s, {})
  BY <1>1, <1>2, <1>3 DEF Kept
<1> QED BY <1>1, <1>4 DEF s

\* The undo lists of the plans.
LEMMA NoUndo ==
  /\ <<>> \in Seq(Inputs)
  /\ \A x \in Inputs : <<x>> \in Seq(Inputs) /\ \A y \in Inputs : <<x, y>> \in Seq(Inputs)
OBVIOUS

\* A batch that leaves nothing down.
LEMMA KeptQuiet ==
  ASSUME NEW events \in Seq(Events), LeftDown(events) = {}, NEW undo \in Seq(Inputs)
  PROVE  <<Batch(events, undo)>> \in Seq(Batches) /\ Kept(<<Batch(events, undo)>>, {})
BY BatchTypes, KeptOne

\* Moving the pointer presses nothing.
LEMMA KeptMoveTo == MoveTo \in Seq(Batches) /\ Kept(MoveTo, {})
BY NoEvents, NoUndo, KeptQuiet DEF MoveTo, Check

\* An action that only has a body.
LEMMA PlanOfBody ==
  ASSUME NEW b \in Seq(Batches), Kept(b, {}), b # <<>>
  PROVE  Ready(Body(b))
<1>1. 1..Len(<<>>) = {}
  OBVIOUS
<1> QED BY <1>1, KeptNone DEF Ready, Busy, PlanOK, Body, Plan

\* A press that the session remembers.
LEMMA NotedPress ==
  ASSUME NEW x \in Inputs, NEW undo \in Seq(Inputs), NEW later,
         NEW b, b = Noted(Batch(<<Press(x)>>, undo), "add", x)
  PROVE  <<b>> \in Seq(Batches) /\ Kept(<<b>>, later)
<1> DEFINE e == <<Press(x)>>
<1>1. e \in Seq(Events) /\ LeftDown(e) = {x}
  BY OneEvent
<1> HIDE DEF e
<1>2. /\ Noted(Batch(e, undo), "add", x) \in Batches /\ Noted(Batch(e, undo), "add", x).events = e
      /\ Noted(Batch(e, undo), "add", x).note = "add" /\ Noted(Batch(e, undo), "add", x).of = x
  <2>1. "add" \in Notes /\ "add" \notin {"drop", "hold", "forget"}
    BY DEF Notes
  <2> QED BY <1>1, <2>1, NotedTypes
<1>3. b \in Batches /\ b.events = e /\ b.note = "add" /\ b.of = x
  BY <1>2 DEF e
<1> QED BY <1>1, <1>3, KeptOne

\* A release that the session notes.
LEMMA NotedLift ==
  ASSUME NEW x \in Inputs, NEW note \in {"drop", "hold", "forget"}, NEW b,
         b = Noted(Batch(<<Lift(x)>>, <<>>), note, x)
  PROVE  /\ <<b>> \in Seq(Batches) /\ Kept(<<b>>, {}) /\ LeftDown(b.events) = {}
         /\ LiftedBy(b.events) = {x}
<1> DEFINE e == <<Lift(x)>>
           u == <<>>
<1>1. e \in Seq(Events) /\ LeftDown(e) = {} /\ LiftedBy(e) = {x} /\ u \in Seq(Inputs)
  BY OneEvent, NoUndo
<1> HIDE DEF e, u
<1>2. Noted(Batch(e, u), note, x) \in Batches /\ Noted(Batch(e, u), note, x).events = e
  <2>1. note \in Notes /\ x \in LiftedBy(e)
    BY <1>1 DEF Notes
  <2> QED BY <1>1, <2>1, NotedTypes
<1>3. b \in Batches /\ b.events = e
  BY <1>2 DEF e, u
<1> QED BY <1>1, <1>3, KeptOne

\* The two halves of a held input.
LEMMA KeptTransitions ==
  ASSUME NEW x \in Inputs
  PROVE  /\ <<press_transition(x)>> \in Seq(Batches) /\ Kept(<<press_transition(x)>>, {})
         /\ <<lift_transition(x)>> \in Seq(Batches) /\ Kept(<<lift_transition(x)>>, {})
<1>1. press_transition(x) = Noted(Batch(<<Press(x)>>, <<x>>), "add", x) /\ <<x>> \in Seq(Inputs)
  BY NoUndo DEF press_transition
<1>2. lift_transition(x) = Noted(Batch(<<Lift(x)>>, <<>>), "drop", x)
  BY DEF lift_transition
<1> QED BY <1>1, <1>2, NotedPress, NotedLift

\* A sequence that leaves nothing to others.
Closed(seq) == seq \in Seq(Batches) /\ Kept(seq, {})
Work(seq) == Closed(seq) /\ seq # <<>>

\* Sequences that lift what they press, one after the other.
LEMMA WorkConcat ==
  ASSUME NEW s, NEW t, Closed(s), Closed(t)
  PROVE  Closed(s \o t) /\ (s # <<>> \/ t # <<>> => Work(s \o t))
<1>1. s \in Seq(Batches) /\ t \in Seq(Batches)
  BY DEF Closed
<1>2. Closed(s \o t)
  BY <1>1, KeptConcat DEF Closed
<1>3. ASSUME s # <<>> \/ t # <<>> PROVE s \o t # <<>>
  <2>1. Len(s \o t) = Len(s) + Len(t) /\ Len(s) \in Nat /\ Len(t) \in Nat
    BY <1>1
  <2>2. (s # <<>> => Len(s) > 0) /\ (t # <<>> => Len(t) > 0) /\ Len(<<>>) = 0
    BY <1>1
  <2> QED BY <1>3, <2>1, <2>2
<1> QED BY <1>2, <1>3 DEF Work

\* Two batches of that kind.
LEMMA WorkTwo ==
  ASSUME NEW a, NEW b, Work(<<a>>), Work(<<b>>)
  PROVE  Work(<<a, b>>)
<1>1. a \in Batches /\ b \in Batches
  BY DEF Work, Closed
<1> DEFINE s == <<a>>
           t == <<b>>
<1>2. <<a, b>> = s \o t
  <2>1. s \in Seq(Batches) /\ t \in Seq(Batches) /\ Len(s) = 1 /\ Len(t) = 1 /\ s[1] = a /\ t[1] = b
    BY <1>1
  <2> HIDE DEF s, t
  <2>2. s \o t \in Seq(Batches) /\ Len(s \o t) = 2 /\ (s \o t)[1] = a /\ (s \o t)[2] = b
    <3>1. /\ s \o t \in Seq(Batches) /\ Len(s \o t) = 1 + 1
          /\ \A i \in 1..1 + 1 : (s \o t)[i] = IF i <= 1 THEN s[i] ELSE t[i - 1]
      BY <2>1, ConcatProperties
    <3> QED BY <2>1, <3>1
  <2>3. <<a, b>> \in Seq(Batches) /\ Len(<<a, b>>) = 2 /\ <<a, b>>[1] = a /\ <<a, b>>[2] = b
    BY <1>1
  <2>4. \A i \in 1..2 : i = 1 \/ i = 2
    OBVIOUS
  <2> QED BY <2>2, <2>3, <2>4, SeqEqual
<1> QED BY <1>2, WorkConcat DEF Work

\* Nothing pressed.
LEMMA NoWork == Closed(<<>>)
BY KeptNone DEF Work, Closed

\* A look, or a movement.
LEMMA WorkLook == Work(MoveTo) /\ Work(<<Check>>)
BY KeptMoveTo DEF Work, Closed, MoveTo

\* Clicks lift the button they press.
LEMMA WorkClick ==
  ASSUME NEW x \in Inputs, NEW clicks
  PROVE  Work(send_mouse_button(x, clicks))
<1> DEFINE e == IF clicks = 1 THEN Tap(x) ELSE Tap(x) \o Tap(x)
<1>1. e \in Seq(Events) /\ LeftDown(e) = {}
  BY TapEvents
<1> HIDE DEF e
<1>2. Work(<<Batch(e, <<>>)>>)
  BY <1>1, NoUndo, KeptQuiet DEF Work, Closed
<1>3. Work(MoveTo \o <<Batch(e, <<>>)>>)
  BY <1>2, WorkLook, WorkConcat DEF Work
<1> QED BY <1>3 DEF send_mouse_button, e

\* Typing lifts the keys it presses.
LEMMA WorkText ==
  ASSUME NEW x \in Inputs
  PROVE  Work(send_text(x)) /\ Work(type_text_at(x))
<1>1. Work(send_text(x))
  BY TapEvents, NoUndo, KeptQuiet DEF Work, Closed, send_text
<1>2. "left" \in Inputs
  BY DEF Inputs
<1>3. Work(send_mouse_button("left", 1) \o <<Check>>)
  BY <1>2, WorkClick, WorkLook, WorkConcat DEF Work
<1>4. Work((send_mouse_button("left", 1) \o <<Check>>) \o send_text(x))
  BY <1>1, <1>3, WorkConcat DEF Work
<1> QED BY <1>1, <1>4 DEF type_text_at

\* A hotkey and a click with a modifier lift the key around them.
LEMMA WorkAround ==
  ASSUME NEW x \in Inputs
  PROVE  Work(send_hotkey(x)) /\ Work(send_modifier_click(x))
<1> DEFINE e == <<Press("shift"), Press(x), Lift(x), Lift("shift")>>
<1>1. e \in Seq(Events) /\ LeftDown(e) = {}
  BY AroundEvents
<1>2. <<"shift">> \in Seq(Inputs) /\ <<x, "shift">> \in Seq(Inputs)
  BY NoUndo DEF Inputs
<1> HIDE DEF e
<1>3. Work(<<Batch(e, <<"shift">>)>>) /\ Work(<<Batch(e, <<x, "shift">>)>>)
  BY <1>1, <1>2, KeptQuiet DEF Work, Closed
<1>4. Work(MoveTo \o <<Batch(e, <<x, "shift">>)>>)
  BY <1>3, WorkLook, WorkConcat DEF Work
<1> QED BY <1>3, <1>4 DEF e, send_hotkey, send_modifier_click

\* The batches of one event.
LEMMA PressBatch ==
  ASSUME NEW x \in Inputs, NEW undo \in Seq(Inputs)
  PROVE  /\ Batch(<<Press(x)>>, undo) \in Batches /\ LeftDown(Batch(<<Press(x)>>, undo).events) = {x}
         /\ Batch(<<Press(x)>>, undo).undo = undo
BY OneEvent, BatchTypes

\* A batch that lifts an input, whatever it undoes.
LEMMA LiftBatch ==
  ASSUME NEW x \in Inputs, NEW undo \in Seq(Inputs)
  PROVE  /\ Batch(<<Lift(x)>>, undo) \in Batches /\ LeftDown(Batch(<<Lift(x)>>, undo).events) = {}
         /\ LiftedBy(Batch(<<Lift(x)>>, undo).events) = {x}
BY OneEvent, BatchTypes

\* The batch between press and release undoes the press when it fails.
LEMMA MeanwhileBatch ==
  ASSUME NEW x \in Inputs
  PROVE  /\ Batch(<<>>, <<x>>) \in Batches /\ LeftDown(Batch(<<>>, <<x>>).events) = {}
         /\ x \in Undone(Batch(<<>>, <<x>>))
<1> DEFINE u == <<x>>
<1>1. u \in Seq(Inputs) /\ 1 \in 1..Len(u) /\ u[1] = x
  BY NoUndo
<1> HIDE DEF u
<1>2. /\ Batch(<<>>, u) \in Batches /\ LeftDown(Batch(<<>>, u).events) = {}
      /\ Batch(<<>>, u).undo = u
  BY <1>1, NoEvents, BatchTypes
<1>3. x \in Undone(Batch(<<>>, u))
  BY <1>1, <1>2 DEF Undone
<1> QED BY <1>2, <1>3 DEF u

\* A drag of Windows lifts its button, or undoes the press.
LEMMA WorkDrag ==
  ASSUME NEW x \in Inputs, NEW undo \in Seq(Inputs)
  PROVE  Work(MoveTo \o <<Batch(<<Press(x)>>, undo), Batch(<<>>, <<x>>), Batch(<<Lift(x)>>, <<x>>)>>)
<1>1. <<x>> \in Seq(Inputs)
  BY NoUndo
<1> DEFINE a == Batch(<<Press(x)>>, undo)
           m == Batch(<<>>, <<x>>)
           l == Batch(<<Lift(x)>>, <<x>>)
<1>2. a \in Batches /\ LeftDown(a.events) = {x}
  BY PressBatch
<1>3. m \in Batches /\ LeftDown(m.events) = {} /\ x \in Undone(m)
  BY MeanwhileBatch
<1>4. l \in Batches /\ LeftDown(l.events) = {} /\ x \in LiftedBy(l.events)
  BY <1>1, LiftBatch
<1> HIDE DEF a, m, l
<1>5. Work(<<a, m, l>>)
  BY <1>2, <1>3, <1>4, KeptHeld DEF Work, Closed
<1>6. Work(MoveTo \o <<a, m, l>>)
  BY <1>5, WorkLook, WorkConcat DEF Work
<1> QED BY <1>6 DEF a, m, l

\* Both drags of Windows are of that shape.
LEMMA WorkDrags ==
  ASSUME NEW x \in Inputs
  PROVE  Work(send_drag(x)) /\ Work(send_drag_path(x))
<1>1. <<>> \in Seq(Inputs) /\ <<x>> \in Seq(Inputs)
  BY NoUndo
<1>2. Work(send_drag(x))
  BY <1>1, WorkDrag DEF send_drag
<1>3. Work(send_drag_path(x))
  BY <1>1, WorkDrag DEF send_drag_path
<1> QED BY <1>2, <1>3

\* A modifier around a body.
LEMMA ModifiedOK ==
  ASSUME NEW body, Work(body), NEW undo \in Seq(Inputs)
  PROVE  Ready(Plan(<<Batch(<<Press("shift")>>, undo)>>, body, <<Batch(<<Lift("shift")>>, <<>>)>>))
<1> DEFINE o == Batch(<<Press("shift")>>, undo)
           c == Batch(<<Lift("shift")>>, <<>>)
<1>1. "shift" \in Inputs /\ <<>> \in Seq(Inputs)
  BY NoUndo DEF Inputs
<1>2. o \in Batches /\ LeftDown(o.events) = {"shift"}
  BY <1>1, PressBatch
<1>3. c \in Batches /\ LeftDown(c.events) = {} /\ LiftedBy(c.events) = {"shift"}
  BY <1>1, LiftBatch
<1> HIDE DEF o, c
<1>4. <<c>> \in Seq(Batches) /\ Len(<<c>>) = 1 /\ <<c>>[1] = c /\ 1..1 = {1}
  BY <1>3
<1>5. Lifts(<<c>>) = {"shift"}
  BY <1>3, <1>4 DEF Lifts
<1>6. <<o>> \in Seq(Batches) /\ Kept(<<o>>, {"shift"})
  BY <1>2, KeptOne
<1>7. Ready(Plan(<<o>>, body, <<c>>))
  BY <1>3, <1>4, <1>5, <1>6 DEF Ready, Busy, PlanOK, Plan, Work, Closed
<1> QED BY <1>7 DEF o, c

\* execute of the Windows backend.
LEMMA WindowsPlanOK ==
  ASSUME NEW kind, NEW x \in Inputs
  PROVE  Ready(WindowsPlan(kind, x))
<1>1. \A b : Work(b) => Ready(Body(b))
  BY PlanOfBody DEF Work, Closed
<1>2. Work(send_scroll)
  BY WorkLook, WorkConcat DEF send_scroll, Work
<1>3. \A clicks : Work(send_mouse_button(x, clicks))
  BY WorkClick
<1>4. Work(<<press_transition(x)>>) /\ Work(<<lift_transition(x)>>)
  BY KeptTransitions DEF Work, Closed
<1>5. Work(At(x) \o <<press_transition(x)>>) /\ Work(At(x) \o <<lift_transition(x)>>)
  <2>1. Closed(At(x))
    BY WorkLook, NoWork DEF At, Work
  <2> QED BY <1>4, <2>1, WorkConcat DEF Work
<1>6. Ready(send_modified_pointer(send_mouse_button(x, 1)))
      /\ Ready(send_modified_pointer(send_drag_path(x)))
  <2>1. <<"shift">> \in Seq(Inputs)
    BY NoUndo DEF Inputs
  <2> QED BY <1>3, <2>1, WorkDrags, ModifiedOK DEF send_modified_pointer
<1>7. Ready(hold_key(x))
  <2> DEFINE p == press_transition(x)
             h == Noted(Batch(<<Lift(x)>>, <<>>), "hold", x)
  <2>1. Work(<<h>>)
    BY NotedLift DEF Work, Closed
  <2>2. Work(<<p>>)
    BY <1>4
  <2> HIDE DEF p, h
  <2>3. Work(<<p, h>>)
    BY <2>1, <2>2, WorkTwo
  <2>4. Ready(Body(<<p, h>>))
    BY <1>1, <2>3
  <2> QED BY <2>4 DEF hold_key, Body, p, h
<1>8. Work(send_text(x)) /\ Work(type_text_at(x)) /\ Work(send_hotkey(x))
      /\ Work(send_modifier_click(x)) /\ Work(send_drag(x))
  BY WorkText, WorkAround, WorkDrags
<1> QED BY <1>1, <1>2, <1>3, <1>5, <1>6, <1>7, <1>8 DEF WindowsPlan

\* The sequences of the macOS backend.
LEMMA WorkSingles ==
  ASSUME NEW x \in Inputs
  PROVE  Work(Singles(x)) /\ \A clicks : Work(send_click(x, clicks))
<1> DEFINE p == Single(Press(x))
           l == Single(Lift(x))
<1>1. p \in Batches /\ LeftDown(p.events) = {x}
  BY NoUndo, PressBatch DEF Single
<1>2. l \in Batches /\ LeftDown(l.events) = {} /\ LiftedBy(l.events) = {x}
  BY NoUndo, LiftBatch DEF Single
<1> HIDE DEF p, l
<1>3. Work(<<p, l>>)
  BY <1>1, <1>2, KeptPair DEF Work, Closed
<1>4. Work(Singles(x))
  BY <1>3 DEF Singles, p, l
<1>5. Work(MoveTo \o Singles(x))
  BY <1>4, WorkLook, WorkConcat DEF Work
<1>6. \A clicks : Closed(IF clicks = 1 THEN <<>> ELSE Singles(x))
  BY <1>4, NoWork DEF Work
<1>7. \A clicks : Work((MoveTo \o Singles(x)) \o (IF clicks = 1 THEN <<>> ELSE Singles(x)))
  BY <1>5, <1>6, WorkConcat DEF Work
<1> QED BY <1>4, <1>7 DEF send_click

\* The drag of macOS lifts its button as long as no call fails.
LEMMA WorkPostDrag ==
  ASSUME NEW x \in Inputs, os # "windows"
  PROVE  Work(post_drag(x))
<1> DEFINE p == Single(Press(x))
           l == Single(Lift(x))
<1>1. p \in Batches /\ LeftDown(p.events) = {x}
  BY NoUndo, PressBatch DEF Single
<1>2. l \in Batches /\ LeftDown(l.events) = {} /\ x \in LiftedBy(l.events)
  BY NoUndo, LiftBatch DEF Single
<1>3. Check \in Batches /\ LeftDown(Check.events) = {}
  BY NoEvents, NoUndo, BatchTypes DEF Check
<1> HIDE DEF p, l
<1>4. Work(<<p, Check, l>>)
  BY <1>1, <1>2, <1>3, KeptHeld DEF Work, Closed
<1>5. Work(MoveTo \o <<p, Check, l>>)
  BY <1>4, WorkLook, WorkConcat DEF Work
<1> QED BY <1>5 DEF post_drag, p, l

\* A hotkey to an application lifts its keys in its last stage.
LEMMA HotkeyOK ==
  ASSUME NEW x \in Inputs
  PROVE  Ready(send_hotkey_to_pid(x))
<1> DEFINE s == Single(Press("shift"))
           p == Batch(<<Press(x)>>, <<"shift">>)
           l == Single(Lift(x))
           u == Single(Lift("shift"))
<1>1. "shift" \in Inputs /\ <<"shift">> \in Seq(Inputs) /\ <<>> \in Seq(Inputs)
  BY NoUndo DEF Inputs
<1>2. s \in Batches /\ LeftDown(s.events) = {"shift"}
  BY <1>1, PressBatch DEF Single
<1>3. p \in Batches /\ LeftDown(p.events) = {x} /\ "shift" \in Undone(p)
  <2> DEFINE h == <<"shift">>
  <2>1. h \in Seq(Inputs) /\ 1 \in 1..Len(h) /\ h[1] = "shift"
    BY <1>1
  <2> HIDE DEF h
  <2>2. /\ Batch(<<Press(x)>>, h) \in Batches /\ LeftDown(Batch(<<Press(x)>>, h).events) = {x}
        /\ Batch(<<Press(x)>>, h).undo = h
    BY <2>1, PressBatch
  <2>3. "shift" \in Undone(Batch(<<Press(x)>>, h))
    BY <2>1, <2>2 DEF Undone
  <2> QED BY <2>2, <2>3 DEF h
<1>4. l \in Batches /\ LeftDown(l.events) = {} /\ LiftedBy(l.events) = {x}
  BY <1>1, LiftBatch DEF Single
<1>5. u \in Batches /\ LeftDown(u.events) = {} /\ LiftedBy(u.events) = {"shift"}
  BY <1>1, LiftBatch DEF Single
<1> HIDE DEF s, p, l, u
<1> DEFINE c == <<l, u>>
<1>6. c \in Seq(Batches) /\ Len(c) = 2 /\ c[1] = l /\ c[2] = u /\ 1..2 = {1, 2}
  BY <1>4, <1>5
<1> HIDE DEF c
<1>7. Lifts(c) = {x, "shift"}
  BY <1>4, <1>5, <1>6 DEF Lifts
<1>8. <<s, p>> \in Seq(Batches) /\ Kept(<<s, p>>, Lifts(c))
  BY <1>2, <1>3, <1>7, KeptPair
<1>9. Ready(Plan(<<s, p>>, <<>>, c))
  BY <1>4, <1>5, <1>6, <1>8, KeptNone DEF Ready, Busy, PlanOK, Plan
<1> QED BY <1>9 DEF send_hotkey_to_pid, s, p, l, u, c

\* A hold lifts its input in its last stage.
LEMMA HoldOK ==
  ASSUME NEW x \in Inputs
  PROVE  Ready(post_hold(x))
<1> DEFINE p == Noted(Single(Press(x)), "add", x)
           f == Noted(Single(Lift(x)), "forget", x)
<1>1. f = Noted(Batch(<<Lift(x)>>, <<>>), "forget", x) /\ p = Noted(Batch(<<Press(x)>>, <<>>), "add", x)
  BY DEF Single
<1>2. <<p>> \in Seq(Batches) /\ \A later : Kept(<<p>>, later)
  BY <1>1, NoUndo, NotedPress
<1>3. <<f>> \in Seq(Batches) /\ LeftDown(f.events) = {} /\ LiftedBy(f.events) = {x}
  BY <1>1, NotedLift
<1> HIDE DEF p, f
<1> DEFINE c == <<f>>
<1>4. Len(c) = 1 /\ c[1] = f /\ 1..1 = {1}
  OBVIOUS
<1>5. Ready(Plan(<<p>>, <<>>, c))
  BY <1>2, <1>3, <1>4, KeptNone DEF Ready, Busy, PlanOK, Plan
<1> QED BY <1>5 DEF post_hold, p, f, c

\* execute of the macOS backend.
LEMMA MacPlanOK ==
  ASSUME NEW kind, NEW x \in Inputs, os # "windows"
  PROVE  Ready(MacPlan(kind, x))
<1>1. \A b : Work(b) => Ready(Body(b))
  BY PlanOfBody DEF Work, Closed
<1>2. Work(post_scroll)
  BY WorkLook, WorkConcat DEF post_scroll, Work
<1>3. /\ \A clicks : Work(send_click(x, clicks))
      /\ Work(Singles(x)) /\ Work(post_drag(x))
  BY WorkSingles, WorkPostDrag
<1>4. Work(send_click("left", 1) \o <<Check>> \o post_text(x))
  <2>1. "left" \in Inputs
    BY DEF Inputs
  <2>2. Work(send_click("left", 1) \o <<Check>>)
    BY <2>1, WorkSingles, WorkLook, WorkConcat DEF Work
  <2>3. Work((send_click("left", 1) \o <<Check>>) \o Singles(x))
    BY <1>3, <2>2, WorkConcat DEF Work
  <2> QED BY <2>3 DEF post_text
<1>5. Work(<<Noted(Single(Press(x)), "add", x)>>)
  BY NoUndo, NotedPress DEF Work, Closed, Single
<1>6. Work(<<Noted(Single(Lift(x)), "drop", x)>>)
  BY NotedLift DEF Work, Closed, Single
<1>7. \A body : Work(body) => Ready(post_modified(body))
  BY NoUndo, ModifiedOK DEF post_modified, Single
<1>8. Ready(send_hotkey_to_pid(x)) /\ Ready(post_hold(x))
  BY HotkeyOK, HoldOK
<1> QED BY <1>1, <1>2, <1>3, <1>4, <1>5, <1>6, <1>7, <1>8 DEF MacPlan

\* Every action a session can start.
LEMMA PlansOK ==
  ASSUME NEW a \in InputActions, NEW to
  PROVE  Ready(PlanOf(a[1], a[2], to))
<1>1. a[2] \in Inputs
  BY DEF InputActions, Inputs
<1>2. Work(<<Check>> \o post_text(a[2]))
  BY <1>1, WorkLook, WorkSingles, WorkConcat DEF post_text, Work
<1>3. Ready(Body(<<Check>> \o post_text(a[2])))
  BY <1>2, PlanOfBody DEF Work, Closed
<1>4. os # "windows" => Ready(ApplicationPlan(a[1], a[2]))
  BY <1>1, <1>3, MacPlanOK DEF ApplicationPlan
<1>5. CASE os = "windows"
  BY <1>1, <1>5, WindowsPlanOK DEF PlanOf
<1>6. CASE os # "windows" /\ to = "desktop"
  BY <1>1, <1>6, MacPlanOK DEF PlanOf
<1>7. CASE os # "windows" /\ to # "desktop"
  BY <1>4, <1>7 DEF PlanOf
<1> QED BY <1>5, <1>6, <1>7

-----------------------------------------------------------------------------
(* One batch of an action.                                                 *)

First(d) ==
  IF d.open # <<>> THEN Head(d.open) ELSE IF d.body # <<>> THEN Head(d.body) ELSE Head(d.close)

RestOf(d) ==
  IF d.open # <<>> THEN [d EXCEPT !.open = Tail(@)]
  ELSE IF d.body # <<>> THEN [d EXCEPT !.body = Tail(@)]
  ELSE [d EXCEPT !.close = Tail(@)]

\* What is left when the batch failed.
StopOf(d) ==
  IF d.open # <<>> THEN Nothing
  ELSE IF d.body # <<>> THEN [d EXCEPT !.body = <<>>]
  ELSE [d EXCEPT !.close = Tail(@)]

\* The rest of an action is one again, and it does what the action owes apart
\* from what its first batch did.
Continues(d, e) ==
  /\ e \in Doings /\ e.by = d.by /\ e.to = d.to /\ PlanOK(e)
  /\ \A x : Cared(d, x) /\ x \notin LiftedBy(First(d).events) => Cared(e, x)
  /\ \A x \in LeftDown(First(d).events) :
       (First(d).note = "add" /\ First(d).of = x) \/ Cared(e, x)

\* A sequence of batches, its first one and the rest.
LEMMA FirstIn ==
  ASSUME NEW s \in Seq(Batches), s # <<>>
  PROVE  /\ s[1] = Head(s) /\ Head(s) \in Batches /\ 1 \in 1..Len(s) /\ Tail(s) \in Seq(Batches)
         /\ Len(s) \in Nat /\ Len(Tail(s)) = Len(s) - 1
         /\ \A i \in 1..Len(Tail(s)) : i + 1 \in 1..Len(s) /\ Tail(s)[i] = s[i + 1]
OBVIOUS

\* The last stage presses nothing, so it stays one when a batch is done.
LEMMA CloseTail ==
  ASSUME NEW s \in Seq(Batches), s # <<>>, \A i \in 1..Len(s) : LeftDown(s[i].events) = {}
  PROVE  /\ LeftDown(Head(s).events) = {} /\ Tail(s) \in Seq(Batches)
         /\ \A i \in 1..Len(Tail(s)) : LeftDown(Tail(s)[i].events) = {}
         /\ \A x \in Lifts(s) : x \in LiftedBy(Head(s).events) \/ x \in Lifts(Tail(s))
<1>1. LeftDown(Head(s).events) = {} /\ \A i \in 1..Len(Tail(s)) : LeftDown(Tail(s)[i].events) = {}
  BY FirstIn
<1>2. ASSUME NEW x \in Lifts(s), x \notin LiftedBy(Head(s).events) PROVE x \in Lifts(Tail(s))
  <2>1. PICK i \in 1..Len(s) : x \in LiftedBy(s[i].events)
    BY DEF Lifts
  <2>2. i # 1
    BY <1>2, <2>1, FirstIn
  <2>3. i - 1 \in 1..Len(Tail(s)) /\ (i - 1) + 1 = i
    BY <2>2, FirstIn
  <2>4. Tail(s)[i - 1] = s[i]
    BY <2>3, FirstIn
  <2> QED BY <2>1, <2>3, <2>4 DEF Lifts
<1> QED BY <1>1, <1>2, FirstIn

\* A sequence before its first batch, and after it.
LEMMA SeqContinues ==
  ASSUME NEW s \in Seq(Batches), s # <<>>, NEW later, Kept(s, later)
  PROVE  /\ Tail(s) \in Seq(Batches) /\ Kept(Tail(s), later)
         /\ \A x : Released(s, 1, x, later) /\ x \notin LiftedBy(Head(s).events) =>
               Released(Tail(s), 1, x, later)
         /\ \A x \in LeftDown(Head(s).events) :
               (Head(s).note = "add" /\ Head(s).of = x) \/ Released(Tail(s), 1, x, later)
<1>1. 1 \in Nat \ {0} /\ 1 + 1 = 2
  OBVIOUS
<1>2. \A x : Released(s, 1, x, later) /\ x \notin LiftedBy(Head(s).events) => Released(s, 2, x, later)
  BY ReleasedBeyond, FirstIn
<1>3. \A x \in LeftDown(Head(s).events) :
        (Head(s).note = "add" /\ Head(s).of = x) \/ Released(s, 1 + 1, x, later)
  BY FirstIn DEF Kept
<1>4. \A x : Released(Tail(s), 1, x, later) <=> Released(s, 2, x, later)
  BY <1>1, ReleasedTail
<1> QED BY <1>1, <1>2, <1>3, <1>4, KeptTail

\* The three stages of an action under way.
LEMMA DoingParts ==
  ASSUME NEW d \in Doings
  PROVE  /\ d.by \in InputSessions \union {"nobody"} /\ d.to \in Places
         /\ d.open \in Seq(Batches) /\ d.body \in Seq(Batches) /\ d.close \in Seq(Batches)
         /\ \A t \in Seq(Batches) :
               /\ [d EXCEPT !.open = t] =
                    [by |-> d.by, to |-> d.to, open |-> t, body |-> d.body, close |-> d.close]
               /\ [d EXCEPT !.body = t] =
                    [by |-> d.by, to |-> d.to, open |-> d.open, body |-> t, close |-> d.close]
               /\ [d EXCEPT !.close = t] =
                    [by |-> d.by, to |-> d.to, open |-> d.open, body |-> d.body, close |-> t]
<1>1. /\ d.by \in InputSessions \union {"nobody"} /\ d.to \in Places
      /\ d.open \in Seq(Batches) /\ d.body \in Seq(Batches) /\ d.close \in Seq(Batches)
  BY DEF Doings
<1>2. d = [by |-> d.by, to |-> d.to, open |-> d.open, body |-> d.body, close |-> d.close]
  BY DEF Doings
<1>3. ASSUME NEW t \in Seq(Batches)
      PROVE  /\ [d EXCEPT !.open = t] =
                   [by |-> d.by, to |-> d.to, open |-> t, body |-> d.body, close |-> d.close]
             /\ [d EXCEPT !.body = t] =
                   [by |-> d.by, to |-> d.to, open |-> d.open, body |-> t, close |-> d.close]
             /\ [d EXCEPT !.close = t] =
                   [by |-> d.by, to |-> d.to, open |-> d.open, body |-> d.body, close |-> t]
  BY <1>2
<1> QED BY <1>1, <1>3

\* After a batch of the first stage the rest is still a plan.
LEMMA OpenContinues ==
  ASSUME NEW d \in Doings, PlanOK(d), d.open # <<>>
  PROVE  Continues(d, RestOf(d))
<1> DEFINE t == Tail(d.open)
           e == [by |-> d.by, to |-> d.to, open |-> t, body |-> d.body, close |-> d.close]
           c == Lifts(d.close)
<1>1. /\ d.open \in Seq(Batches) /\ Kept(d.open, c) /\ First(d) = Head(d.open)
  BY DEF PlanOK, First
<1>2. /\ t \in Seq(Batches) /\ Kept(t, c)
      /\ \A x : Released(d.open, 1, x, c) /\ x \notin LiftedBy(Head(d.open).events) => Released(t, 1, x, c)
      /\ \A x \in LeftDown(Head(d.open).events) :
            (Head(d.open).note = "add" /\ Head(d.open).of = x) \/ Released(t, 1, x, c)
  BY <1>1, SeqContinues
<1>3. RestOf(d) = e
  BY <1>2, DoingParts DEF RestOf
<1> HIDE DEF t, c
<1>4. e \in Doings /\ e.by = d.by /\ e.to = d.to /\ e.open = t /\ e.body = d.body /\ e.close = d.close
  BY <1>2, DoingParts DEF Doings
<1>5. PlanOK(e)
  BY <1>2, <1>4 DEF PlanOK, c
<1>6. \A x : Released(t, 1, x, c) => Cared(e, x)
  BY <1>4, ReleasedEmpty DEF Cared, c
<1>7. \A x : Cared(d, x) => Released(d.open, 1, x, c)
  BY DEF Cared, c
<1> HIDE DEF e
<1> QED BY <1>1, <1>2, <1>3, <1>4, <1>5, <1>6, <1>7 DEF Continues

\* So it is after one of the second stage,
LEMMA BodyContinues ==
  ASSUME NEW d \in Doings, PlanOK(d), d.open = <<>>, d.body # <<>>
  PROVE  Continues(d, RestOf(d))
<1> DEFINE t == Tail(d.body)
           e == [by |-> d.by, to |-> d.to, open |-> d.open, body |-> t, close |-> d.close]
<1>1. /\ d.body \in Seq(Batches) /\ Kept(d.body, {}) /\ First(d) = Head(d.body)
  BY DEF PlanOK, First
<1>2. /\ t \in Seq(Batches) /\ Kept(t, {})
      /\ \A x : Released(d.body, 1, x, {}) /\ x \notin LiftedBy(Head(d.body).events) => Released(t, 1, x, {})
      /\ \A x \in LeftDown(Head(d.body).events) :
            (Head(d.body).note = "add" /\ Head(d.body).of = x) \/ Released(t, 1, x, {})
  BY <1>1, SeqContinues
<1>3. RestOf(d) = e
  BY <1>2, DoingParts DEF RestOf
<1> HIDE DEF t
<1>4. e \in Doings /\ e.by = d.by /\ e.to = d.to /\ e.open = <<>> /\ e.body = t /\ e.close = d.close
  BY <1>2, DoingParts DEF Doings
<1>5. PlanOK(e)
  BY <1>2, <1>4 DEF PlanOK
<1>6. \A x : Cared(e, x) <=> (x \in Lifts(d.close) \/ Released(t, 1, x, {}))
  BY <1>4 DEF Cared
<1>7. \A x : Cared(d, x) <=> (x \in Lifts(d.close) \/ Released(d.body, 1, x, {}))
  BY DEF Cared
<1> HIDE DEF e
<1> QED BY <1>1, <1>2, <1>3, <1>4, <1>5, <1>6, <1>7 DEF Continues

\* and after one of the third.
LEMMA CloseContinues ==
  ASSUME NEW d \in Doings, PlanOK(d), d.open = <<>>, d.body = <<>>, d.close # <<>>
  PROVE  Continues(d, RestOf(d))
<1> DEFINE t == Tail(d.close)
           e == [by |-> d.by, to |-> d.to, open |-> d.open, body |-> d.body, close |-> t]
<1>1. /\ d.close \in Seq(Batches) /\ First(d) = Head(d.close)
      /\ \A i \in 1..Len(d.close) : LeftDown(d.close[i].events) = {}
  BY DEF PlanOK, First
<1>2. /\ LeftDown(Head(d.close).events) = {} /\ t \in Seq(Batches)
      /\ \A i \in 1..Len(t) : LeftDown(t[i].events) = {}
      /\ \A x \in Lifts(d.close) : x \in LiftedBy(Head(d.close).events) \/ x \in Lifts(t)
  BY <1>1, CloseTail
<1>3. RestOf(d) = e
  BY <1>2, DoingParts DEF RestOf
<1> HIDE DEF t
<1>4. e \in Doings /\ e.by = d.by /\ e.to = d.to /\ e.open = <<>> /\ e.body = <<>> /\ e.close = t
  BY <1>2, DoingParts DEF Doings
<1>5. PlanOK(e)
  BY <1>2, <1>4, KeptNone DEF PlanOK
<1>6. \A x : Cared(e, x) <=> x \in Lifts(t)
  BY <1>4, ReleasedEmpty DEF Cared
<1>7. \A x : Cared(d, x) <=> x \in Lifts(d.close)
  BY ReleasedEmpty DEF Cared
<1> HIDE DEF e
<1> QED BY <1>1, <1>2, <1>3, <1>4, <1>5, <1>6, <1>7 DEF Continues

\* Whatever stage the next batch is of, the rest goes on with the plan.
LEMMA RestContinues ==
  ASSUME NEW d \in Doings, PlanOK(d), Busy(d)
  PROVE  Continues(d, RestOf(d)) /\ First(d) \in Batches
<1>1. First(d) \in Batches
  BY FirstIn DEF First, PlanOK, Busy
<1> QED BY <1>1, OpenContinues, BodyContinues, CloseContinues DEF Busy

\* No action under way.
LEMMA NothingOK ==
  /\ Nothing \in Doings /\ Nothing.by = "nobody" /\ ~Busy(Nothing) /\ PlanOK(Nothing)
  /\ \A x : ~Cared(Nothing, x)
<1>1. Nothing \in Doings /\ Nothing.by = "nobody" /\ ~Busy(Nothing)
  BY KeptNone DEF Nothing, Doings, Busy, Places
<1>2. 1..Len(<<>>) = {}
  OBVIOUS
<1>3. PlanOK(Nothing)
  BY <1>2, KeptNone DEF PlanOK, Nothing
<1>4. Lifts(<<>>) = {}
  BY <1>2 DEF Lifts
<1>5. \A x : ~Cared(Nothing, x)
  BY <1>4, ReleasedEmpty DEF Cared, Nothing
<1> QED BY <1>1, <1>3, <1>5

\* An action that has no batch left is over.
LEMMA FinishedOK ==
  ASSUME NEW d \in Doings, PlanOK(d)
  PROVE  LET f == Finished(d)
         IN /\ f \in Doings /\ PlanOK(f) /\ (f = Nothing \/ (Busy(f) /\ f.by = d.by /\ f.to = d.to))
            /\ \A x : Cared(d, x) => Cared(f, x)
<1>1. CASE Busy(d)
  <2>1. Finished(d) = d
    BY <1>1 DEF Finished, Busy
  <2> QED BY <1>1, <2>1
<1>2. CASE ~Busy(d)
  <2>1. Finished(d) = Nothing /\ d.open = <<>> /\ d.body = <<>> /\ d.close = <<>>
    BY <1>2 DEF Finished, Busy
  <2>2. \A x : Cared(d, x) <=> Cared(Nothing, x)
    BY <2>1 DEF Cared, Nothing
  <2> QED BY <2>1, <2>2, NothingOK
<1> QED BY <1>1, <1>2

\* A batch of Windows that fails lifts what the action owes and its rest does
\* not.
LEMMA StopContinues ==
  ASSUME NEW d \in Doings, PlanOK(d), Busy(d)
  PROVE  /\ StopOf(d) \in Doings /\ PlanOK(StopOf(d)) /\ StopOf(d).by \in {d.by, "nobody"}
         /\ StopOf(d) = Nothing \/ (StopOf(d).by = d.by /\ StopOf(d).to = d.to)
         /\ \A x : /\ os = "windows" /\ Cared(d, x)
                   /\ x \notin LiftedBy(First(d).events) /\ x \notin Undone(First(d))
                   => Cared(StopOf(d), x)
<1>1. CASE d.open # <<>>
  <2>1. StopOf(d) = Nothing /\ First(d) = Head(d.open) /\ d.open \in Seq(Batches)
    BY <1>1 DEF StopOf, First, PlanOK
  <2>2. ASSUME NEW x, os = "windows", Cared(d, x), x \notin LiftedBy(First(d).events),
               x \notin Undone(First(d))
        PROVE  FALSE
    <3>1. Released(d.open, 1, x, Lifts(d.close)) /\ d.open[1] = First(d)
      BY <1>1, <2>1, <2>2, FirstIn DEF Cared
    <3> QED BY <1>1, <2>1, <2>2, <3>1, ReleasedBeyond
  <2> QED BY <2>1, <2>2, NothingOK
<1>2. CASE d.open = <<>> /\ d.body # <<>>
  <2> DEFINE e == [by |-> d.by, to |-> d.to, open |-> d.open, body |-> <<>>, close |-> d.close]
  <2>1. StopOf(d) = e /\ First(d) = Head(d.body) /\ d.body \in Seq(Batches)
    BY <1>2, KeptNone, DoingParts DEF StopOf, First
  <2>2. e \in Doings /\ e.by = d.by /\ e.to = d.to /\ e.open = <<>> /\ e.body = <<>> /\ e.close = d.close
    BY <1>2, KeptNone, DoingParts DEF Doings
  <2>3. PlanOK(e)
    BY <2>2, KeptNone DEF PlanOK
  <2>4. \A x : Cared(e, x) <=> x \in Lifts(d.close)
    BY <2>2, ReleasedEmpty DEF Cared
  <2>5. \A x : Cared(d, x) <=> (x \in Lifts(d.close) \/ Released(d.body, 1, x, {}))
    BY <1>2 DEF Cared
  <2> HIDE DEF e
  <2>6. ASSUME NEW x, os = "windows", Released(d.body, 1, x, {}), x \notin LiftedBy(First(d).events),
               x \notin Undone(First(d))
        PROVE  FALSE
    <3>1. d.body[1] = First(d)
      BY <1>2, <2>1, FirstIn
    <3> QED BY <1>2, <2>1, <2>6, <3>1, ReleasedBeyond
  <2> QED BY <2>1, <2>2, <2>3, <2>4, <2>5, <2>6
<1>3. CASE d.open = <<>> /\ d.body = <<>>
  <2>1. StopOf(d) = RestOf(d)
    BY <1>3 DEF StopOf, RestOf
  <2> QED BY <2>1, RestContinues DEF Continues
<1> QED BY <1>1, <1>2, <1>3

\* The operators of the steps in these terms.
LEMMA StepTerms ==
  ASSUME doing \in Doings
  PROVE  /\ NextBatch = First(doing) /\ Advanced = Finished(RestOf(doing))
         /\ Stopped = Finished(StopOf(doing))
<1>1. CASE doing.open # <<>>
  <2>1. Stage = "open"
    BY <1>1 DEF Stage
  <2>2. Finished(Nothing) = Nothing
    BY DEF Finished
  <2> QED BY <1>1, <2>1, <2>2 DEF NextBatch, First, Advanced, RestOf, Stopped, StopOf
<1>2. CASE doing.open = <<>> /\ doing.body # <<>>
  <2>1. Stage = "body"
    BY <1>2 DEF Stage
  <2> QED BY <1>2, <2>1 DEF NextBatch, First, Advanced, RestOf, Stopped, StopOf
<1>3. CASE doing.open = <<>> /\ doing.body = <<>>
  <2>1. Stage = "close"
    BY <1>3 DEF Stage
  <2> QED BY <1>3, <2>1 DEF NextBatch, First, Advanced, RestOf, Stopped, StopOf
<1> QED BY <1>1, <1>2, <1>3

\* What events press and lift.
LEMMA EventInputs ==
  ASSUME NEW e \in Seq(Events)
  PROVE  /\ PressedBy(e) \subseteq Inputs /\ LiftedBy(e) \subseteq Inputs
         /\ LeftDown(e) \subseteq PressedBy(e)
         /\ \A k \in 0..Len(e) - 1 \union {0} : SubSeq(e, 1, k) \in Seq(Events)
<1>1. \A i \in 1..Len(e) : e[i] \in Events /\ e[i].of \in Inputs
  <2>1. \A i \in 1..Len(e) : e[i] \in Events
    OBVIOUS
  <2> QED BY <2>1 DEF Events
<1>2. \A k \in 0..Len(e) - 1 \union {0} : SubSeq(e, 1, k) \in Seq(Events)
  OBVIOUS
<1> QED BY <1>1, <1>2 DEF PressedBy, LiftedBy, LeftDown

-----------------------------------------------------------------------------
(* The steps.                                                              *)

\* What the invariant says of the next state, with the action it has then.
LEMMA InvNext ==
  ASSUME os' = os, os \in Os,
         down' \in [Places -> SUBSET Inputs], lost' \in [Places -> SUBSET Inputs],
         \A p \in Places : lost'[p] \subseteq down'[p],
         tracked' \in [InputSessions -> SUBSET Inputs], faults' \in 0..MaxFaults,
         NEW d \in Doings, doing' = d, PlanOK(d), d = Nothing \/ (Busy(d) /\ d.by \in InputSessions),
         os = "windows" \/ faults' = 0 =>
           \A p \in Places : \A x \in down'[p] \ lost'[p] :
             (\E s \in InputSessions : x \in tracked'[s]) \/ (p = d.to /\ Cared(d, x))
  PROVE  InputInv'
<1>1. InputTypeOK'
  BY DoingParts DEF InputTypeOK
<1>2. \A seq, i, x, later : Released(seq, i, x, later)' <=> Released(seq, i, x, later)
  BY DEF Released
<1>3. PlanOK(doing)' /\ (doing = Nothing \/ Busy(doing))' /\ doing' \in Doings
  BY <1>2 DEF PlanOK, Kept, Busy
<1>4. (os = "windows" \/ faults = 0 =>
         \A p \in Places : \A x \in down[p] \ lost[p] : Accounted(p, x))'
  BY <1>2 DEF Accounted, Cared
<1> QED BY <1>1, <1>3, <1>4 DEF InputInv

\* At a place the action does not reach, what is down and not lost is what some
\* session remembered and did not give up.
LEMMA OtherPlaces ==
  ASSUME InputInv, os = "windows" \/ faults = 0,
         NEW s \in InputSessions, NEW to \in Places, doing = Nothing \/ doing.to = to,
         \A t \in InputSessions \ {s} : tracked'[t] = tracked[t],
         NEW p \in Places \ {to}, down'[p] = down[p],
         lost'[p] = (lost[p] \union GivenUp(s)) \intersect down'[p], NEW x \in down'[p] \ lost'[p]
  PROVE  \E t \in InputSessions : x \in tracked'[t]
<1>1. x \in down[p] \ lost[p] /\ x \notin GivenUp(s)
  OBVIOUS
<1>2. PICK t \in InputSessions : x \in tracked[t]
  BY <1>1, NothingOK DEF InputInv, Accounted
<1>3. CASE t = s
  BY <1>1, <1>2, <1>3 DEF GivenUp
<1>4. CASE t # s
  BY <1>2, <1>4
<1> QED BY <1>3, <1>4

\* While an action is under way its next batch is known.
LEMMA BusyInv ==
  ASSUME InputInv, doing # Nothing
  PROVE  /\ doing \in Doings /\ PlanOK(doing) /\ Busy(doing)
         /\ doing.by \in InputSessions /\ doing.to \in Places
         /\ First(doing) \in Batches /\ NextBatch = First(doing)
         /\ First(doing).events \in Seq(Events)
         /\ LiftedBy(First(doing).events) \subseteq Inputs
         /\ LeftDown(First(doing).events) \subseteq Inputs
<1>1. /\ doing \in Doings /\ PlanOK(doing) /\ Busy(doing)
      /\ doing.by \in InputSessions /\ doing.to \in Places
  BY DEF InputInv, InputTypeOK
<1>2. First(doing) \in Batches /\ NextBatch = First(doing)
  BY <1>1, RestContinues, StepTerms
<1>3. First(doing).events \in Seq(Events)
  BY <1>2 DEF Batches
<1> QED BY <1>1, <1>2, <1>3, EventInputs

\* An action starts with a plan that lifts what it presses.
LEMMA StartKeeps ==
  ASSUME InputInv, NEW s \in InputSessions, StartInput(s)
  PROVE  InputInv'
<1>1. PICK a \in InputActions, to \in Places :
        LET p == PlanOf(a[1], a[2], to)
        IN doing' = [by |-> s, to |-> to, open |-> p.open, body |-> p.body, close |-> p.close]
  BY DEF StartInput, PlacesOf, Places
<1> DEFINE p == PlanOf(a[1], a[2], to)
           d == [by |-> s, to |-> to, open |-> p.open, body |-> p.body, close |-> p.close]
<1>2. PlanOK(p) /\ Busy(p)
  BY PlansOK DEF Ready
<1>3. doing' = d
  BY <1>1
<1> HIDE DEF p
<1>4. d \in Doings /\ PlanOK(d) /\ Busy(d) /\ d.by \in InputSessions
  BY <1>1, <1>2 DEF PlanOK, Doings, Busy
<1>5. \A x : ~Cared(doing, x)
  BY NothingOK DEF StartInput
<1> HIDE DEF d
<1> QED BY <1>3, <1>4, <1>5, InvNext DEF InputInv, InputTypeOK, StartInput, Accounted

\* A batch that succeeds presses what the plan will lift.
LEMMA PerformedKeeps ==
  ASSUME InputInv, Performed
  PROVE  InputInv'
<1> DEFINE b == First(doing)
           e == RestOf(doing)
           d == Finished(e)
           n == doing.by
           to == doing.to
<1>1. doing # Nothing
  BY DEF Performed
<1>2. /\ doing \in Doings /\ PlanOK(doing) /\ Busy(doing) /\ n \in InputSessions /\ to \in Places
      /\ b \in Batches /\ NextBatch = b /\ b.events \in Seq(Events)
      /\ LiftedBy(b.events) \subseteq Inputs /\ LeftDown(b.events) \subseteq Inputs
  BY <1>1, BusyInv
<1>3. Continues(doing, e)
  BY <1>2, RestContinues
<1>4. /\ d \in Doings /\ PlanOK(d) /\ (d = Nothing \/ (Busy(d) /\ d.by \in InputSessions))
      /\ \A x : Cared(e, x) => d.to = to /\ Cared(d, x)
  BY <1>2, <1>3, FinishedOK, NothingOK DEF Continues
<1>5. doing' = d
  BY <1>2, StepTerms DEF Performed
<1>6. /\ b.note = "add" => b.of \in Inputs
      /\ b.note \in {"drop", "hold", "forget"} => b.of \in LiftedBy(b.events)
      /\ b.note # "add" \/ b.note \notin {"drop", "hold", "forget"}
  BY <1>2 DEF Batches
<1>7. /\ down' = [down EXCEPT ![to] = (@ \ LiftedBy(b.events)) \union LeftDown(b.events)]
      /\ lost' = LostAfter(n, to, lost[to] \ LiftedBy(b.events))
      /\ os' = os /\ faults' = faults
  BY <1>2 DEF Performed, After
<1>8. tracked' = [tracked EXCEPT ![n] =
        CASE b.note = "add"                        -> @ \union {b.of}
          [] b.note \in {"drop", "hold", "forget"} -> @ \ {b.of}
          [] OTHER                                 -> @]
  BY <1>2 DEF Performed
<1> HIDE DEF b, e, d, n, to
<1>9. /\ tracked' \in [InputSessions -> SUBSET Inputs]
      /\ \A s \in InputSessions : \A x \in tracked[s] : x \notin LiftedBy(b.events) => x \in tracked'[s]
      /\ b.note = "add" => b.of \in tracked'[n]
      /\ \A s \in InputSessions \ {n} : tracked'[s] = tracked[s]
  BY <1>2, <1>6, <1>8 DEF InputInv, InputTypeOK
<1>10. /\ down' \in [Places -> SUBSET Inputs] /\ lost' \in [Places -> SUBSET Inputs]
       /\ \A p \in Places : lost'[p] \subseteq down'[p]
       /\ \A p \in Places \ {to} :
            down'[p] = down[p] /\ lost'[p] = (lost[p] \union GivenUp(n)) \intersect down'[p]
       /\ down'[to] = (down[to] \ LiftedBy(b.events)) \union LeftDown(b.events)
       /\ lost'[to] = (lost[to] \ LiftedBy(b.events)) \intersect down'[to]
  BY <1>2, <1>7 DEF InputInv, InputTypeOK, LostAfter
<1>11. ASSUME os = "windows" \/ faults' = 0, NEW x \in down'[to] \ lost'[to]
       PROVE  (\E s \in InputSessions : x \in tracked'[s]) \/ (d.to = to /\ Cared(d, x))
  <2>1. CASE x \in LeftDown(b.events)
    <3>1. (b.note = "add" /\ b.of = x) \/ Cared(e, x)
      BY <1>3, <2>1 DEF Continues, b
    <3> QED BY <1>2, <1>4, <1>9, <3>1
  <2>2. CASE x \notin LeftDown(b.events)
    <3>1. x \in down[to] \ lost[to] /\ x \notin LiftedBy(b.events)
      BY <1>10, <1>11, <2>2
    <3>2. Accounted(to, x)
      BY <1>2, <1>7, <1>11, <3>1 DEF InputInv
    <3>3. Cared(doing, x) => d.to = to /\ Cared(d, x)
      BY <1>3, <1>4, <3>1 DEF Continues, b
    <3> QED BY <1>9, <3>1, <3>2, <3>3 DEF Accounted
  <2> QED BY <2>1, <2>2
<1>12. ASSUME os = "windows" \/ faults' = 0,
              NEW p \in Places \ {to}, NEW x \in down'[p] \ lost'[p]
       PROVE  \E s \in InputSessions : x \in tracked'[s]
  <2>1. os = "windows" \/ faults = 0
    BY <1>7, <1>12
  <2> QED BY <1>2, <1>9, <1>10, <1>12, <2>1, OtherPlaces DEF to
<1>13. os \in Os /\ faults' \in 0..MaxFaults
  BY <1>7 DEF InputInv, InputTypeOK
<1> QED BY <1>4, <1>5, <1>7, <1>9, <1>10, <1>11, <1>12, <1>13, InvNext

\* A batch that fails leaves down what its undo could not lift, which is lost.
LEMMA FailsKeeps ==
  ASSUME InputInv, Fails
  PROVE  InputInv'
<1> DEFINE b == First(doing)
           e == StopOf(doing)
           d == Finished(e)
           n == doing.by
           to == doing.to
           undone == Undone(b)
           holds == b.note = "hold"
<1>1. doing # Nothing
  BY DEF Fails
<1>2. /\ doing \in Doings /\ PlanOK(doing) /\ Busy(doing) /\ n \in InputSessions /\ to \in Places
      /\ b \in Batches /\ NextBatch = b /\ b.events \in Seq(Events)
      /\ LiftedBy(b.events) \subseteq Inputs
  BY <1>1, BusyInv
<1>3. /\ e \in Doings /\ PlanOK(e) /\ e.by \in {n, "nobody"} /\ (e = Nothing \/ (e.by = n /\ e.to = to))
      /\ \A x : /\ os = "windows" /\ Cared(doing, x)
                /\ x \notin LiftedBy(b.events) /\ x \notin undone
                => Cared(e, x)
  BY <1>2, StopContinues
<1>4. /\ d \in Doings /\ PlanOK(d) /\ (d = Nothing \/ (Busy(d) /\ d.by = e.by))
      /\ \A x : Cared(e, x) => d.to = to /\ Cared(d, x)
  BY <1>3, FinishedOK, NothingOK
<1>5. d = Nothing \/ (Busy(d) /\ d.by \in InputSessions)
  BY <1>2, <1>3, <1>4, NothingOK DEF Finished, Busy
<1>6. doing' = d /\ os' = os
  BY <1>2, StepTerms DEF Fails
<1>7. PICK k \in 0..Len(NextBatch.events) - 1 \union {0}, again \in BOOLEAN :
        LET sent == SubSeq(NextBatch.events, 1, k)
            undo == release_partial_input(sent)
                    \union {NextBatch.undo[i] : i \in 1..Len(NextBatch.undo)}
                    \union (IF NextBatch.note = "hold" THEN tracked[doing.by] ELSE {})
        IN /\ again => faults + 2 <= MaxFaults
           /\ faults' = IF again THEN faults + 2 ELSE faults + 1
           /\ down' = [down EXCEPT ![doing.to] =
                IF again THEN After(@, sent) ELSE After(@, sent) \ undo]
           /\ lost' = LostAfter(doing.by, doing.to,
                lost[doing.to] \union (LiftedBy(NextBatch.events) \ PressedBy(sent)) \union undo)
           /\ tracked' = [tracked EXCEPT ![doing.by] =
                IF NextBatch.note = "hold" THEN {}
                ELSE IF NextBatch.note = "forget" THEN @ \ {NextBatch.of} ELSE @]
  BY DEF Fails
<1> DEFINE sent == SubSeq(b.events, 1, k)
           undo == release_partial_input(sent) \union undone \union (IF holds THEN tracked[n] ELSE {})
<1>8. k \in 0..Len(b.events) - 1 \union {0}
  BY <1>2
<1>9. /\ again => faults + 2 <= MaxFaults
      /\ faults' = IF again THEN faults + 2 ELSE faults + 1
      /\ down' = [down EXCEPT ![to] = IF again THEN After(@, sent) ELSE After(@, sent) \ undo]
      /\ lost' = LostAfter(n, to,
           lost[to] \union (LiftedBy(b.events) \ PressedBy(sent)) \union undo)
  BY <1>2, <1>7 DEF Undone
<1>10. tracked' = [tracked EXCEPT ![n] =
         IF holds THEN {} ELSE IF b.note = "forget" THEN @ \ {b.of} ELSE @]
  BY <1>2, <1>7
<1>11. /\ PressedBy(sent) \subseteq Inputs /\ LeftDown(sent) \subseteq PressedBy(sent)
  BY <1>2, <1>8, EventInputs
<1>12. b.note = "forget" => b.of \in LiftedBy(b.events)
  BY <1>2 DEF Batches
<1> HIDE DEF b, e, d, n, to, holds, sent, undone
<1>13. After(down[to], sent) \subseteq down[to] \union PressedBy(sent) /\ down[to] \subseteq Inputs
  BY <1>2, <1>11 DEF After, InputInv, InputTypeOK
<1>14. /\ down' \in [Places -> SUBSET Inputs] /\ lost' \in [Places -> SUBSET Inputs]
       /\ \A p \in Places : lost'[p] \subseteq down'[p]
       /\ \A p \in Places \ {to} :
            down'[p] = down[p] /\ lost'[p] = (lost[p] \union GivenUp(n)) \intersect down'[p]
       /\ down'[to] = IF again THEN After(down[to], sent) ELSE After(down[to], sent) \ undo
       /\ lost'[to] = (lost[to] \union (LiftedBy(b.events) \ PressedBy(sent)) \union undo)
                       \intersect down'[to]
       /\ os \in Os
  <2> HIDE DEF undo
  <2>1. /\ down' \in [Places -> SUBSET Inputs]
        /\ \A p \in Places \ {to} : down'[p] = down[p]
        /\ down'[to] = IF again THEN After(down[to], sent) ELSE After(down[to], sent) \ undo
        /\ os \in Os
    BY <1>2, <1>9, <1>11, <1>13 DEF InputInv, InputTypeOK
  <2> QED BY <1>2, <1>9, <2>1 DEF LostAfter
<1>15. faults' \in 0..MaxFaults /\ faults' # 0
  BY <1>9, FaultsAssumption DEF InputInv, InputTypeOK, Fails
<1>16. /\ tracked' \in [InputSessions -> SUBSET Inputs]
       /\ \A s \in InputSessions : \A x \in tracked[s] :
             x \notin LiftedBy(b.events) /\ x \notin undo => x \in tracked'[s]
       /\ \A s \in InputSessions \ {n} : tracked'[s] = tracked[s]
  BY <1>2, <1>10, <1>12 DEF InputInv, InputTypeOK
<1>17. ASSUME os = "windows", NEW x \in down'[to] \ lost'[to]
       PROVE  (\E s \in InputSessions : x \in tracked'[s]) \/ (d.to = to /\ Cared(d, x))
  <2>1. PressedBy(sent) \subseteq undo /\ undone \subseteq undo
    BY <1>17 DEF release_partial_input
  <2> HIDE DEF undo
  <2>2. x \notin undo /\ x \notin LiftedBy(b.events) \ PressedBy(sent)
    BY <1>14, <1>17
  <2>3. x \in down[to] \ lost[to]
    BY <1>13, <1>14, <1>17, <2>1, <2>2
  <2>4. x \notin LiftedBy(b.events) /\ x \notin undone
    BY <2>1, <2>2
  <2>5. Accounted(to, x)
    BY <1>2, <1>17, <2>3 DEF InputInv
  <2> QED BY <1>3, <1>4, <1>16, <1>17, <2>2, <2>3, <2>4, <2>5 DEF Accounted
<1>18. ASSUME os = "windows", NEW p \in Places \ {to}, NEW x \in down'[p] \ lost'[p]
       PROVE  \E s \in InputSessions : x \in tracked'[s]
  <2> HIDE DEF undo
  <2> QED BY <1>2, <1>9, <1>14, <1>16, <1>18, OtherPlaces DEF to
<1> HIDE DEF undo
<1> QED BY <1>4, <1>5, <1>6, <1>14, <1>15, <1>16, <1>17, <1>18, InvNext

\* Releasing a session lifts what it remembers.
LEMMA ReleaseKeeps ==
  ASSUME InputInv, NEW s \in InputSessions, release_pressed(s)
  PROVE  InputInv'
<1>1. PICK stuck \in SUBSET tracked[s] :
        /\ stuck # {} => faults < MaxFaults
        /\ faults' = IF stuck = {} THEN faults ELSE faults + 1
        /\ down' = [down EXCEPT !["desktop"] = @ \ (tracked[s] \ stuck)]
        /\ lost' = LostAfter(s, "desktop", lost["desktop"] \union stuck)
  BY DEF release_pressed
<1>2. doing = Nothing /\ doing' = Nothing /\ os' = os /\ tracked' = [tracked EXCEPT ![s] = {}]
  BY DEF release_pressed
<1>3. faults' \in 0..MaxFaults /\ (faults' = 0 => faults = 0)
  BY <1>1, FaultsAssumption DEF InputInv, InputTypeOK
<1>4. tracked' \in [InputSessions -> SUBSET Inputs] /\ \A t \in InputSessions \ {s} : tracked'[t] = tracked[t]
  BY <1>2 DEF InputInv, InputTypeOK
<1>5. /\ down' \in [Places -> SUBSET Inputs] /\ lost' \in [Places -> SUBSET Inputs]
      /\ \A p \in Places : lost'[p] \subseteq down'[p]
      /\ \A p \in Places \ {"desktop"} :
           down'[p] = down[p] /\ lost'[p] = (lost[p] \union GivenUp(s)) \intersect down'[p]
      /\ down'["desktop"] = down["desktop"] \ (tracked[s] \ stuck)
      /\ lost'["desktop"] = (lost["desktop"] \union stuck) \intersect down'["desktop"]
      /\ "desktop" \in Places /\ os \in Os
  BY <1>1 DEF InputInv, InputTypeOK, LostAfter, Places
<1>6. ASSUME os = "windows" \/ faults' = 0, NEW x \in down'["desktop"] \ lost'["desktop"]
      PROVE  \E t \in InputSessions : x \in tracked'[t]
  <2>1. x \in down["desktop"] \ lost["desktop"] /\ x \notin tracked[s]
    BY <1>5, <1>6
  <2>2. Accounted("desktop", x) /\ ~Cared(doing, x)
    BY <1>2, <1>3, <1>5, <1>6, <2>1, NothingOK DEF InputInv
  <2> QED BY <1>4, <2>1, <2>2 DEF Accounted
<1>7. ASSUME os = "windows" \/ faults' = 0,
             NEW p \in Places \ {"desktop"}, NEW x \in down'[p] \ lost'[p]
      PROVE  \E t \in InputSessions : x \in tracked'[t]
  <2>1. os = "windows" \/ faults = 0
    BY <1>3, <1>7
  <2> QED BY <1>2, <1>4, <1>5, <1>7, <2>1, OtherPlaces
<1> QED BY <1>2, <1>3, <1>4, <1>5, <1>6, <1>7, NothingOK, InvNext

-----------------------------------------------------------------------------
(* The theorems.                                                           *)

\* What the steps of an action still owe to the desktop (execute of the
\* backends with release_partial_input, cleanup_pressed and the plans of its
\* actions): whatever is down is remembered by its session, or lifted by the
\* rest of the action under way, even if it fails, or its release has failed.
THEOREM InputInvariance == InputSpec => []InputInv
<1>1. InputInit => InputInv
  <2> SUFFICES ASSUME InputInit PROVE InputInv
    OBVIOUS
  <2>1. InputTypeOK
    BY FaultsAssumption DEF InputInit, InputTypeOK
  <2> QED BY <2>1, NothingOK DEF InputInit, InputInv
<1>2. InputInv /\ [InputNext]_inputVars => InputInv'
  <2> SUFFICES ASSUME InputInv, [InputNext]_inputVars PROVE InputInv'
    OBVIOUS
  <2>1. CASE UNCHANGED inputVars
    BY <2>1, InvNext, NothingOK DEF InputInv, InputTypeOK, inputVars, Accounted
  <2>2. CASE \E s \in InputSessions : StartInput(s) \/ release_pressed(s)
    BY <2>2, StartKeeps, ReleaseKeeps
  <2>3. CASE Performed
    BY <2>3, PerformedKeeps
  <2>4. CASE Fails
    BY <2>4, FailsKeeps
  <2> QED BY <2>1, <2>2, <2>3, <2>4 DEF InputNext
<1> QED BY <1>1, <1>2, PTL DEF InputSpec

\* The types of pixel input: every batch of every action presses and lifts
\* inputs only, and what is lost is down.
THEOREM InputTypes == InputSpec => []InputTypeOK
<1>1. InputInv => InputTypeOK
  BY DEF InputInv
<1> QED BY <1>1, InputInvariance, PTL

\* Between two actions nothing is down that no session remembers, unless its
\* release was tried and failed (release_partial_input, the undoing of drags,
\* hotkeys and modified actions, HoldKey and cleanup_pressed).
THEOREM PressedIsTracked == InputSpec => []DownIsTracked
<1>1. InputInv => DownIsTracked
  <2> SUFFICES ASSUME InputInv, doing = Nothing, os = "windows" \/ faults = 0, NEW p \in Places, NEW x \in down[p] \ lost[p]
               PROVE  \E s \in InputSessions : x \in tracked[s]
    BY DEF DownIsTracked
  <2> QED BY NothingOK DEF InputInv, Accounted
<1> QED BY <1>1, InputInvariance, PTL
=============================================================================
