-------------------------- MODULE FrameStore_proofs --------------------------
(***************************************************************************)
(* Proofs about the frame store, for any limits on frames, bytes and       *)
(* tombstones, any sizes of captures, and any number of captures and       *)
(* changes of the displays: what the store answers about a frame is true.  *)
(***************************************************************************)
EXTENDS FrameStore, TLAPS, SequenceTheorems, FiniteSetTheorems

Stored   == [bytes : Nat, png : Nat, gen : Nat, layout : Layouts]
Topology == [gen : Nat, layout : Layouts]
Fate     == [id : Nat, fate : {"Evicted", "Released"}]

ShapeInv ==
  /\ nextFrame \in Nat /\ layout \in Layouts /\ pending \in Stored
  /\ frames \in [DOMAIN frames -> Stored]
  /\ topology \subseteq Topology /\ \A s, t \in topology : s = t

\* Ids are handed out once, in order; the one of the frame being inserted is new.
IdInv ==
  /\ \A id \in DOMAIN frames : id \in Nat /\ id < nextFrame
  /\ loop = "insert" =>
       /\ nextFrame > 0 /\ nextFrame - 1 \notin DOMAIN frames
       /\ \A i \in 1..Len(fates) : fates[i].id # nextFrame - 1

\* A frame goes once and does not come back.
FateInv ==
  /\ fates \in Seq(Fate)
  /\ \A i \in 1..Len(fates) : fates[i].id < nextFrame /\ fates[i].id \notin DOMAIN frames
  /\ \A i, j \in 1..Len(fates) : fates[i].id = fates[j].id => i = j

\* The tombstones are those of the last frames that went.
TombSizes ==
  /\ tombOrder \in Seq(Nat)
  /\ Len(tombOrder) <= TombstoneLimit /\ Len(tombOrder) <= Len(fates)
  /\ Len(tombOrder) < TombstoneLimit => Len(tombOrder) = Len(fates)
Grave(id, stones, f) == id = f.id /\ f.id \in DOMAIN stones /\ stones[f.id] = f.fate
Graves(queue, stones, gone) ==
  \A i \in 1..Len(queue) : Grave(queue[i], stones, gone[Len(gone) - Len(queue) + i])
TombInv == TombSizes /\ Graves(tombOrder, tombstones, fates)

\* A frame is not newer than the topology, and of its layout if as new.
Behind(f, t) == f.gen <= t.gen /\ (f.gen = t.gen => f.layout = t.layout)
TopologyInv ==
  ~forgot =>
    /\ topology = {} => DOMAIN frames = {} /\ loop # "insert"
    /\ \A id \in DOMAIN frames, t \in topology : Behind(frames[id], t)
    /\ loop = "insert" => \A t \in topology : Behind(pending, t)

StoreInv == ShapeInv /\ IdInv /\ FateInv /\ TombInv /\ TopologyInv

-----------------------------------------------------------------------------
(* Operators.                                                              *)

\* The store without one frame, and with one more.
LEMMA DroppedFrames ==
  ASSUME ShapeInv, NEW id, frames' = Dropped(frames, id)
  PROVE  /\ DOMAIN frames' = DOMAIN frames \ {id}
         /\ frames' \in [DOMAIN frames' -> Stored]
         /\ \A x \in DOMAIN frames' : frames'[x] = frames[x]
BY DEF Dropped, ShapeInv

\* A frame that is inserted, and the ones that were there.
LEMMA AddedFrames ==
  ASSUME ShapeInv, NEW id, frames' = Added(frames, id, pending)
  PROVE  /\ DOMAIN frames' = DOMAIN frames \union {id}
         /\ frames' \in [DOMAIN frames' -> Stored]
         /\ frames'[id] = pending
         /\ \A x \in DOMAIN frames \ {id} : frames'[x] = frames[x]
BY DEF Added, ShapeInv

\* The placeholder of no pending frame has the type of a frame.
LEMMA NoFrameStored == NoFrame \in Stored
BY FrameSizes DEF NoFrame, Stored

\* The sizes are numbers.
LEMMA SizesTyped ==
  ASSUME FateInv, TombInv
  PROVE  /\ Len(fates) \in Nat /\ Len(tombOrder) \in Nat /\ TombstoneLimit \in Nat \ {0}
         /\ Len(tombOrder) <= Len(fates) /\ Len(tombOrder) <= TombstoneLimit
         /\ Len(tombOrder) < TombstoneLimit => Len(tombOrder) = Len(fates)
BY LenProperties, FrameLimits DEF FateInv, TombInv, TombSizes

-----------------------------------------------------------------------------
(* Induction, over a set of the cases that hold in place of a predicate.   *)

\* Of some subsets of a finite set, one has no other of them in it.
LEMMA MinimalSubset ==
  ASSUME NEW S, IsFiniteSet(S), NEW B \in SUBSET SUBSET S, B # {}
  PROVE  \E T \in B : \A U \in B : U \subseteq T => U = T
<1> DEFINE R == StrictSubsetOrdering(S)
<1>1. IsWellFoundedOn(R, SUBSET S)
  BY FS_StrictSubsetOrderingWellFounded, FS_FiniteSubsetsOfFinite
<1>2. B \subseteq SUBSET S
  OBVIOUS
<1>3. PICK T \in B : \A U \in B : <<U, T>> \notin R
  <2> HIDE DEF R
  <2> QED BY <1>1, <1>2, WFMin, Zenon
<1>4. ASSUME NEW U \in B, U \subseteq T PROVE U = T
  <2>1. U \in SUBSET S /\ T \in SUBSET S /\ <<U, T>> \notin R
    BY <1>2, <1>3
  <2>2. U # T => <<U, T>> \in R
    BY <1>4, <2>1 DEF StrictSubsetOrdering
  <2> QED BY <2>1, <2>2
<1> QED BY <1>4

\* What holds for a set when it holds for its smaller subsets holds for every
\* finite set.
LEMMA SetInduction ==
  ASSUME NEW S, IsFiniteSet(S), NEW G,
         \A T \in SUBSET S : (\A U \in SUBSET T : U # T => U \in G) => T \in G
  PROVE  S \in G
<1> DEFINE B == {T \in SUBSET S : T \notin G}
<1>1. CASE B = {}
  BY <1>1
<1>2. CASE B # {}
  <2>1. B \in SUBSET SUBSET S
    OBVIOUS
  <2>2. PICK T \in B : \A U \in B : U \subseteq T => U = T
    <3> HIDE DEF B
    <3> QED BY <1>2, <2>1, MinimalSubset
  <2> QED BY <2>2
<1> QED BY <1>1, <1>2

\* What holds for 0, and for n + 1 when it holds for n, holds for every number.
LEMMA NumberInduction ==
  ASSUME NEW G, 0 \in G, \A n \in Nat : n \in G => n + 1 \in G
  PROVE  \A n \in Nat : n \in G
<1> DEFINE R == {ss \in Nat \X Nat : ss[1] < ss[2]}
           B == {n \in Nat : n \notin G}
<1> SUFFICES ASSUME B # {} PROVE FALSE
  OBVIOUS
<1>1. IsWellFoundedOn(R, Nat)
  BY NatLessThanWellFounded DEF OpToRel
<1>2. PICK n \in B : \A m \in B : <<m, n>> \notin R
  <2>1. B \subseteq Nat
    OBVIOUS
  <2> HIDE DEF R, B
  <2> QED BY <1>1, <2>1, WFMin, Zenon
<1>3. n # 0 /\ n - 1 \in Nat /\ n - 1 \notin G
  BY <1>2
<1>4. <<n - 1, n>> \in R
  BY <1>3
<1> QED BY <1>2, <1>3, <1>4

-----------------------------------------------------------------------------
(* Sums of the values of a function over a finite set.                     *)

Pick(s) == CHOOSE x \in s : TRUE
SumRule(g, w, s) == IF s = {} THEN 0 ELSE w[Pick(s)] + g[s \ {Pick(s)}]
Sums(g, w, S) == g = [s \in SUBSET S |-> SumRule(g, w, s)]
SumOf(w, S) == (CHOOSE g : Sums(g, w, S))[S]

\* The sum of the library is the one defined here.
LEMMA SumDefined ==
  ASSUME NEW w, NEW S
  PROVE  SumFunctionOnSet(w, S) = SumOf(w, S)
BY DEF SumFunctionOnSet, FoldFunctionOnSet, MapThenFoldSet, SumOf, Sums, SumRule, Pick

\* An element can be picked, and its removal makes a set smaller.
LEMMA PickIn ==
  ASSUME NEW s, s # {}
  PROVE  Pick(s) \in s /\ s \ {Pick(s)} # s
BY DEF Pick

\* The partial sums over two sets agree where both are defined.
LEMMA SumsUnique ==
  ASSUME NEW w, NEW S, NEW T, IsFiniteSet(S), S \subseteq T,
         NEW g, NEW h, Sums(g, w, S), Sums(h, w, T)
  PROVE  g[S] = h[S]
<1> DEFINE G == {U \in SUBSET S : g[U] = h[U]}
<1>1. ASSUME NEW U \in SUBSET S, \A V \in SUBSET U : V # U => V \in G PROVE U \in G
  <2>1. g[U] = SumRule(g, w, U) /\ h[U] = SumRule(h, w, U)
    BY DEF Sums
  <2>2. U = {} \/ U \ {Pick(U)} \in G
    BY <1>1, PickIn
  <2> QED BY <2>1, <2>2 DEF SumRule
<1>2. S \in G
  <2> HIDE DEF G
  <2> QED BY <1>1, SetInduction
<1> QED BY <1>2

\* There are partial sums.
LEMMA SumsExist ==
  ASSUME NEW w, NEW S, IsFiniteSet(S)
  PROVE  \E g : Sums(g, w, S)
<1> DEFINE G == {T \in SUBSET S : \E g : Sums(g, w, T)}
           H(U) == CHOOSE h : Sums(h, w, U)
<1>1. ASSUME NEW T \in SUBSET S, \A U \in SUBSET T : U # T => U \in G PROVE T \in G
  <2> DEFINE v == [U \in SUBSET T |-> H(U)[U]]
             g == [U \in SUBSET T |-> SumRule(v, w, U)]
  <2>1. ASSUME NEW U \in SUBSET T, U # T PROVE Sums(H(U), w, U)
    BY <1>1, <2>1
  <2>2. ASSUME NEW U \in SUBSET T, U # T PROVE v[U] = SumRule(v, w, U)
    <3>1. v[U] = SumRule(H(U), w, U)
      <4>1. H(U)[U] = SumRule(H(U), w, U)
        <5> HIDE DEF H
        <5> QED BY <2>1, <2>2 DEF Sums
      <4> QED BY <4>1
    <3>2. CASE U = {}
      BY <3>1, <3>2 DEF SumRule
    <3>3. CASE U # {}
      <4> DEFINE X == U \ {Pick(U)}
      <4>1. X \subseteq U /\ X # T /\ X \in SUBSET T
        BY <2>2
      <4>2. Sums(H(X), w, X) /\ Sums(H(U), w, U) /\ IsFiniteSet(X)
        BY <2>1, <2>2, <4>1, FS_Subset
      <4>3. H(U)[X] = H(X)[X]
        <5> HIDE DEF H, X
        <5> QED BY <4>1, <4>2, SumsUnique
      <4> QED BY <3>1, <4>1, <4>3 DEF SumRule
    <3> QED BY <3>2, <3>3
  <2>3. ASSUME NEW U \in SUBSET T PROVE SumRule(g, w, U) = SumRule(v, w, U)
    <3>1. CASE U = {}
      BY <3>1 DEF SumRule
    <3>2. CASE U # {}
      <4>1. U \ {Pick(U)} \in SUBSET T /\ U \ {Pick(U)} # T
        BY <3>2, PickIn
      <4>2. g[U \ {Pick(U)}] = v[U \ {Pick(U)}]
        <5> HIDE DEF v
        <5> QED BY <2>2, <4>1
      <4> QED BY <4>2 DEF SumRule
    <3> QED BY <3>1, <3>2
  <2>4. g = [U \in SUBSET T |-> SumRule(g, w, U)]
    <3>1. g = [U \in SUBSET T |-> SumRule(v, w, U)]
      OBVIOUS
    <3> HIDE DEF g, v
    <3> QED BY <3>1, <2>3
  <2>5. Sums(g, w, T)
    BY <2>4 DEF Sums
  <2> QED BY <2>5
<1>2. S \in G
  <2> HIDE DEF G
  <2> QED BY <1>1, SetInduction
<1> QED BY <1>2

\* The two cases of the definition.
LEMMA SumEmpty ==
  ASSUME NEW w
  PROVE  SumFunctionOnSet(w, {}) = 0
<1>1. Sums(CHOOSE h : Sums(h, w, {}), w, {})
  BY SumsExist, FS_EmptySet
<1>2. SumOf(w, {}) = 0
  BY <1>1 DEF SumOf, Sums, SumRule
<1> QED BY <1>2, SumDefined

\* The sum over a set is the picked weight and the sum over the rest.
LEMMA SumStep ==
  ASSUME NEW w, NEW S, IsFiniteSet(S), S # {}
  PROVE  SumFunctionOnSet(w, S) = w[Pick(S)] + SumFunctionOnSet(w, S \ {Pick(S)})
<1> DEFINE X == S \ {Pick(S)}
           g == CHOOSE h : Sums(h, w, S)
           k == CHOOSE h : Sums(h, w, X)
<1>1. IsFiniteSet(X) /\ X \subseteq S
  BY FS_Subset
<1>2. Sums(g, w, S) /\ Sums(k, w, X)
  BY <1>1, SumsExist
<1>3. g[S] = w[Pick(S)] + g[X]
  <2> HIDE DEF g
  <2> QED BY <1>2 DEF Sums, SumRule
<1>4. k[X] = g[X]
  <2> HIDE DEF g, k, X
  <2> QED BY <1>1, <1>2, SumsUnique
<1>5. SumOf(w, S) = g[S] /\ SumOf(w, X) = k[X]
  BY DEF SumOf
<1> QED BY <1>3, <1>4, <1>5, SumDefined

\* Sums of naturals are naturals.
LEMMA SumNat ==
  ASSUME NEW w, NEW S, IsFiniteSet(S), \A x \in S : w[x] \in Nat
  PROVE  SumFunctionOnSet(w, S) \in Nat
<1> DEFINE G == {T \in SUBSET S : SumFunctionOnSet(w, T) \in Nat}
<1>1. ASSUME NEW T \in SUBSET S, \A U \in SUBSET T : U # T => U \in G PROVE T \in G
  <2>1. CASE T = {}
    BY <2>1, SumEmpty
  <2>2. CASE T # {}
    <3>1. Pick(T) \in T /\ T \ {Pick(T)} \in G
      BY <1>1, <2>2, PickIn
    <3>2. IsFiniteSet(T)
      BY FS_Subset
    <3> QED BY <2>2, <3>1, <3>2, SumStep
  <2> QED BY <2>1, <2>2
<1>2. S \in G
  <2> HIDE DEF G
  <2> QED BY <1>1, SetInduction
<1> QED BY <1>2

\* Any element can be taken out first.
LEMMA SumTake ==
  ASSUME NEW w, NEW S, IsFiniteSet(S), \A x \in S : w[x] \in Nat, NEW x \in S
  PROVE  SumFunctionOnSet(w, S) = w[x] + SumFunctionOnSet(w, S \ {x})
<1> DEFINE Total(T) == SumFunctionOnSet(w, T)
           G == {T \in SUBSET S : \A y \in T : Total(T) = w[y] + Total(T \ {y})}
<1>1. ASSUME NEW T \in SUBSET S, \A U \in SUBSET T : U # T => U \in G, NEW y \in T
      PROVE  Total(T) = w[y] + Total(T \ {y})
  <2>1. PICK p \in T : p = Pick(T)
    BY PickIn
  <2>2. IsFiniteSet(T)
    BY FS_Subset
  <2>3. Total(T) = w[p] + Total(T \ {p})
    BY <2>1, <2>2, SumStep
  <2>4. CASE y # p
    <3>1. T \ {p} \in G /\ T \ {y} \in G
      BY <1>1
    <3>2. (T \ {y}) \ {p} = (T \ {p}) \ {y}
      OBVIOUS
    <3>3. PICK n \in Nat : n = Total((T \ {p}) \ {y})
      <4>1. IsFiniteSet((T \ {p}) \ {y})
        BY <2>2, FS_Subset
      <4> QED BY <4>1, SumNat
    <3>4. Total(T \ {p}) = w[y] + n /\ Total(T \ {y}) = w[p] + n
      <4> HIDE DEF Total
      <4> QED BY <3>1, <3>2, <3>3, <2>4
    <3>5. w[p] \in Nat /\ w[y] \in Nat
      OBVIOUS
    <3> HIDE DEF Total
    <3> QED BY <2>3, <3>4, <3>5
  <2> QED BY <2>3, <2>4
<1>2. S \in G
  <2>1. \A T \in SUBSET S : (\A U \in SUBSET T : U # T => U \in G) => T \in G
    BY <1>1
  <2> HIDE DEF G
  <2> QED BY <2>1, SetInduction
<1> QED BY <1>2

\* Values that agree have the same sum.
LEMMA SumAgree ==
  ASSUME NEW v, NEW w, NEW S, IsFiniteSet(S), \A x \in S : v[x] = w[x]
  PROVE  SumFunctionOnSet(v, S) = SumFunctionOnSet(w, S)
<1> DEFINE G == {T \in SUBSET S : SumFunctionOnSet(v, T) = SumFunctionOnSet(w, T)}
<1>1. ASSUME NEW T \in SUBSET S, \A U \in SUBSET T : U # T => U \in G PROVE T \in G
  <2>1. CASE T = {}
    BY <2>1, SumEmpty
  <2>2. CASE T # {}
    <3>1. Pick(T) \in T /\ T \ {Pick(T)} \in G
      BY <1>1, <2>2, PickIn
    <3>2. IsFiniteSet(T)
      BY FS_Subset
    <3> QED BY <2>2, <3>1, <3>2, SumStep
  <2> QED BY <2>1, <2>2
<1>2. S \in G
  <2> HIDE DEF G
  <2> QED BY <1>1, SetInduction
<1> QED BY <1>2

\* A sum that is not zero has a term that is not.
LEMMA SumNotZero ==
  ASSUME NEW w, NEW S, IsFiniteSet(S), SumFunctionOnSet(w, S) # 0
  PROVE  \E x \in S : w[x] # 0
<1> SUFFICES ASSUME \A x \in S : w[x] = 0 PROVE FALSE
  OBVIOUS
<1> DEFINE G == {T \in SUBSET S : SumFunctionOnSet(w, T) = 0}
<1>1. ASSUME NEW T \in SUBSET S, \A U \in SUBSET T : U # T => U \in G PROVE T \in G
  <2>1. CASE T = {}
    BY <2>1, SumEmpty
  <2>2. CASE T # {}
    <3>1. Pick(T) \in T /\ T \ {Pick(T)} \in G
      BY <1>1, <2>2, PickIn
    <3>2. IsFiniteSet(T)
      BY FS_Subset
    <3> QED BY <2>2, <3>1, <3>2, SumStep
  <2> QED BY <2>1, <2>2
<1>2. S \in G
  <2> HIDE DEF G
  <2> QED BY <1>1, SetInduction
<1> QED BY <1>2

-----------------------------------------------------------------------------
(* What is counted of the stored frames.                                   *)

PixelsOf(f)  == [id \in DOMAIN f |-> f[id].bytes]
EncodedOf(f) == [id \in DOMAIN f |-> f[id].png]
Pixels(f)    == SumFunctionOnSet(PixelsOf(f), DOMAIN f)
Encoded(f)   == SumFunctionOnSet(EncodedOf(f), DOMAIN f)

Holdings(f) == f \in [DOMAIN f -> Stored] /\ IsFiniteSet(DOMAIN f)

\* The two counts of stored frames are naturals.
LEMMA CountsTyped ==
  ASSUME NEW f, Holdings(f)
  PROVE  Pixels(f) \in Nat /\ Encoded(f) \in Nat
<1>1. \A id \in DOMAIN f : PixelsOf(f)[id] \in Nat /\ EncodedOf(f)[id] \in Nat
  BY DEF Holdings, Stored, PixelsOf, EncodedOf
<1> QED BY <1>1, SumNat DEF Pixels, Encoded, Holdings

\* A frame counts for what it has, and the others for what they had.
LEMMA CountsDropped ==
  ASSUME NEW f, Holdings(f), NEW id \in DOMAIN f
  PROVE  /\ Holdings(Dropped(f, id))
         /\ Pixels(f) = f[id].bytes + Pixels(Dropped(f, id))
         /\ Encoded(f) = f[id].png + Encoded(Dropped(f, id))
<1> DEFINE S == DOMAIN f
           g == Dropped(f, id)
<1>1. DOMAIN g = S \ {id} /\ \A x \in S \ {id} : g[x] = f[x]
  BY DEF Dropped
<1>2. Holdings(g)
  <2>1. IsFiniteSet(S \ {id})
    BY FS_Subset DEF Holdings
  <2> QED BY <1>1, <2>1 DEF Holdings, Dropped
<1>3. Pixels(f) = f[id].bytes + Pixels(g)
  <2>1. \A x \in S : PixelsOf(f)[x] \in Nat
    BY DEF Holdings, Stored, PixelsOf
  <2>2. Pixels(f) = PixelsOf(f)[id] + SumFunctionOnSet(PixelsOf(f), S \ {id})
    BY <2>1, SumTake DEF Pixels, Holdings
  <2>3. \A x \in S \ {id} : PixelsOf(f)[x] = PixelsOf(g)[x]
    BY <1>1 DEF PixelsOf
  <2>4. SumFunctionOnSet(PixelsOf(f), S \ {id}) = SumFunctionOnSet(PixelsOf(g), S \ {id})
    <3>1. IsFiniteSet(S \ {id})
      BY FS_Subset DEF Holdings
    <3> QED BY <2>3, <3>1, SumAgree
  <2> QED BY <1>1, <2>2, <2>4 DEF Pixels, PixelsOf
<1>4. Encoded(f) = f[id].png + Encoded(g)
  <2>1. \A x \in S : EncodedOf(f)[x] \in Nat
    BY DEF Holdings, Stored, EncodedOf
  <2>2. Encoded(f) = EncodedOf(f)[id] + SumFunctionOnSet(EncodedOf(f), S \ {id})
    BY <2>1, SumTake DEF Encoded, Holdings
  <2>3. \A x \in S \ {id} : EncodedOf(f)[x] = EncodedOf(g)[x]
    BY <1>1 DEF EncodedOf
  <2>4. SumFunctionOnSet(EncodedOf(f), S \ {id}) = SumFunctionOnSet(EncodedOf(g), S \ {id})
    <3>1. IsFiniteSet(S \ {id})
      BY FS_Subset DEF Holdings
    <3> QED BY <2>3, <3>1, SumAgree
  <2> QED BY <1>1, <2>2, <2>4 DEF Encoded, EncodedOf
<1> QED BY <1>2, <1>3, <1>4

\* A new frame adds its pixels and its picture to the counts.
LEMMA CountsAdded ==
  ASSUME NEW f, Holdings(f), NEW id, id \notin DOMAIN f, NEW v \in Stored
  PROVE  /\ Holdings(Added(f, id, v))
         /\ Pixels(Added(f, id, v)) = v.bytes + Pixels(f)
         /\ Encoded(Added(f, id, v)) = v.png + Encoded(f)
<1> DEFINE g == Added(f, id, v)
<1>1. DOMAIN g = DOMAIN f \union {id} /\ g[id] = v /\ \A x \in DOMAIN f : g[x] = f[x]
  BY DEF Added
<1>2. Holdings(g)
  <2>1. IsFiniteSet(DOMAIN f \union {id})
    BY FS_AddElement DEF Holdings
  <2> QED BY <1>1, <2>1 DEF Holdings, Added
<1>3. Dropped(g, id) = f
  <2>1. DOMAIN g \ {id} = DOMAIN f
    BY <1>1
  <2>2. f = [x \in DOMAIN f |-> f[x]]
    BY DEF Holdings
  <2>3. [x \in DOMAIN f |-> g[x]] = [x \in DOMAIN f |-> f[x]]
    BY <1>1
  <2> HIDE DEF g
  <2> QED BY <2>1, <2>2, <2>3 DEF Dropped
<1>4. /\ Pixels(g) = g[id].bytes + Pixels(Dropped(g, id))
      /\ Encoded(g) = g[id].png + Encoded(Dropped(g, id))
  <2> HIDE DEF g
  <2> QED BY <1>1, <1>2, CountsDropped
<1> HIDE DEF g
<1>5. Pixels(g) = v.bytes + Pixels(f) /\ Encoded(g) = v.png + Encoded(f) /\ Holdings(g)
  BY <1>1, <1>2, <1>3, <1>4
<1> QED BY <1>5 DEF g

\* Another encoding of one frame.
LEMMA CountsEncoded ==
  ASSUME NEW f, Holdings(f), NEW g, Holdings(g), DOMAIN g = DOMAIN f, NEW id \in DOMAIN f,
         g[id].bytes = f[id].bytes, \A x \in DOMAIN f \ {id} : g[x] = f[x]
  PROVE  /\ Pixels(g) = Pixels(f)
         /\ \E n \in Nat : Encoded(f) = f[id].png + n /\ Encoded(g) = g[id].png + n
<1>1. /\ DOMAIN g = DOMAIN f
      /\ \A x \in DOMAIN f : g[x] \in Stored /\ g[x].bytes = f[x].bytes /\ (x # id => g[x] = f[x])
  BY DEF Holdings
<1>3. Pixels(g) = Pixels(f)
  <2>1. PixelsOf(g) = PixelsOf(f)
    BY <1>1 DEF PixelsOf
  <2> QED BY <2>1, <1>1 DEF Pixels
<1>4. \E n \in Nat : Encoded(f) = f[id].png + n /\ Encoded(g) = g[id].png + n
  <2>1. /\ \A x \in DOMAIN f : EncodedOf(f)[x] \in Nat
        /\ EncodedOf(f)[id] = f[id].png /\ EncodedOf(g)[id] = g[id].png /\ g[id].png \in Nat
        /\ \A x \in DOMAIN f \ {id} : EncodedOf(g)[x] = EncodedOf(f)[x]
    BY <1>1 DEF EncodedOf, Holdings, Stored
  <2>2. IsFiniteSet(DOMAIN f)
    BY DEF Holdings
  <2>3. PICK w, v, S : w = EncodedOf(f) /\ v = EncodedOf(g) /\ S = DOMAIN f
    OBVIOUS
  <2>4. /\ \A y \in S : w[y] \in Nat
        /\ \A y \in S : v[y] \in Nat
        /\ \A y \in S \ {id} : v[y] = w[y]
    BY <2>1, <2>3
  <2>5. IsFiniteSet(S) /\ IsFiniteSet(S \ {id}) /\ id \in S
    BY <2>2, <2>3, FS_Subset
  <2>6. /\ SumFunctionOnSet(w, S) = w[id] + SumFunctionOnSet(w, S \ {id})
        /\ SumFunctionOnSet(v, S) = v[id] + SumFunctionOnSet(v, S \ {id})
    BY <2>4, <2>5, SumTake
  <2>7. /\ SumFunctionOnSet(v, S \ {id}) = SumFunctionOnSet(w, S \ {id})
        /\ SumFunctionOnSet(w, S \ {id}) \in Nat
    BY <2>4, <2>5, SumAgree, SumNat
  <2>8. Encoded(f) = SumFunctionOnSet(w, S) /\ Encoded(g) = SumFunctionOnSet(v, S)
    BY <1>1, <2>3 DEF Encoded
  <2> QED BY <2>1, <2>3, <2>6, <2>7, <2>8
<1> QED BY <1>3, <1>4

-----------------------------------------------------------------------------
(* The queue of the stored frames.                                         *)

\* Every id of a set, once.
QueueOf(q, D) ==
  /\ q \in Seq(Nat)
  /\ \A i, j \in 1..Len(q) : q[i] = q[j] => i = j
  /\ {q[i] : i \in 1..Len(q)} = D

\* A queue of a set is as long as the set is large.
LEMMA QueueLength ==
  ASSUME NEW q, NEW D, QueueOf(q, D)
  PROVE  IsFiniteSet(D) /\ Len(q) = Cardinality(D)
<1>1. Len(q) \in Nat /\ q \in [1..Len(q) -> D]
  BY LenProperties DEF QueueOf
<1>2. q \in Bijection(1..Len(q), D)
  BY <1>1 DEF QueueOf, Bijection, Injection, Surjection, IsInjective
<1>3. ExistsBijection(1..Len(q), D)
  BY <1>2 DEF ExistsBijection
<1> QED BY <1>1, <1>3, FS_CountingElements, FS_NatBijection

\* Enqueueing a new id.
LEMMA QueueAppend ==
  ASSUME NEW q, NEW D, QueueOf(q, D), NEW x \in Nat, x \notin D
  PROVE  QueueOf(Append(q, x), D \union {x})
<1> DEFINE r == Append(q, x)
<1>1. PICK n \in Nat : n = Len(q)
  BY LenProperties DEF QueueOf
<1>2. /\ r \in Seq(Nat) /\ Len(r) = n + 1 /\ r[n + 1] = x
      /\ \A i \in 1..n : r[i] = q[i]
  BY <1>1, AppendProperties DEF QueueOf
<1> HIDE DEF r
<1>3. \A i \in 1..n + 1 : i = n + 1 \/ i \in 1..n
  OBVIOUS
<1>4. /\ \A i, j \in 1..n : q[i] = q[j] => i = j
      /\ \A y : y \in D <=> \E i \in 1..n : q[i] = y
  BY <1>1 DEF QueueOf
<1>5. \A i, j \in 1..n + 1 : r[i] = r[j] => i = j
  <2>1. \A i \in 1..n : q[i] # x
    BY <1>4
  <2> QED BY <1>2, <1>3, <1>4, <2>1
<1>6. \A i \in 1..n + 1 : r[i] \in D \union {x}
  BY <1>2, <1>3, <1>4
<1>7. ASSUME NEW y \in D \union {x} PROVE \E i \in 1..n + 1 : r[i] = y
  <2>1. CASE y = x
    BY <1>2, <2>1
  <2>2. CASE y \in D
    <3>1. PICK i \in 1..n : q[i] = y
      BY <1>4, <2>2
    <3> QED BY <1>2, <3>1
  <2> QED BY <2>1, <2>2
<1>8. {r[i] : i \in 1..n + 1} = D \union {x}
  BY <1>6, <1>7
<1>9. QueueOf(r, D \union {x})
  BY <1>2, <1>5, <1>8 DEF QueueOf
<1> QED BY <1>9 DEF r

\* Dequeueing the oldest id, and moving it to the back.
LEMMA QueueTail ==
  ASSUME NEW q, NEW D, QueueOf(q, D), q # <<>>
  PROVE  /\ Head(q) \in D
         /\ QueueOf(Tail(q), D \ {Head(q)})
         /\ QueueOf(Append(Tail(q), Head(q)), D)
<1>1. PICK n \in Nat : Len(q) = n + 1 /\ q \in Seq(Nat)
  <2>1. Len(q) \in Nat /\ Len(q) # 0 /\ q \in Seq(Nat)
    BY LenProperties, EmptySeq DEF QueueOf
  <2>2. Len(q) - 1 \in Nat /\ Len(q) = (Len(q) - 1) + 1
    BY <2>1
  <2> QED BY <2>1, <2>2
<1>2. /\ Head(q) = q[1] /\ Tail(q) \in Seq(Nat) /\ Len(Tail(q)) = n
      /\ \A i \in 1..n : Tail(q)[i] = q[i + 1]
  BY <1>1, HeadTailProperties
<1>3. \A i, j \in 1..n + 1 : q[i] = q[j] => i = j
  BY <1>1 DEF QueueOf
<1>4. \A x : x \in D <=> \E i \in 1..n + 1 : q[i] = x
  BY <1>1 DEF QueueOf
<1>5. Head(q) \in D /\ Head(q) \in Nat
  BY <1>1, <1>2, <1>4
<1>6. QueueOf(Tail(q), D \ {Head(q)})
  <2>1. \A i, j \in 1..n : Tail(q)[i] = Tail(q)[j] => i = j
    <3>1. ASSUME NEW i \in 1..n, NEW j \in 1..n, Tail(q)[i] = Tail(q)[j] PROVE i = j
      <4>1. i + 1 \in 1..n + 1 /\ j + 1 \in 1..n + 1
        OBVIOUS
      <4>2. q[i + 1] = q[j + 1]
        BY <1>2, <3>1
      <4> QED BY <1>3, <4>1, <4>2
    <3> QED BY <3>1
  <2>2. ASSUME NEW i \in 1..n PROVE Tail(q)[i] \in D \ {Head(q)}
    <3>1. i + 1 \in 1..n + 1 /\ 1 \in 1..n + 1 /\ i + 1 # 1
      OBVIOUS
    <3> QED BY <1>2, <1>3, <1>4, <3>1
  <2>3. ASSUME NEW x \in D \ {Head(q)} PROVE \E i \in 1..n : Tail(q)[i] = x
    <3>1. PICK k \in 1..n + 1 : q[k] = x
      BY <1>4
    <3>2. k - 1 \in 1..n /\ (k - 1) + 1 = k
      BY <1>2, <3>1
    <3>3. Tail(q)[k - 1] = x
      BY <1>2, <3>1, <3>2
    <3> QED BY <3>2, <3>3
  <2> QED BY <1>2, <2>1, <2>2, <2>3 DEF QueueOf
<1>7. QueueOf(Append(Tail(q), Head(q)), D)
  <2>1. (D \ {Head(q)}) \union {Head(q)} = D
    BY <1>5
  <2>2. QueueOf(Append(Tail(q), Head(q)), (D \ {Head(q)}) \union {Head(q)})
    BY <1>5, <1>6, QueueAppend
  <2> QED BY <2>1, <2>2
<1> QED BY <1>5, <1>6, <1>7

\* What retain has kept of the first i entries.
KeptRule(k, q, id, i) ==
  IF i = 0 THEN <<>> ELSE IF q[i] = id THEN k[i - 1] ELSE Append(k[i - 1], q[i])
Keeps(k, q, id, n) == k = [i \in 0..n |-> KeptRule(k, q, id, i)]

\* The recursive function that retains the other ids exists.
LEMMA KeepsExists ==
  ASSUME NEW q, NEW id, NEW m \in Nat
  PROVE  \E k : Keeps(k, q, id, m)
<1> DEFINE G == {n \in Nat : \E k : Keeps(k, q, id, n)}
<1>1. 0 \in G
  <2> DEFINE k == [i \in 0..0 |-> <<>>]
  <2>1. Keeps(k, q, id, 0)
    BY DEF Keeps, KeptRule
  <2> QED BY <2>1
<1>2. ASSUME NEW n \in Nat, n \in G PROVE n + 1 \in G
  <2>1. PICK k : Keeps(k, q, id, n)
    BY <1>2
  <2> DEFINE l == [i \in 0..n + 1 |-> IF i = n + 1 THEN KeptRule(k, q, id, n + 1) ELSE k[i]]
  <2>2. ASSUME NEW i \in 0..n + 1 PROVE l[i] = KeptRule(l, q, id, i)
    <3>1. CASE i = n + 1
      <4>1. n \in 0..n + 1 /\ n # n + 1 /\ i # 0 /\ i - 1 = n
        BY <3>1
      <4>2. l[n] = k[n] /\ l[i] = KeptRule(k, q, id, i)
        BY <3>1, <4>1
      <4> HIDE DEF l
      <4> QED BY <4>1, <4>2 DEF KeptRule
    <3>2. CASE i # n + 1
      <4>1. i \in 0..n
        BY <3>2
      <4>2. l[i] = KeptRule(k, q, id, i)
        BY <2>1, <3>2, <4>1 DEF Keeps
      <4>3. i # 0 => i - 1 \in 0..n + 1 /\ i - 1 # n + 1
        BY <4>1
      <4>4. i # 0 => l[i - 1] = k[i - 1]
        BY <4>3
      <4> HIDE DEF l
      <4> QED BY <4>2, <4>4 DEF KeptRule
    <3> QED BY <3>1, <3>2
  <2>3. l = [i \in 0..n + 1 |-> l[i]]
    OBVIOUS
  <2>4. Keeps(l, q, id, n + 1)
    <3> HIDE DEF l
    <3> QED BY <2>2, <2>3 DEF Keeps
  <2> QED BY <2>4
<1>3. m \in G
  <2> HIDE DEF G
  <2> QED BY <1>1, <1>2, NumberInduction
<1> QED BY <1>3

\* retain takes out the id and nothing else.
LEMMA QueueWithout ==
  ASSUME NEW q, NEW D, QueueOf(q, D), NEW id
  PROVE  QueueOf(WithoutId(q, id), D \ {id})
<1>1. PICK m \in Nat : m = Len(q)
  BY LenProperties DEF QueueOf
<1> DEFINE k == CHOOSE k : Keeps(k, q, id, m)
<1>2. WithoutId(q, id) = k[m]
  BY <1>1 DEF WithoutId, Keeps, KeptRule
<1>3. Keeps(k, q, id, m)
  BY KeepsExists
<1> HIDE DEF k
<1>4. /\ \A i \in 1..m : q[i] \in Nat
      /\ \A i, j \in 1..m : q[i] = q[j] => i = j
      /\ {q[i] : i \in 1..m} = D
  BY <1>1, ElementOfSeq DEF QueueOf
<1> DEFINE First(n) == {q[i] : i \in 1..n}
           G == {n \in Nat : n <= m => QueueOf(k[n], First(n) \ {id})}
<1>5. 0 \in G
  <2>1. k[0] = <<>>
    BY <1>3 DEF Keeps, KeptRule
  <2>2. <<>> \in Seq(Nat) /\ Len(<<>>) = 0
    OBVIOUS
  <2>3. First(0) = {}
    OBVIOUS
  <2>4. QueueOf(<<>>, {})
    BY <2>2 DEF QueueOf
  <2> QED BY <2>1, <2>3, <2>4
<1>6. ASSUME NEW n \in Nat, n \in G PROVE n + 1 \in G
  <2> SUFFICES ASSUME n + 1 <= m PROVE QueueOf(k[n + 1], First(n + 1) \ {id})
    OBVIOUS
  <2>1. QueueOf(k[n], First(n) \ {id})
    BY <1>6
  <2>2. n + 1 \in 0..m /\ n + 1 # 0 /\ (n + 1) - 1 = n /\ n + 1 \in 1..m
    OBVIOUS
  <2>3. k[n + 1] = IF q[n + 1] = id THEN k[n] ELSE Append(k[n], q[n + 1])
    BY <1>3, <2>2 DEF Keeps, KeptRule
  <2>4. First(n + 1) = First(n) \union {q[n + 1]}
    <3>1. \A i : i \in 1..n + 1 <=> i \in 1..n \/ i = n + 1
      OBVIOUS
    <3> QED BY <3>1
  <2>5. q[n + 1] \notin First(n) /\ q[n + 1] \in Nat
    BY <1>4, <2>2
  <2> HIDE DEF First
  <2>6. CASE q[n + 1] = id
    <3>1. First(n + 1) \ {id} = First(n) \ {id}
      BY <2>4, <2>6
    <3> QED BY <2>1, <2>3, <2>6, <3>1
  <2>7. CASE q[n + 1] # id
    <3>1. First(n + 1) \ {id} = (First(n) \ {id}) \union {q[n + 1]}
      BY <2>4, <2>7
    <3>2. QueueOf(Append(k[n], q[n + 1]), (First(n) \ {id}) \union {q[n + 1]})
      BY <2>1, <2>5, QueueAppend
    <3> QED BY <2>3, <2>7, <3>1, <3>2
  <2> QED BY <2>6, <2>7
<1>7. m \in G
  <2> HIDE DEF G
  <2> QED BY <1>5, <1>6, NumberInduction
<1>8. First(m) = D
  BY <1>4
<1> HIDE DEF First
<1> QED BY <1>2, <1>7, <1>8

-----------------------------------------------------------------------------
(* Steps that lose no frame.                                               *)

\* A step that changes at most what is cached of the frames.
Cached ==
  /\ UNCHANGED <<layout, topology, tombstones, tombOrder, nextFrame, pending, fates, forgot>>
  /\ loop' # "insert" \/ loop' = loop
  /\ DOMAIN frames' = DOMAIN frames /\ frames' \in [DOMAIN frames -> Stored]
  /\ \A id \in DOMAIN frames : frames'[id].gen = frames[id].gen /\ frames'[id].layout = frames[id].layout

\* Reading a cached picture changes nothing the invariant speaks of.
LEMMA CachedKeeps ==
  ASSUME StoreInv, Cached
  PROVE  StoreInv'
<1> USE DEF StoreInv, Cached
<1>1. ShapeInv'
  BY DEF ShapeInv
<1>2. IdInv' /\ FateInv' /\ TombInv'
  BY DEF IdInv, FateInv, TombInv, TombSizes
<1>3. TopologyInv'
  BY DEF TopologyInv, Behind
<1> QED BY <1>1, <1>2, <1>3

\* Writing the cached encoding of a frame changes nothing else of it.
LEMMA PngOnly ==
  ASSUME ShapeInv, NEW id \in DOMAIN frames, NEW png \in Nat, frames' = [frames EXCEPT ![id].png = png]
  PROVE  /\ DOMAIN frames' = DOMAIN frames /\ frames' \in [DOMAIN frames -> Stored]
         /\ \A x \in DOMAIN frames : frames'[x].gen = frames[x].gen /\ frames'[x].layout = frames[x].layout
BY DEF ShapeInv, Stored

\* Encoding changes the pictures of frames and no frame.
LEMMA EncodeKeeps ==
  ASSUME StoreInv, WindowsEncode \/ MacEncode \/ Shrink \/ Shrunk
  PROVE  StoreInv'
<1>1. CASE WindowsEncode \/ MacEncode
  <2>1. PICK id \in DOMAIN frames, png \in PngSizes : frames' = [frames EXCEPT ![id].png = png]
    BY <1>1 DEF WindowsEncode, MacEncode, CacheEncoding
  <2>2. png \in Nat
    BY FrameSizes
  <2>3. Cached
    BY <1>1, <2>1, <2>2, PngOnly DEF WindowsEncode, MacEncode, Cached, StoreInv
  <2> QED BY <2>3, CachedKeeps
<1>2. CASE Shrink
  <2>1. CASE UNCHANGED frames
    <3>1. Cached
      BY <1>2, <2>1 DEF Shrink, Cached, StoreInv, ShapeInv
    <3> QED BY <3>1, CachedKeeps
  <2>2. CASE Head(frameOrder) \in DOMAIN frames /\ frames' = [frames EXCEPT ![Head(frameOrder)].png = 0]
    <3>1. Cached
      BY <1>2, <2>2, PngOnly DEF Shrink, Cached, StoreInv
    <3> QED BY <3>1, CachedKeeps
  <2> QED BY <1>2, <2>1, <2>2 DEF Shrink
<1>3. CASE Shrunk
  <2>1. Cached
    BY <1>3 DEF Shrunk, storeParts, Cached, StoreInv, ShapeInv
  <2> QED BY <2>1, CachedKeeps
<1> QED BY <1>1, <1>2, <1>3

\* The displays move, and the backend reads them, or loses them.
LEMMA DisplayKeeps ==
  ASSUME StoreInv, DisplaysChange \/ RefreshTopology \/ TopologyLost
  PROVE  StoreInv'
<1>1. UNCHANGED <<frames, tombstones, tombOrder, nextFrame, loop, pending, fates>>
  BY DEF DisplaysChange, RefreshTopology, TopologyLost, storeParts
<1>2. IdInv' /\ FateInv' /\ TombInv'
  BY <1>1 DEF StoreInv, IdInv, FateInv, TombInv, TombSizes
<1>3. CASE DisplaysChange
  BY <1>1, <1>2, <1>3 DEF DisplaysChange, StoreInv, ShapeInv, TopologyInv
<1>4. CASE TopologyLost
  BY <1>1, <1>2, <1>4 DEF TopologyLost, StoreInv, ShapeInv, TopologyInv
<1>5. CASE RefreshTopology
  <2>1. UNCHANGED <<layout, forgot>> /\ loop = "none"
    BY <1>5 DEF RefreshTopology
  <2>2. CASE topology = {} /\ topology' = {[gen |-> 1, layout |-> layout]}
    <3>1. ShapeInv'
      BY <1>1, <2>1, <2>2 DEF StoreInv, ShapeInv, Topology
    <3>2. TopologyInv'
      BY <1>1, <2>1, <2>2 DEF StoreInv, TopologyInv
    <3> QED BY <1>2, <3>1, <3>2 DEF StoreInv
  <2>3. CASE \E old \in topology : topology' = {[gen |-> GenerationAfter(old, layout), layout |-> layout]}
    <3>1. PICK old \in topology : topology' = {[gen |-> GenerationAfter(old, layout), layout |-> layout]}
      BY <2>3
    <3>2. old.gen \in Nat /\ old.layout \in Layouts /\ layout \in Layouts
      BY DEF StoreInv, ShapeInv, Topology
    <3>3. \/ old.layout = layout /\ GenerationAfter(old, layout) = old.gen
          \/ GenerationAfter(old, layout) = old.gen + 1
      BY DEF GenerationAfter
    <3>4. ShapeInv'
      BY <1>1, <2>1, <3>1, <3>2, <3>3 DEF StoreInv, ShapeInv, Topology
    <3>5. ASSUME ~forgot, NEW id \in DOMAIN frames, NEW t \in topology' PROVE Behind(frames[id], t)
      <4>1. Behind(frames[id], old) /\ frames[id].gen \in Nat
        BY <3>5 DEF StoreInv, TopologyInv, ShapeInv, Stored
      <4>2. t.gen = GenerationAfter(old, layout) /\ t.layout = layout
        BY <3>1, <3>5
      <4> QED BY <4>1, <4>2, <3>2, <3>3 DEF Behind
    <3>6. TopologyInv'
      <4>1. topology' # {}
        BY <3>1
      <4> QED BY <1>1, <2>1, <3>5, <4>1 DEF TopologyInv
    <3> QED BY <1>2, <3>4, <3>6 DEF StoreInv
  <2> QED BY <1>5, <2>2, <2>3 DEF RefreshTopology
<1> QED BY <1>3, <1>4, <1>5

\* A capture takes the next id and the topology of now.
LEMMA CaptureKeeps ==
  ASSUME StoreInv, Capture
  PROVE  StoreInv'
<1>1. UNCHANGED <<layout, topology, frames, tombstones, tombOrder, fates, forgot>>
      /\ nextFrame' = nextFrame + 1 /\ nextFrame \in Nat
  BY DEF Capture, storeParts, StoreInv, ShapeInv
<1>2. ASSUME NEW i \in 1..Len(fates) PROVE fates[i].id \in Nat /\ fates[i].id < nextFrame
  <2>1. fates \in Seq(Fate) /\ fates[i].id < nextFrame
    BY <1>2 DEF StoreInv, FateInv
  <2>2. fates[i] \in Fate
    BY <1>2, <2>1, ElementOfSeq
  <2> QED BY <2>1, <2>2 DEF Fate
<1>3. IdInv'
  BY <1>1, <1>2 DEF StoreInv, IdInv
<1>4. FateInv' /\ TombInv'
  <2>1. FateInv'
    BY <1>1, <1>2 DEF StoreInv, FateInv
  <2> QED BY <1>1, <2>1 DEF StoreInv, TombInv, TombSizes
<1>5. PICK t \in topology :
        \/ UNCHANGED <<loop, pending>> /\ loop = "none"
        \/ \E bytes \in PixelSizes : pending' = [bytes |-> bytes, png |-> 0, gen |-> t.gen, layout |-> t.layout]
  BY DEF Capture
<1>6. t.gen \in Nat /\ t.layout \in Layouts /\ \A s \in topology : s = t
  BY DEF StoreInv, ShapeInv, Topology
<1>7. CASE UNCHANGED <<loop, pending>> /\ loop = "none"
  BY <1>1, <1>3, <1>4, <1>7 DEF StoreInv, ShapeInv, TopologyInv
<1>8. CASE \E bytes \in PixelSizes : pending' = [bytes |-> bytes, png |-> 0, gen |-> t.gen, layout |-> t.layout]
  <2>1. pending' \in Stored /\ pending'.gen = t.gen /\ pending'.layout = t.layout
    BY <1>6, <1>8, FrameSizes DEF Stored
  <2>2. ShapeInv'
    BY <1>1, <2>1 DEF StoreInv, ShapeInv
  <2>3. TopologyInv'
    BY <1>1, <1>6, <2>1 DEF StoreInv, TopologyInv, Behind
  <2> QED BY <1>3, <1>4, <2>2, <2>3 DEF StoreInv
<1> QED BY <1>5, <1>7, <1>8

\* The captured frame is stored under its own id.
LEMMA InsertKeeps ==
  ASSUME StoreInv, Insert
  PROVE  StoreInv'
<1>1. /\ UNCHANGED <<layout, topology, tombstones, tombOrder, nextFrame, fates, forgot>>
      /\ frames' = Added(frames, nextFrame - 1, pending)
      /\ loop = "insert" /\ loop' = "none" /\ pending' = NoFrame
  BY DEF Insert
<1>2. /\ DOMAIN frames' = DOMAIN frames \union {nextFrame - 1}
      /\ frames' \in [DOMAIN frames' -> Stored]
      /\ frames'[nextFrame - 1] = pending
      /\ \A x \in DOMAIN frames \ {nextFrame - 1} : frames'[x] = frames[x]
  BY <1>1, AddedFrames DEF StoreInv
<1>3. nextFrame \in Nat /\ nextFrame > 0 /\ nextFrame - 1 \notin DOMAIN frames
      /\ \A i \in 1..Len(fates) : fates[i].id # nextFrame - 1
  BY <1>1 DEF StoreInv, ShapeInv, IdInv
<1>4. ShapeInv'
  BY <1>1, <1>2, NoFrameStored DEF StoreInv, ShapeInv
<1>5. IdInv'
  BY <1>1, <1>2, <1>3 DEF StoreInv, IdInv
<1>6. FateInv'
  BY <1>1, <1>2, <1>3 DEF StoreInv, FateInv
<1>7. TombInv'
  BY <1>1 DEF StoreInv, TombInv, TombSizes
<1>8. TopologyInv'
  BY <1>1, <1>2, <1>3 DEF StoreInv, TopologyInv
<1> QED BY <1>4, <1>5, <1>6, <1>7, <1>8 DEF StoreInv

\* The end of the session.
LEMMA CloseKeeps ==
  ASSUME StoreInv, FrameClose
  PROVE  StoreInv'
<1>1. /\ UNCHANGED <<layout, topology, nextFrame, loop, pending, forgot>>
      /\ frames' = <<>> /\ tombstones' = <<>> /\ tombOrder' = <<>> /\ fates' = <<>> /\ loop = "none"
  BY DEF FrameClose
<1>2. DOMAIN frames' = {} /\ frames' \in [DOMAIN frames' -> Stored]
  BY <1>1
<1>3. ShapeInv' /\ IdInv' /\ TopologyInv'
  BY <1>1, <1>2 DEF StoreInv, ShapeInv, IdInv, TopologyInv
<1>4. FateInv' /\ TombInv'
  BY <1>1, FrameLimits DEF FateInv, TombInv, TombSizes, Graves
<1> QED BY <1>3, <1>4 DEF StoreInv

-----------------------------------------------------------------------------
(* Steps that lose a frame.                                                *)

\* A stored frame goes and is remembered.
Goes(id, fate) ==
  /\ id \in DOMAIN frames /\ fate \in {"Evicted", "Released"}
  /\ frames' = Dropped(frames, id) /\ rememberFrame(id, fate)
  /\ fates' = Append(fates, [id |-> id, fate |-> fate])
  /\ UNCHANGED <<layout, topology, nextFrame, loop, pending, forgot>>

\* The history with one more fate, of an id that is not in it yet.
LEMMA FatesGrow ==
  ASSUME StoreInv, NEW id, NEW fate, Goes(id, fate)
  PROVE  /\ fates' \in Seq(Fate) /\ Len(fates') = Len(fates) + 1
         /\ \A i \in 1..Len(fates) : fates'[i] = fates[i] /\ fates[i].id # id
         /\ fates'[Len(fates) + 1].id = id /\ fates'[Len(fates) + 1].fate = fate
<1>1. [id |-> id, fate |-> fate] \in Fate /\ fates \in Seq(Fate)
  BY DEF StoreInv, IdInv, FateInv, Goes, Fate
<1>2. fates' = Append(fates, [id |-> id, fate |-> fate])
  BY DEF Goes
<1>3. /\ fates' \in Seq(Fate) /\ Len(fates') = Len(fates) + 1
      /\ \A i \in 1..Len(fates) : fates'[i] = fates[i]
      /\ fates'[Len(fates) + 1] = [id |-> id, fate |-> fate]
  BY <1>1, <1>2, AppendProperties
<1>4. \A i \in 1..Len(fates) : fates[i].id # id
  BY DEF StoreInv, FateInv, Goes
<1> QED BY <1>3, <1>4

\* All but the tombstones.
LEMMA GoesFates ==
  ASSUME StoreInv, NEW id, NEW fate, Goes(id, fate)
  PROVE  ShapeInv' /\ IdInv' /\ FateInv' /\ TopologyInv'
<1>1. UNCHANGED <<layout, topology, nextFrame, loop, pending, forgot>>
      /\ id \in DOMAIN frames
  BY DEF Goes
<1>2. /\ DOMAIN frames' = DOMAIN frames \ {id}
      /\ frames' \in [DOMAIN frames' -> Stored]
      /\ \A x \in DOMAIN frames' : frames'[x] = frames[x]
  BY DroppedFrames DEF Goes, StoreInv
<1>3. PICK n \in Nat : n = Len(fates)
  BY SizesTyped DEF StoreInv
<1>4. /\ fates' \in Seq(Fate) /\ Len(fates') = n + 1
      /\ \A i \in 1..n : fates'[i] = fates[i] /\ fates[i].id # id
      /\ fates'[n + 1].id = id
  BY <1>3, FatesGrow
<1>5. ShapeInv'
  BY <1>1, <1>2 DEF StoreInv, ShapeInv
<1>6. \A i \in 1..n + 1 : i \in 1..n \/ i = n + 1
  OBVIOUS
<1>7. IdInv'
  <2>1. \A x \in DOMAIN frames' : x \in Nat /\ x < nextFrame'
    BY <1>1, <1>2 DEF StoreInv, IdInv
  <2>2. ASSUME loop = "insert" PROVE \A i \in 1..n + 1 : fates'[i].id # nextFrame - 1
    BY <1>1, <1>3, <1>4, <1>6, <2>2 DEF StoreInv, IdInv
  <2> QED BY <1>1, <1>2, <1>4, <2>1, <2>2 DEF StoreInv, IdInv
<1>8. FateInv'
  <2>1. \A i \in 1..n + 1 : fates'[i].id < nextFrame /\ fates'[i].id \notin DOMAIN frames'
    BY <1>1, <1>2, <1>3, <1>4, <1>6 DEF StoreInv, IdInv, FateInv
  <2>2. \A i, j \in 1..n + 1 : fates'[i].id = fates'[j].id => i = j
    BY <1>3, <1>4, <1>6 DEF StoreInv, FateInv
  <2> QED BY <1>1, <1>4, <2>1, <2>2 DEF FateInv
<1>9. TopologyInv'
  BY <1>1, <1>2 DEF StoreInv, TopologyInv
<1> QED BY <1>5, <1>7, <1>8, <1>9

\* The queue of the tombstones, one longer, before the oldest goes.
LEMMA TombsGrow ==
  ASSUME StoreInv, NEW id, NEW fate, Goes(id, fate),
         NEW queue, queue = Append(tombOrder, id), NEW stones, stones = Added(tombstones, id, fate)
  PROVE  /\ queue \in Seq(Nat) /\ Len(queue) = Len(tombOrder) + 1 /\ queue # <<>>
         /\ Graves(queue, stones, fates')
<1>1. PICK n \in Nat : n = Len(fates)
  BY SizesTyped DEF StoreInv
<1>2. PICK l \in Nat : l = Len(tombOrder) /\ l <= n
  BY <1>1, SizesTyped DEF StoreInv
<1>3. id \in Nat /\ tombOrder \in Seq(Nat)
  BY DEF StoreInv, IdInv, Goes, TombInv, TombSizes
<1>4. /\ queue \in Seq(Nat) /\ Len(queue) = l + 1 /\ queue # <<>>
      /\ \A i \in 1..l : queue[i] = tombOrder[i]
      /\ queue[l + 1] = id
  BY <1>2, <1>3, AppendProperties
<1>5. id \in DOMAIN stones /\ stones[id] = fate
      /\ \A x \in DOMAIN tombstones : x # id => x \in DOMAIN stones /\ stones[x] = tombstones[x]
  BY DEF Added
<1>6. /\ Len(fates') = n + 1 /\ fates'[n + 1].id = id /\ fates'[n + 1].fate = fate
      /\ \A i \in 1..n : fates'[i] = fates[i] /\ fates[i].id # id
  BY <1>1, FatesGrow
<1>7. ASSUME NEW i \in 1..l + 1
      PROVE  Grave(queue[i], stones, fates'[n - l + i])
  <2>1. CASE i = l + 1
    <3>1. n - l + i = n + 1
      BY <2>1
    <3> QED BY <2>1, <3>1, <1>4, <1>5, <1>6 DEF Grave
  <2>2. CASE i \in 1..l
    <3>1. n - l + i \in 1..n
      BY <2>2, <1>2
    <3>2. Grave(tombOrder[i], tombstones, fates[n - l + i])
      BY <2>2, <1>1, <1>2 DEF StoreInv, TombInv, Graves
    <3>3. PICK f : f = fates[n - l + i] /\ f = fates'[n - l + i] /\ f.id # id
      BY <3>1, <1>6
    <3>4. queue[i] = f.id /\ f.id \in DOMAIN tombstones /\ tombstones[f.id] = f.fate
      BY <2>2, <3>2, <3>3, <1>4 DEF Grave
    <3>5. f.id \in DOMAIN stones /\ stones[f.id] = f.fate
      BY <3>3, <3>4, <1>5
    <3> QED BY <3>3, <3>4, <3>5 DEF Grave
  <2>3. i = l + 1 \/ i \in 1..l
    OBVIOUS
  <2> QED BY <2>1, <2>2, <2>3
<1>8. ASSUME NEW i \in 1..Len(queue)
      PROVE  Grave(queue[i], stones, fates'[Len(fates') - Len(queue) + i])
  <2>1. i \in 1..l + 1 /\ Len(fates') - Len(queue) + i = n - l + i
    BY <1>4, <1>6
  <2> QED BY <2>1, <1>7
<1>9. Graves(queue, stones, fates')
  BY <1>8 DEF Graves
<1> QED BY <1>2, <1>4, <1>9

\* The tombstones stay those of the last frames that went.
LEMMA GoesTombs ==
  ASSUME StoreInv, NEW id, NEW fate, Goes(id, fate)
  PROVE  TombInv'
<1>1. PICK n \in Nat : n = Len(fates)
  BY SizesTyped DEF StoreInv
<1>2. PICK l \in Nat : /\ l = Len(tombOrder) /\ l <= n /\ l <= TombstoneLimit
                       /\ l < TombstoneLimit => l = n
  BY <1>1, SizesTyped DEF StoreInv
<1>3. Len(fates') = n + 1
  BY <1>1, FatesGrow
<1>4. PICK queue, stones : queue = Append(tombOrder, id) /\ stones = Added(tombstones, id, fate)
  OBVIOUS
<1>5. /\ queue \in Seq(Nat) /\ Len(queue) = l + 1 /\ queue # <<>>
      /\ Graves(queue, stones, fates')
  BY <1>2, <1>4, TombsGrow
<1>6. TombstoneLimit \in Nat \ {0}
  BY FrameLimits
<1>7. CASE l < TombstoneLimit
  <2>1. ~(Len(queue) > TombstoneLimit)
    BY <1>5, <1>6, <1>7
  <2>2. tombOrder' = queue /\ tombstones' = stones
    BY <2>1, <1>4 DEF Goes, rememberFrame
  <2>3. TombSizes'
    BY <2>2, <1>2, <1>3, <1>5, <1>6, <1>7 DEF TombSizes
  <2> QED BY <2>2, <2>3, <1>5 DEF TombInv
<1>8. CASE l = TombstoneLimit
  <2>1. Len(queue) > TombstoneLimit
    BY <1>5, <1>6, <1>8
  <2>2. tombOrder' = Tail(queue) /\ tombstones' = Dropped(stones, Head(queue))
    BY <2>1, <1>4 DEF Goes, rememberFrame
  <2>3. /\ tombOrder' \in Seq(Nat) /\ Len(tombOrder') = l
        /\ \A i \in 1..l : tombOrder'[i] = queue[i + 1]
    <3>1. /\ Tail(queue) \in Seq(Nat) /\ Len(Tail(queue)) = Len(queue) - 1
          /\ \A i \in 1..Len(Tail(queue)) : Tail(queue)[i] = queue[i + 1]
      BY <1>5, HeadTailProperties
    <3>2. Len(Tail(queue)) = l
      BY <3>1, <1>5
    <3> QED BY <3>1, <3>2, <2>2
  <2>4. ASSUME NEW j \in 1..l + 1 PROVE Grave(queue[j], stones, fates'[n - l + j])
    <3>1. (n + 1) - (l + 1) + j = n - l + j
      OBVIOUS
    <3> QED BY <3>1, <1>3, <1>5 DEF Graves
  <2>5. Head(queue) = fates'[n - l + 1].id
    <3>1. 1 \in 1..l + 1 /\ Head(queue) = queue[1]
      BY <1>5
    <3> QED BY <3>1, <2>4 DEF Grave
  <2>6. ASSUME NEW i \in 1..l
        PROVE  Grave(tombOrder'[i], tombstones', fates'[(n + 1) - l + i])
    <3>1. i + 1 \in 1..l + 1 /\ n - l + (i + 1) = (n + 1) - l + i
      OBVIOUS
    <3>2. Grave(queue[i + 1], stones, fates'[(n + 1) - l + i])
      BY <3>1, <2>4
    <3>3. fates'[(n + 1) - l + i].id # Head(queue)
      <4>1. /\ (n + 1) - l + i \in 1..n + 1 /\ n - l + 1 \in 1..n + 1
            /\ (n + 1) - l + i # n - l + 1
        BY <1>2
      <4>2. FateInv'
        BY GoesFates
      <4> QED BY <4>1, <4>2, <2>5, <1>3 DEF FateInv
    <3> QED BY <3>2, <3>3, <2>2, <2>3 DEF Grave, Dropped
  <2>7. l <= Len(fates') /\ ~(l < TombstoneLimit)
    BY <1>2, <1>3, <1>6, <1>8
  <2>8. TombSizes'
    BY <2>3, <2>7, <1>2 DEF TombSizes
  <2>9. Graves(tombOrder', tombstones', fates')
    BY <2>3, <2>6, <1>3 DEF Graves
  <2> QED BY <2>8, <2>9 DEF TombInv
<1> QED BY <1>2, <1>6, <1>7, <1>8

\* The frames that are evicted to make room, and those that are released.
LEMMA LossKeeps ==
  ASSUME StoreInv, Evict \/ Release
  PROVE  StoreInv'
<1>1. CASE \E id, fate : Goes(id, fate)
  BY <1>1, GoesFates, GoesTombs DEF StoreInv
<1>2. CASE Evict
  <2>1. CASE Head(frameOrder) \in DOMAIN frames
    <3>1. Goes(Head(frameOrder), "Evicted")
      BY <1>2, <2>1 DEF Evict, Goes
    <3> QED BY <3>1, <1>1
  <2>2. CASE Head(frameOrder) \notin DOMAIN frames
    <3>1. Cached
      BY <1>2, <2>2 DEF Evict, Cached, StoreInv, ShapeInv
    <3> QED BY <3>1, CachedKeeps
  <2> QED BY <2>1, <2>2
<1>3. CASE Release
  <2>1. PICK id \in DOMAIN frames : Goes(id, "Released")
    BY <1>3 DEF Release, Goes
  <2> QED BY <2>1, <1>1
<1> QED BY <1>2, <1>3

-----------------------------------------------------------------------------
(* The counters and the queue.                                             *)

\* The counters and the queue say what is stored, within the limits.
AccountInv ==
  /\ totalBytes = Pixels(frames) /\ encodedBytes = Encoded(frames)
  /\ QueueOf(frameOrder, DOMAIN frames)
  /\ Cardinality(DOMAIN frames) <= MaxFrames /\ totalBytes <= MaxBytes
  /\ loop \in {"none", "insert", "shrink"}
  /\ loop = "insert" => pending.bytes <= MaxBytes /\ pending.png = 0

\* Only so many ids have been handed out.
LEMMA FramesFinite ==
  ASSUME StoreInv
  PROVE  Holdings(frames)
<1>1. nextFrame \in Nat /\ \A id \in DOMAIN frames : id \in Nat /\ id < nextFrame
  BY DEF StoreInv, ShapeInv, IdInv
<1>2. IsFiniteSet(0..nextFrame) /\ DOMAIN frames \in SUBSET (0..nextFrame)
  BY <1>1, FS_Interval
<1>3. IsFiniteSet(DOMAIN frames)
  BY <1>2, FS_Subset
<1> QED BY <1>3 DEF Holdings, StoreInv, ShapeInv

\* saturating_sub does not saturate.
LEMMA LessIsMinus ==
  ASSUME NEW a \in Nat, NEW b \in Nat, NEW c \in Nat, a = b + c
  PROVE  Less(a, b) = c
BY DEF Less

\* A frame goes with its bytes and its place in the queue.
Leaves(id) ==
  /\ id \in DOMAIN frames /\ frames' = Dropped(frames, id) /\ GiveBack(id)
  /\ QueueOf(frameOrder', DOMAIN frames \ {id})
  /\ UNCHANGED <<loop, pending>>

\* A frame that leaves takes its bytes and its place in the queue along.
LEMMA LeavesKeeps ==
  ASSUME StoreInv, AccountInv, NEW id, Leaves(id)
  PROVE  AccountInv'
<1>1. /\ Holdings(frames) /\ id \in DOMAIN frames /\ frames' = Dropped(frames, id)
      /\ DOMAIN frames' = DOMAIN frames \ {id}
  BY FramesFinite DEF Leaves, Dropped
<1>2. /\ Holdings(frames')
      /\ Pixels(frames) = frames[id].bytes + Pixels(frames')
      /\ Encoded(frames) = frames[id].png + Encoded(frames')
  BY <1>1, CountsDropped
<1>3. /\ frames[id].bytes \in Nat /\ frames[id].png \in Nat
      /\ Pixels(frames) \in Nat /\ Encoded(frames) \in Nat
      /\ Pixels(frames') \in Nat /\ Encoded(frames') \in Nat
  BY <1>1, <1>2, CountsTyped DEF Holdings, Stored
<1>4. totalBytes' = Pixels(frames') /\ encodedBytes' = Encoded(frames')
  BY <1>2, <1>3, LessIsMinus DEF AccountInv, Leaves, GiveBack
<1>5. Cardinality(DOMAIN frames') <= Cardinality(DOMAIN frames)
      /\ Cardinality(DOMAIN frames') \in Nat /\ Cardinality(DOMAIN frames) \in Nat
  <2>1. IsFiniteSet(DOMAIN frames) /\ DOMAIN frames' \in SUBSET DOMAIN frames
    BY <1>1 DEF Holdings
  <2> QED BY <2>1, FS_Subset, FS_CardinalityType
<1>6. totalBytes' <= MaxBytes /\ Cardinality(DOMAIN frames') <= MaxFrames
  BY <1>2, <1>3, <1>4, <1>5, FrameLimits DEF AccountInv
<1> QED BY <1>1, <1>4, <1>6 DEF AccountInv, Leaves

\* No frame comes or goes, and an encoding is counted.
LEMMA EncodedKeeps ==
  ASSUME StoreInv, AccountInv, NEW id \in DOMAIN frames, NEW png \in Nat,
         frames' = [frames EXCEPT ![id].png = png],
         \/ encodedBytes' = encodedBytes + png /\ frames[id].png = 0
         \/ encodedBytes' = Less(encodedBytes, frames[id].png) /\ png = 0,
         UNCHANGED <<frameOrder, totalBytes, pending>>, loop' \in {"none", "shrink"}
  PROVE  AccountInv'
<1>1. Holdings(frames) /\ frames[id].png \in Nat
  BY FramesFinite DEF Holdings, Stored
<1>2. DOMAIN frames' = DOMAIN frames
  OBVIOUS
<1>3. PICK n \in Nat : /\ Pixels(frames') = Pixels(frames)
                       /\ Encoded(frames) = frames[id].png + n
                       /\ Encoded(frames') = png + n
  <2>1. /\ frames'[id].png = png /\ frames'[id].bytes = frames[id].bytes
        /\ \A x \in DOMAIN frames \ {id} : frames'[x] = frames[x]
    BY <1>1 DEF Holdings, Stored
  <2>2. Holdings(frames')
    BY <1>1, <1>2 DEF Holdings, Stored
  <2>3. id \in DOMAIN frames /\ DOMAIN frames' = DOMAIN frames
    BY <1>2
  <2>4. /\ Pixels(frames') = Pixels(frames)
        /\ \E n \in Nat : Encoded(frames) = frames[id].png + n /\ Encoded(frames') = frames'[id].png + n
    BY ONLY <1>1, <2>1, <2>2, <2>3, CountsEncoded
  <2> QED BY <2>1, <2>4
<1>4. encodedBytes' = Encoded(frames')
  <2>1. encodedBytes = frames[id].png + n
    BY <1>3 DEF AccountInv
  <2>2. Less(encodedBytes, frames[id].png) = n
    <3>1. encodedBytes \in Nat
      BY <1>1, <2>1
    <3> QED BY <1>1, <2>1, <3>1, LessIsMinus
  <2> QED BY <1>1, <1>3, <2>1, <2>2
<1> QED BY <1>2, <1>3, <1>4 DEF AccountInv

\* A step leaves what is stored, and all that counts it.
LEMMA AccountSame ==
  ASSUME AccountInv, UNCHANGED <<frames, frameOrder, totalBytes, encodedBytes>>,
         loop' \in {"none", "shrink"} \/ UNCHANGED <<loop, pending>>
         \/ (loop' = "insert" /\ pending'.bytes <= MaxBytes /\ pending'.png = 0)
  PROVE  AccountInv'
BY DEF AccountInv

\* An inserted frame brings its bytes and its place.
LEMMA InsertCounts ==
  ASSUME StoreInv, AccountInv, Insert
  PROVE  AccountInv'
<1> DEFINE id == nextFrame - 1
<1>1. /\ Holdings(frames) /\ id \notin DOMAIN frames /\ id \in Nat /\ pending \in Stored
      /\ loop = "insert" /\ frames' = Added(frames, id, pending)
  BY FramesFinite DEF Insert, StoreInv, ShapeInv, IdInv
<1>2. DOMAIN frames' = DOMAIN frames \union {id}
  BY <1>1 DEF Added
<1>3. /\ Pixels(frames') = pending.bytes + Pixels(frames)
      /\ Encoded(frames') = pending.png + Encoded(frames)
  BY <1>1, CountsAdded
<1>4. pending.bytes \in Nat /\ pending.png = 0 /\ Pixels(frames) \in Nat /\ Encoded(frames) \in Nat
  BY <1>1, CountsTyped DEF Stored, AccountInv
<1>5. totalBytes' = Pixels(frames') /\ encodedBytes' = Encoded(frames')
  BY <1>3, <1>4 DEF AccountInv, Insert
<1>6. QueueOf(frameOrder', DOMAIN frames')
  <2>1. QueueOf(Append(frameOrder, id), DOMAIN frames \union {id})
    BY <1>1, QueueAppend DEF AccountInv
  <2> QED BY <1>2, <2>1 DEF Insert
<1>7. Cardinality(DOMAIN frames') <= MaxFrames
  <2>1. /\ Cardinality(DOMAIN frames) < MaxFrames /\ Cardinality(DOMAIN frames) \in Nat
        /\ Cardinality(DOMAIN frames') = Cardinality(DOMAIN frames) + 1
    BY <1>1, <1>2, FS_AddElement, FS_CardinalityType DEF Holdings, Insert, Room
  <2> QED BY <2>1, FrameLimits
<1>8. totalBytes' <= MaxBytes /\ loop' = "none"
  BY DEF Insert, Room
<1> QED BY <1>5, <1>6, <1>7, <1>8 DEF AccountInv

\* Closing a session empties the store and its counts.
LEMMA CloseCounts ==
  ASSUME AccountInv, FrameClose
  PROVE  AccountInv'
<1>1. /\ frames' = <<>> /\ frameOrder' = <<>> /\ totalBytes' = 0 /\ encodedBytes' = 0
      /\ UNCHANGED loop /\ loop = "none"
  BY DEF FrameClose
<1>2. DOMAIN frames' = {}
  BY <1>1
<1>3. Pixels(frames') = 0 /\ Encoded(frames') = 0
  BY <1>2, SumEmpty DEF Pixels, Encoded
<1>4. QueueOf(<<>>, {})
  BY DEF QueueOf
<1>5. Cardinality({}) <= MaxFrames /\ 0 <= MaxBytes
  BY FS_EmptySet, FrameLimits
<1> QED BY <1>1, <1>2, <1>3, <1>4, <1>5 DEF AccountInv

\* Every step keeps the account.
LEMMA AccountStep ==
  ASSUME StoreInv, AccountInv, [FrameNext]_frameVars
  PROVE  AccountInv'
<1>1. CASE UNCHANGED frameVars \/ DisplaysChange \/ RefreshTopology \/ TopologyLost \/ Shrunk
  BY <1>1, AccountSame
     DEF frameVars, storeParts, DisplaysChange, RefreshTopology, TopologyLost, Shrunk
<1>2. CASE Capture
  <2>1. UNCHANGED <<frames, frameOrder, totalBytes, encodedBytes>>
    BY <1>2 DEF Capture, storeParts
  <2>2. \/ UNCHANGED <<loop, pending>>
        \/ loop' = "insert" /\ pending'.bytes <= MaxBytes /\ pending'.png = 0
    BY <1>2, FrameSizes, FrameLimits DEF Capture
  <2> QED BY <2>1, <2>2, AccountSame
<1>3. CASE Evict
  <2>1. QueueOf(frameOrder, DOMAIN frames) /\ frameOrder # <<>>
    BY <1>3 DEF Evict, AccountInv
  <2>2. /\ Head(frameOrder) \in DOMAIN frames
        /\ QueueOf(Tail(frameOrder), DOMAIN frames \ {Head(frameOrder)})
    BY <2>1, QueueTail
  <2>3. Leaves(Head(frameOrder))
    BY <1>3, <2>2 DEF Evict, Leaves
  <2> QED BY <2>3, LeavesKeeps
<1>4. CASE Insert
  BY <1>4, InsertCounts
<1>5. CASE Release
  <2>1. PICK id \in DOMAIN frames : /\ GiveBack(id) /\ frames' = Dropped(frames, id)
                                    /\ frameOrder' = WithoutId(frameOrder, id)
    BY <1>5 DEF Release
  <2>2. QueueOf(frameOrder', DOMAIN frames \ {id})
    BY <2>1, QueueWithout DEF AccountInv
  <2>3. Leaves(id)
    BY <1>5, <2>1, <2>2 DEF Release, Leaves
  <2> QED BY <2>3, LeavesKeeps
<1>6. CASE WindowsEncode \/ MacEncode
  <2>1. PICK id \in DOMAIN frames, png \in PngSizes : CacheEncoding(id, png)
    BY <1>6 DEF WindowsEncode, MacEncode
  <2>2. png \in Nat /\ loop' \in {"none", "shrink"} /\ UNCHANGED <<frameOrder, totalBytes, pending>>
    BY <1>6, FrameSizes DEF WindowsEncode, MacEncode
  <2> QED BY <2>1, <2>2, EncodedKeeps DEF CacheEncoding
<1>7. CASE Shrink
  <2>1. UNCHANGED <<totalBytes, loop, pending>> /\ loop = "shrink" /\ frameOrder # <<>>
    BY <1>7 DEF Shrink
  <2>2. CASE /\ Head(frameOrder) \in DOMAIN frames
             /\ encodedBytes' = Less(encodedBytes, frames[Head(frameOrder)].png)
             /\ frames' = [frames EXCEPT ![Head(frameOrder)].png = 0] /\ UNCHANGED frameOrder
    BY <2>1, <2>2, EncodedKeeps
  <2>3. CASE /\ frameOrder' = Append(Tail(frameOrder), Head(frameOrder))
             /\ UNCHANGED <<encodedBytes, frames>>
    <3>1. QueueOf(frameOrder', DOMAIN frames)
      BY <2>1, <2>3, QueueTail DEF AccountInv
    <3> QED BY <2>1, <2>3, <3>1 DEF AccountInv
  <2> QED BY <1>7, <2>2, <2>3 DEF Shrink
<1>8. CASE FrameClose
  BY <1>8, CloseCounts
<1> QED BY <1>1, <1>2, <1>3, <1>4, <1>5, <1>6, <1>7, <1>8 DEF FrameNext

-----------------------------------------------------------------------------
(* The theorems.                                                           *)

\* The invariant is inductive.
THEOREM StoreInvariance == FrameSpec => []StoreInv
<1>1. FrameInit => StoreInv
  BY FrameLimits, NoFrameStored
     DEF FrameInit, StoreInv, ShapeInv, IdInv, FateInv, TombInv, TombSizes, Graves, TopologyInv
<1>2. StoreInv /\ [FrameNext]_frameVars => StoreInv'
  <2> SUFFICES ASSUME StoreInv, [FrameNext]_frameVars PROVE StoreInv'
    OBVIOUS
  <2>1. CASE UNCHANGED frameVars
    <3>1. Cached
      BY <2>1 DEF frameVars, storeParts, Cached, StoreInv, ShapeInv
    <3> QED BY <3>1, CachedKeeps
  <2> QED BY <2>1, EncodeKeeps, DisplayKeeps, CaptureKeeps, InsertKeeps, CloseKeeps, LossKeeps
          DEF FrameNext
<1> QED BY <1>1, <1>2, PTL DEF FrameSpec

\* So is the account of it.
THEOREM AccountInvariance == FrameSpec => []AccountInv
<1>1. FrameInit => AccountInv
  <2> SUFFICES ASSUME FrameInit PROVE AccountInv
    OBVIOUS
  <2>1. frames = <<>> /\ frameOrder = <<>> /\ totalBytes = 0 /\ encodedBytes = 0 /\ loop = "none"
    BY DEF FrameInit
  <2>2. DOMAIN frames = {}
    BY <2>1
  <2>3. Pixels(frames) = 0 /\ Encoded(frames) = 0
    BY <2>2, SumEmpty DEF Pixels, Encoded
  <2>4. QueueOf(<<>>, {})
    BY DEF QueueOf
  <2>5. Cardinality({}) <= MaxFrames /\ 0 <= MaxBytes
    BY FS_EmptySet, FrameLimits
  <2> QED BY <2>1, <2>2, <2>3, <2>4, <2>5 DEF AccountInv
<1>2. StoreInv /\ AccountInv /\ [FrameNext]_frameVars => AccountInv'
  BY AccountStep
<1> QED BY <1>1, <1>2, StoreInvariance, PTL DEF FrameSpec

\* The counters are the bytes that are stored and cached, and the queue has
\* every stored frame once, after any sequence of captures, encodings,
\* evictions, releases and rotations.
THEOREM StoreAccounted == FrameSpec => []FramesAccounted
<1>1. AccountInv => FramesAccounted
  <2> SUFFICES ASSUME AccountInv PROVE FramesAccounted
    OBVIOUS
  <2>1. /\ totalBytes = SumFunction(PixelsOf(frames))
        /\ encodedBytes = SumFunction(EncodedOf(frames))
    BY DEF AccountInv, Pixels, Encoded, SumFunction, PixelsOf, EncodedOf
  <2>2. /\ {frameOrder[i] : i \in 1..Len(frameOrder)} = DOMAIN frames
        /\ Len(frameOrder) = Cardinality(DOMAIN frames)
    BY QueueLength DEF AccountInv, QueueOf
  <2> QED BY <2>1, <2>2 DEF FramesAccounted, PixelsOf, EncodedOf
<1> QED BY <1>1, AccountInvariance, PTL

\* The loops of insert and encode always have something left to take out while
\* they want something to go, whatever the limits.
THEOREM LoopsAlwaysEnd == FrameSpec => []LoopsEnd
<1>1. StoreInv /\ AccountInv => LoopsEnd
  <2> SUFFICES ASSUME StoreInv, AccountInv PROVE LoopsEnd
    OBVIOUS
  <2>1. Holdings(frames) /\ QueueOf(frameOrder, DOMAIN frames)
    BY FramesFinite DEF AccountInv
  <2>2. ASSUME loop = "insert", frameOrder = <<>> PROVE Room
    <3>1. DOMAIN frames = {}
      BY <2>1, <2>2 DEF QueueOf
    <3>2. totalBytes = 0 /\ Cardinality(DOMAIN frames) = 0
      BY <3>1, SumEmpty, FS_EmptySet DEF AccountInv, Pixels
    <3>3. pending.bytes \in Nat /\ pending.bytes <= MaxBytes
      BY <2>2 DEF AccountInv, StoreInv, ShapeInv, Stored
    <3> QED BY <3>2, <3>3, FrameLimits DEF Room
  <2>3. ASSUME ~EncodedFits
        PROVE  \E i \in 1..Len(frameOrder) : frameOrder[i] \in DOMAIN frames /\ frames[frameOrder[i]].png # 0
    <3>1. Encoded(frames) # 0
      BY <2>3, FrameLimits DEF EncodedFits, AccountInv
    <3>2. PICK id \in DOMAIN frames : frames[id].png # 0
      <4>1. \E id \in DOMAIN frames : EncodedOf(frames)[id] # 0
        BY <2>1, <3>1, SumNotZero DEF Encoded, Holdings
      <4> QED BY <4>1 DEF EncodedOf
    <3>3. PICK i \in 1..Len(frameOrder) : frameOrder[i] = id
      BY <2>1 DEF QueueOf
    <3> QED BY <3>2, <3>3
  <2> QED BY <2>2, <2>3 DEF LoopsEnd
<1> QED BY <1>1, StoreInvariance, AccountInvariance, PTL

\* A frame that went answers how it went and never comes back; a current frame
\* was captured in the layout the backend works with.
THEOREM AnswersAreTrue == FrameSpec => []FrameAnswersHold
<1>1. StoreInv => FrameAnswersHold
  <2> SUFFICES ASSUME StoreInv PROVE FrameAnswersHold
    OBVIOUS
  <2>1. PICK n \in Nat : n = Len(fates)
    BY SizesTyped DEF StoreInv
  <2>2. PICK l \in Nat : /\ l = Len(tombOrder) /\ l <= n
                         /\ l < TombstoneLimit => l = n
                         /\ l <= TombstoneLimit
    BY <2>1, SizesTyped DEF StoreInv
  <2>3. ASSUME NEW i \in 1..n, n - i < TombstoneLimit
        PROVE  FrameAnswer(fates[i].id) = fates[i].fate
    <3>1. i - (n - l) \in 1..l
      BY <2>2, <2>3, FrameLimits
    <3>2. n - l + (i - (n - l)) = i
      BY <2>2
    <3>3. Grave(tombOrder[i - (n - l)], tombstones, fates[i])
      BY <3>1, <3>2, <2>1, <2>2 DEF StoreInv, TombInv, Graves
    <3>4. fates[i].id \notin DOMAIN frames
      BY <2>1 DEF StoreInv, FateInv
    <3> QED BY <3>3, <3>4 DEF FrameAnswer, Grave
  <2>4. \A i \in 1..n : fates[i].id \notin DOMAIN frames
    BY <2>1 DEF StoreInv, FateInv
  <2>5. ASSUME ~forgot, NEW id \in DOMAIN frames, NEW t \in topology, Maps(id)
        PROVE  frames[id].layout = t.layout
    <3>1. \E s \in topology : s.gen = frames[id].gen
      BY <2>5 DEF Maps, FrameAnswer
    <3>2. t.gen = frames[id].gen
      BY <3>1 DEF StoreInv, ShapeInv
    <3> QED BY <2>5, <3>2 DEF StoreInv, TopologyInv, Behind
  <2> QED BY <2>1, <2>3, <2>4, <2>5 DEF FrameAnswersHold
<1> QED BY StoreInvariance, <1>1, PTL

-----------------------------------------------------------------------------
(* Types.                                                                  *)

\* What FrameTypeOK says and the account does not, with the frame being
\* inserted.
FrameShapes ==
  /\ platform \in {"windows", "macos"} /\ layout \in Layouts
  /\ topology \in {{}} \union {{[gen |-> g, layout |-> l]} : g \in 1..MaxTopologies, l \in Layouts}
  /\ DOMAIN frames \subseteq FrameIds /\ \A id \in DOMAIN frames : frames[id] \in StoredFrames
  /\ DOMAIN tombstones \subseteq FrameIds /\ nextFrame \in 0..MaxCaptures
  /\ loop = "insert" => pending \in StoredFrames

\* Steps that touch neither the frames nor the tombstones.
LEMMA ShapesSame ==
  ASSUME FrameShapes, UNCHANGED <<platform, frames, tombstones, nextFrame>>,
         layout' \in Layouts,
         topology' = topology \/ topology' = {} \/ \E g \in 1..MaxTopologies :
            topology' = {[gen |-> g, layout |-> layout]},
         loop' # "insert" \/ UNCHANGED <<loop, pending>>
  PROVE  FrameShapes'
BY DEF FrameShapes

\* A frame leaves and is remembered.
LEMMA ShapesLost ==
  ASSUME FrameShapes, NEW id \in DOMAIN frames, NEW fate,
         frames' = Dropped(frames, id), rememberFrame(id, fate),
         UNCHANGED <<platform, layout, topology, nextFrame, loop, pending>>
  PROVE  FrameShapes'
<1>1. DOMAIN frames' \subseteq DOMAIN frames /\ \A x \in DOMAIN frames' : frames'[x] = frames[x]
  BY DEF Dropped
<1>2. DOMAIN tombstones' \subseteq DOMAIN tombstones \union {id}
  BY DEF rememberFrame, Dropped, Added
<1> QED BY <1>1, <1>2 DEF FrameShapes

\* The picture of a frame is stored or given up.
LEMMA ShapesEncoded ==
  ASSUME StoreInv, FrameShapes, NEW id \in DOMAIN frames, NEW png \in PngSizes \union {0},
         frames' = [frames EXCEPT ![id].png = png],
         UNCHANGED <<platform, layout, topology, tombstones, nextFrame, pending>>,
         loop' # "insert"
  PROVE  FrameShapes'
<1>1. DOMAIN frames' = DOMAIN frames
  OBVIOUS
<1>2. \A x \in DOMAIN frames : frames'[x] \in StoredFrames
  BY DEF FrameShapes, StoredFrames
<1> QED BY <1>1, <1>2 DEF FrameShapes

\* A capture is of the present topology.
LEMMA ShapesCapture ==
  ASSUME FrameShapes, Capture
  PROVE  FrameShapes'
<1>1. /\ UNCHANGED <<platform, layout, topology, frames, tombstones>>
      /\ nextFrame' = nextFrame + 1 /\ nextFrame < MaxCaptures
  BY DEF Capture, storeParts
<1>2. nextFrame' \in 0..MaxCaptures
  BY <1>1, FrameBounds DEF FrameShapes
<1>3. loop' = "insert" => pending' \in StoredFrames
  BY DEF Capture, FrameShapes, StoredFrames
<1> QED BY <1>1, <1>2, <1>3 DEF FrameShapes

\* Every step of the store keeps the types.
LEMMA ShapesStep ==
  ASSUME StoreInv, FrameShapes, [FrameNext]_frameVars
  PROVE  FrameShapes'
<1>1. CASE UNCHANGED frameVars \/ DisplaysChange \/ TopologyLost \/ Shrunk
  <2>1. layout' \in Layouts /\ UNCHANGED <<platform, frames, tombstones, nextFrame>>
    BY <1>1 DEF FrameShapes, frameVars, storeParts, DisplaysChange, TopologyLost, Shrunk
  <2>2. topology' = topology \/ topology' = {}
    BY <1>1 DEF frameVars, DisplaysChange, TopologyLost, Shrunk
  <2>3. loop' # "insert" \/ UNCHANGED <<loop, pending>>
    BY <1>1 DEF frameVars, DisplaysChange, TopologyLost, Shrunk
  <2> QED BY <2>1, <2>2, <2>3, ShapesSame
<1>2. CASE RefreshTopology
  <2>1. /\ layout' \in Layouts /\ UNCHANGED <<platform, frames, tombstones, nextFrame, loop, pending>>
    BY <1>2 DEF FrameShapes, RefreshTopology, storeParts
  <2>2. \E g \in 1..MaxTopologies : topology' = {[gen |-> g, layout |-> layout]}
    <3>1. CASE topology' = {[gen |-> 1, layout |-> layout]}
      <4>1. 1 \in 1..MaxTopologies
        BY FrameBounds
      <4> QED BY <3>1, <4>1
    <3>2. CASE \E old \in topology : /\ GenerationAfter(old, layout) <= MaxTopologies
                                     /\ topology' = {[gen |-> GenerationAfter(old, layout), layout |-> layout]}
      <4>1. PICK old \in topology : /\ GenerationAfter(old, layout) <= MaxTopologies
                                    /\ topology' = {[gen |-> GenerationAfter(old, layout), layout |-> layout]}
        BY <3>2
      <4>2. old.gen \in 1..MaxTopologies
        BY DEF FrameShapes
      <4>3. GenerationAfter(old, layout) \in 1..MaxTopologies
        BY <4>1, <4>2, FrameBounds DEF GenerationAfter
      <4> QED BY <4>1, <4>3
    <3> QED BY <1>2, <3>1, <3>2 DEF RefreshTopology
  <2> QED BY <2>1, <2>2, ShapesSame
<1>3. CASE Capture
  BY <1>3, ShapesCapture
<1>4. CASE Evict
  <2>1. CASE Head(frameOrder) \in DOMAIN frames
    BY <1>4, <2>1, ShapesLost DEF Evict
  <2>2. CASE Head(frameOrder) \notin DOMAIN frames
    BY <1>4, <2>2, ShapesSame DEF Evict, FrameShapes
  <2> QED BY <2>1, <2>2
<1>5. CASE Insert
  <2>1. /\ UNCHANGED <<platform, layout, topology, tombstones, nextFrame>>
        /\ frames' = Added(frames, nextFrame - 1, pending) /\ loop = "insert" /\ loop' = "none"
    BY <1>5 DEF Insert
  <2>2. nextFrame - 1 \in FrameIds
    BY <2>1, FrameBounds DEF StoreInv, IdInv, FrameShapes, FrameIds
  <2>3. DOMAIN frames' \subseteq FrameIds /\ \A id \in DOMAIN frames' : frames'[id] \in StoredFrames
    BY <2>1, <2>2 DEF FrameShapes, Added
  <2> QED BY <2>1, <2>3 DEF FrameShapes
<1>6. CASE Release
  BY <1>6, ShapesLost DEF Release
<1>7. CASE WindowsEncode \/ MacEncode
  <2>1. PICK id \in DOMAIN frames, png \in PngSizes : frames' = [frames EXCEPT ![id].png = png]
    BY <1>7 DEF WindowsEncode, MacEncode, CacheEncoding
  <2>2. UNCHANGED <<platform, layout, topology, tombstones, nextFrame, pending>> /\ loop' # "insert"
    BY <1>7 DEF WindowsEncode, MacEncode
  <2> QED BY <2>1, <2>2, ShapesEncoded
<1>8. CASE Shrink
  <2>1. UNCHANGED <<platform, layout, topology, tombstones, nextFrame, loop, pending>> /\ loop = "shrink"
    BY <1>8 DEF Shrink
  <2>2. CASE UNCHANGED frames
    BY <2>1, <2>2, ShapesSame DEF FrameShapes
  <2>3. CASE Head(frameOrder) \in DOMAIN frames /\ frames' = [frames EXCEPT ![Head(frameOrder)].png = 0]
    BY <2>1, <2>3, ShapesEncoded
  <2> QED BY <1>8, <2>2, <2>3 DEF Shrink
<1>9. CASE FrameClose
  BY <1>9 DEF FrameClose, FrameShapes
<1> QED BY <1>1, <1>2, <1>3, <1>4, <1>5, <1>6, <1>7, <1>8, <1>9 DEF FrameNext

\* The types, with the limits on the frames, their bytes and the tombstones.
THEOREM FrameTypes == FrameSpec => []FrameTypeOK
<1>1. FrameInit => FrameShapes
  BY FrameBounds DEF FrameInit, FrameShapes
<1>2. StoreInv /\ FrameShapes /\ [FrameNext]_frameVars => FrameShapes'
  BY ShapesStep
<1>3. StoreInv /\ AccountInv /\ FrameShapes => FrameTypeOK
  <2> SUFFICES ASSUME StoreInv, AccountInv, FrameShapes PROVE FrameTypeOK
    OBVIOUS
  <2>1. totalBytes \in Nat /\ encodedBytes \in Nat
    BY FramesFinite, CountsTyped DEF AccountInv
  <2>2. totalBytes \in 0..MaxBytes
    BY <2>1, FrameLimits DEF AccountInv
  <2> QED BY <2>1, <2>2 DEF FrameTypeOK, FrameShapes, AccountInv, StoreInv, TombInv, TombSizes
<1> QED BY <1>1, <1>2, <1>3, StoreInvariance, AccountInvariance, PTL DEF FrameSpec
=============================================================================
