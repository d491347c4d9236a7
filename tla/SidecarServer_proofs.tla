------------------------ MODULE SidecarServer_proofs ------------------------
(***************************************************************************)
(* Proofs about SidecarServer, for every capacity of the replay window and *)
(* any number of requests, sessions and window handles.                    *)
(***************************************************************************)
EXTENDS SidecarServer, TLAPS, FiniteSetTheorems, SequenceTheorems

-----------------------------------------------------------------------------
(* The replay window.                                                      *)

\* The window holds the last ids handled, each once, and its set is theirs.
WindowSizes ==
  /\ order \in Seq(RequestIds) /\ handled \in Seq(RequestIds)
  /\ Len(order) <= Capacity /\ Len(order) <= Len(handled)
  /\ Len(order) < Capacity => Len(order) = Len(handled)
Aligned == \A i \in 1..Len(order) : order[i] = handled[Len(handled) - Len(order) + i]
Indexed == seen = {order[i] : i \in 1..Len(order)}
Counted == IsFiniteSet(seen) /\ Cardinality(seen) = Len(order)

WindowInv == WindowSizes /\ Aligned /\ Indexed /\ Counted

FarApart == \A i, j \in 1..Len(handled) : i < j /\ handled[i] = handled[j] => j - i > Capacity

Distinct == \A i, j \in 1..Len(order) : order[i] = order[j] => i = j

\* What handling an id does to the window.
Take(id) == id \notin seen /\ remember(id) /\ handled' = Append(handled, id)

\* The sizes are numbers.
LEMMA WindowTyped ==
  ASSUME WindowInv
  PROVE  /\ Len(order) \in Nat /\ Len(handled) \in Nat /\ Capacity \in Nat \ {0}
         /\ Len(order) <= Len(handled) /\ Len(order) <= Capacity
         /\ Len(order) < Capacity => Len(order) = Len(handled)
BY LenProperties, CapacityAssumption DEF WindowInv, WindowSizes

\* Two ids of the window differ: they are too close to each other in handled.
LEMMA WindowDistinct ==
  ASSUME WindowInv, FarApart
  PROVE  Distinct
<1>1. ASSUME NEW i \in 1..Len(order), NEW j \in 1..Len(order), order[i] = order[j], i < j
      PROVE  FALSE
  <2>1. PICK d \in Nat : d = Len(handled) - Len(order)
    BY WindowTyped
  <2>2. d + i \in 1..Len(handled) /\ d + j \in 1..Len(handled) /\ d + i < d + j
    BY <1>1, <2>1, WindowTyped
  <2>3. handled[d + i] = order[i] /\ handled[d + j] = order[j]
    BY <2>1 DEF WindowInv, Aligned
  <2>4. (d + j) - (d + i) > Capacity
    BY <1>1, <2>2, <2>3 DEF FarApart
  <2> QED BY <1>1, <2>1, <2>4, WindowTyped
<1>2. ASSUME NEW i \in 1..Len(order), NEW j \in 1..Len(order), order[i] = order[j], i # j
      PROVE  FALSE
  <2>1. i < j \/ j < i
    BY <1>2, WindowTyped
  <2> QED BY <1>1, <1>2, <2>1
<1> QED BY <1>2 DEF Distinct

\* The history with one more id.
LEMMA HandledGrows ==
  ASSUME WindowInv, NEW id \in RequestIds, Take(id)
  PROVE  /\ handled' \in Seq(RequestIds) /\ Len(handled') = Len(handled) + 1
         /\ \A i \in 1..Len(handled) : handled'[i] = handled[i]
         /\ handled'[Len(handled) + 1] = id
<1>1. handled \in Seq(RequestIds) /\ handled' = Append(handled, id)
  BY DEF WindowInv, WindowSizes, Take
<1> QED BY <1>1, AppendProperties

\* The history grows by one id, which none of the last Capacity ones is.
LEMMA TakeFarApart ==
  ASSUME WindowInv, FarApart, NEW id \in RequestIds, Take(id)
  PROVE  FarApart'
<1>1. PICK n \in Nat : n = Len(handled)
  BY WindowTyped
<1>2. PICK l \in Nat : l = Len(order) /\ l <= n /\ (l < Capacity => l = n)
  BY <1>1, WindowTyped
<1>3. /\ Len(handled') = n + 1 /\ handled'[n + 1] = id
      /\ \A i \in 1..n : handled'[i] = handled[i]
  BY <1>1, HandledGrows
<1>4. ASSUME NEW i \in 1..n, handled[i] = id, i > n - l
      PROVE  FALSE
  <2>1. PICK k \in 1..l : n - l + k = i
    <3>1. i - (n - l) \in 1..l /\ n - l + (i - (n - l)) = i
      BY <1>4, <1>2
    <3> QED BY <3>1
  <2>2. order[k] = handled[i]
    BY <2>1, <1>1, <1>2 DEF WindowInv, Aligned
  <2>3. order[k] \in seen
    BY <1>2 DEF WindowInv, Indexed
  <2> QED BY <1>4, <2>2, <2>3 DEF Take
<1>5. ASSUME NEW i \in 1..n + 1, NEW j \in 1..n + 1, i < j, handled'[i] = handled'[j]
      PROVE  j - i > Capacity
  <2>1. CASE j \in 1..n
    <3>1. i \in 1..n /\ handled[i] = handled[j]
      BY <2>1, <1>3, <1>5
    <3> QED BY <2>1, <3>1, <1>1, <1>5 DEF FarApart
  <2>2. CASE j = n + 1
    <3>1. i \in 1..n /\ handled[i] = id
      BY <2>2, <1>3, <1>5
    <3>2. i <= n - l
      BY <3>1, <1>2, <1>4
    <3>3. Capacity <= l
      BY <3>1, <3>2, <1>2, WindowTyped
    <3> QED BY <2>2, <3>1, <3>2, <3>3, <1>2, WindowTyped
  <2> QED BY <2>1, <2>2
<1> QED BY <1>3, <1>5 DEF FarApart

\* Handling an id keeps the window in step with the history.
LEMMA TakeWindow ==
  ASSUME WindowInv, FarApart, NEW id \in RequestIds, Take(id)
  PROVE  WindowInv'
<1>1. PICK m \in Nat : m = Len(handled)
  BY WindowTyped
<1>2. PICK n \in Nat : n = Len(order) /\ n <= m /\ n <= Capacity /\ (n < Capacity => n = m)
  BY <1>1, WindowTyped
<1>3. /\ handled' \in Seq(RequestIds) /\ Len(handled') = m + 1 /\ handled'[m + 1] = id
      /\ \A i \in 1..m : handled'[i] = handled[i]
  BY <1>1, HandledGrows
<1>4. PICK grown \in Seq(RequestIds) :
        /\ grown = Append(order, id) /\ Len(grown) = n + 1 /\ grown # <<>>
        /\ \A i \in 1..n : grown[i] = order[i]
        /\ grown[n + 1] = id
  <2>1. order \in Seq(RequestIds)
    BY DEF WindowInv, WindowSizes
  <2> QED BY <2>1, <1>2, AppendProperties
<1>5. \A i \in 1..n + 1 : grown[i] = handled'[m - n + i]
  <2> SUFFICES ASSUME NEW i \in 1..n + 1 PROVE grown[i] = handled'[m - n + i]
    OBVIOUS
  <2>1. CASE i = n + 1
    <3>1. m - n + i = m + 1
      BY <2>1
    <3> QED BY <2>1, <3>1, <1>3, <1>4
  <2>2. CASE i \in 1..n
    <3>1. m - n + i \in 1..m
      BY <2>2, <1>2
    <3>2. order[i] = handled[m - n + i]
      BY <2>2, <1>1, <1>2 DEF WindowInv, Aligned
    <3> QED BY <2>2, <3>1, <3>2, <1>3, <1>4
  <2> QED BY <2>1, <2>2
<1>6. IsFiniteSet(seen \union {id}) /\ Cardinality(seen \union {id}) = n + 1
  <2>1. IsFiniteSet(seen) /\ Cardinality(seen) = n /\ id \notin seen
    BY <1>2 DEF WindowInv, Counted, Take
  <2> QED BY <2>1, FS_AddElement
<1>7. seen \union {id} = {grown[i] : i \in 1..n + 1}
  <2>1. seen = {order[i] : i \in 1..n}
    BY <1>2 DEF WindowInv, Indexed
  <2>2. \A i \in 1..n + 1 : i \in 1..n \/ i = n + 1
    OBVIOUS
  <2>3. \A i \in 1..n : i \in 1..n + 1
    OBVIOUS
  <2>4. n + 1 \in 1..n + 1
    OBVIOUS
  <2> QED BY <2>1, <2>2, <2>3, <2>4, <1>4, Zenon
<1>8. CASE n < Capacity
  <2>1. ~(Len(grown) > Capacity)
    BY <1>4, <1>8, WindowTyped
  <2>2. order' = grown /\ seen' = seen \union {id}
    BY <2>1, <1>4 DEF Take, remember
  <2>3. Len(order') = n + 1 /\ n + 1 <= Capacity /\ n + 1 = Len(handled')
    BY <2>2, <1>2, <1>3, <1>4, <1>8, WindowTyped
  <2>4. Aligned'
    <3> SUFFICES ASSUME NEW i \in 1..n + 1 PROVE grown[i] = handled'[(m + 1) - (n + 1) + i]
      BY <2>2, <2>3, <1>3 DEF Aligned
    <3>1. (m + 1) - (n + 1) + i = m - n + i
      OBVIOUS
    <3> QED BY <3>1, <1>5
  <2>5. Indexed'
    BY <2>2, <2>3, <1>7 DEF Indexed
  <2>6. Counted'
    BY <2>2, <2>3, <1>6 DEF Counted
  <2>7. WindowSizes'
    BY <2>2, <2>3, <1>3, <1>4 DEF WindowSizes
  <2> QED BY <2>4, <2>5, <2>6, <2>7 DEF WindowInv
<1>9. CASE n = Capacity
  <2>1. Len(grown) > Capacity
    BY <1>4, <1>9
  <2>2. order' = Tail(grown) /\ seen' = (seen \union {id}) \ {Head(grown)}
    BY <2>1, <1>4 DEF Take, remember
  <2>3. /\ order' \in Seq(RequestIds) /\ Len(order') = n
        /\ \A i \in 1..n : order'[i] = grown[i + 1]
    <3>1. /\ Tail(grown) \in Seq(RequestIds) /\ Len(Tail(grown)) = Len(grown) - 1
          /\ \A i \in 1..Len(Tail(grown)) : Tail(grown)[i] = grown[i + 1]
      BY <1>4, HeadTailProperties
    <3>2. Len(Tail(grown)) = n
      BY <3>1, <1>4
    <3> QED BY <3>1, <3>2, <2>2
  <2>4. 1 \in 1..n /\ Head(grown) = grown[1]
    BY <1>2, <1>4, <1>9, WindowTyped
  <2>5. \A i \in 1..n + 1 : grown[i] = grown[1] => i = 1
    <3>1. \A i \in 1..n : order[i] = order[1] => i = 1
      BY <2>4, <1>2, WindowDistinct DEF Distinct
    <3>2. grown[1] = order[1] /\ order[1] \in seen
      BY <2>4, <1>2, <1>4 DEF WindowInv, Indexed
    <3>3. grown[n + 1] # grown[1]
      BY <3>2, <1>4 DEF Take
    <3>4. \A i \in 1..n : grown[i] = grown[1] => i = 1
      BY <3>1, <3>2, <1>4
    <3>5. \A i \in 1..n + 1 : i \in 1..n \/ i = n + 1
      OBVIOUS
    <3> QED BY <3>3, <3>4, <3>5
  <2>6. Indexed'
    <3>1. \A i \in 1..n : i + 1 \in 1..n + 1 /\ i + 1 # 1
      OBVIOUS
    <3>2. \A i \in 1..n + 1 : i = 1 \/ \E k \in 1..n : k + 1 = i
      <4> SUFFICES ASSUME NEW i \in 1..n + 1, i # 1 PROVE \E k \in 1..n : k + 1 = i
        OBVIOUS
      <4>1. i - 1 \in 1..n /\ (i - 1) + 1 = i
        OBVIOUS
      <4> QED BY <4>1
    <3>3. ASSUME NEW i \in 1..n
          PROVE  order'[i] \in seen'
      <4>1. order'[i] = grown[i + 1] /\ i + 1 \in 1..n + 1 /\ grown[i + 1] # grown[1]
        BY <3>1, <2>3, <2>5
      <4>2. grown[i + 1] \in seen \union {id}
        BY <4>1, <1>7
      <4> QED BY <4>1, <4>2, <2>2, <2>4
    <3>4. ASSUME NEW x \in seen'
          PROVE  \E i \in 1..n : x = order'[i]
      <4>1. x \in seen \union {id} /\ x # grown[1]
        BY <2>2, <2>4
      <4>2. PICK i \in 1..n + 1 : x = grown[i]
        BY <4>1, <1>7
      <4>3. PICK k \in 1..n : k + 1 = i
        BY <4>1, <4>2, <3>2
      <4> QED BY <4>2, <4>3, <2>3
    <3>5. seen' = {order'[i] : i \in 1..n}
      BY <3>3, <3>4
    <3> QED BY <3>5, <2>3 DEF Indexed
  <2>7. Counted'
    <3>1. Head(grown) \in seen \union {id}
      <4>1. grown[1] \in {grown[i] : i \in 1..n + 1}
        OBVIOUS
      <4> QED BY <4>1, <2>4, <1>7
    <3>2. IsFiniteSet((seen \union {id}) \ {Head(grown)})
          /\ Cardinality((seen \union {id}) \ {Head(grown)}) = (n + 1) - 1
      BY <3>1, <1>6, FS_RemoveElement
    <3> QED BY <3>2, <2>2, <2>3 DEF Counted
  <2>8. Aligned'
    <3> SUFFICES ASSUME NEW i \in 1..n PROVE order'[i] = handled'[(m + 1) - n + i]
      BY <2>3, <1>3 DEF Aligned
    <3>1. i + 1 \in 1..n + 1 /\ m - n + (i + 1) = (m + 1) - n + i
      OBVIOUS
    <3> QED BY <3>1, <2>3, <1>5
  <2>9. WindowSizes'
    BY <2>3, <1>2, <1>3, <1>9, WindowTyped DEF WindowSizes
  <2> QED BY <2>6, <2>7, <2>8, <2>9 DEF WindowInv
<1> QED BY <1>2, <1>8, <1>9, WindowTyped

-----------------------------------------------------------------------------
(* The sessions.                                                           *)

SessionTypes ==
  /\ serving \in {"serving", "clean", "failed"}
  /\ ready \in BOOLEAN /\ flag \in BOOLEAN /\ up \in BOOLEAN
  /\ created \in 0..MaxCreated /\ table \subseteq 1..created
  /\ closed \subseteq 1..created /\ pressed \subseteq 1..created
  /\ \A g \in given : g.session \in 1..created

\* While requests are served the three flags agree, a session is known until
\* it is closed, and only known sessions hold input or have window ids.
LiveInv ==
  serving = "serving" =>
    /\ ready = flag /\ flag = up /\ (table # {} => up)
    /\ closed = (1..created) \ table /\ pressed \subseteq table
    /\ DOMAIN maps = table

\* The two directions of a WindowMap agree, and its next id is a new one.
MapOK(m) ==
  /\ m.next_id \in Nat
  /\ \A p \in DOMAIN m.public_to_backend : p \in Nat /\ p < m.next_id
  /\ \A h \in DOMAIN m.backend_to_public :
       /\ m.backend_to_public[h] \in DOMAIN m.public_to_backend
       /\ m.public_to_backend[m.backend_to_public[h]] = h

Holds(m, g) ==
  /\ g.public \in DOMAIN m.public_to_backend /\ m.public_to_backend[g.public] = g.handle
  /\ g.handle \in DOMAIN m.backend_to_public /\ m.backend_to_public[g.handle] = g.public

\* Every id of a map was given out for its session.
Owned(s, m, told) ==
  \A p \in DOMAIN m.public_to_backend :
    [session |-> s, public |-> p, handle |-> m.public_to_backend[p]] \in told

MapsInv ==
  serving = "serving" =>
    /\ \A s \in table : MapOK(maps[s]) /\ Owned(s, maps[s], given)
    /\ \A g \in given : g.session \in table => Holds(maps[g.session], g)

SessionInv == SessionTypes /\ LiveInv /\ MapsInv /\ NothingLeftBehind

\* A map without ids is in order.
LEMMA NewMapOK ==
  ASSUME NEW s, NEW told
  PROVE  MapOK(NewMap) /\ Owned(s, NewMap, told)
<1>1. DOMAIN <<>> = {}
  OBVIOUS
<1> QED BY <1>1 DEF MapOK, Owned, NewMap

\* public_id keeps a map in order and every id it has; the handle has one now,
\* and no other id is new.
LEMMA PublicIdKeeps ==
  ASSUME NEW m, NEW h, MapOK(m)
  PROVE  LET n == public_id(m, h)
         IN /\ MapOK(n) /\ h \in DOMAIN n.backend_to_public
            /\ \A p \in DOMAIN m.public_to_backend :
                 /\ p \in DOMAIN n.public_to_backend
                 /\ n.public_to_backend[p] = m.public_to_backend[p]
            /\ \A x \in DOMAIN m.backend_to_public :
                 /\ x \in DOMAIN n.backend_to_public
                 /\ n.backend_to_public[x] = m.backend_to_public[x]
            /\ \A p \in DOMAIN n.public_to_backend :
                 \/ /\ p \in DOMAIN m.public_to_backend
                    /\ n.public_to_backend[p] = m.public_to_backend[p]
                 \/ p = n.backend_to_public[h] /\ n.public_to_backend[p] = h
<1> DEFINE n == public_id(m, h)
<1>1. CASE h \in DOMAIN m.backend_to_public
  <2>1. n = m
    BY <1>1 DEF public_id
  <2> QED BY <2>1, <1>1
<1>2. CASE h \notin DOMAIN m.backend_to_public
  <2> DEFINE pb == With(m.public_to_backend, m.next_id, h)
             bp == With(m.backend_to_public, h, m.next_id)
  <2>1. n.next_id = m.next_id + 1 /\ n.public_to_backend = pb /\ n.backend_to_public = bp
    BY <1>2 DEF public_id
  <2>2. /\ DOMAIN pb = DOMAIN m.public_to_backend \union {m.next_id} /\ pb[m.next_id] = h
        /\ \A p \in DOMAIN m.public_to_backend : p # m.next_id => pb[p] = m.public_to_backend[p]
    BY DEF With
  <2>3. /\ DOMAIN bp = DOMAIN m.backend_to_public \union {h} /\ bp[h] = m.next_id
        /\ \A x \in DOMAIN m.backend_to_public : x # h => bp[x] = m.backend_to_public[x]
    BY DEF With
  <2>4. \A p \in DOMAIN m.public_to_backend : p # m.next_id
    BY DEF MapOK
  <2>5. n.next_id \in Nat /\ \A p \in DOMAIN n.public_to_backend : p \in Nat /\ p < n.next_id
    BY <2>1, <2>2 DEF MapOK
  <2> HIDE DEF pb, bp, n
  <2>6. \A x \in DOMAIN bp : bp[x] \in DOMAIN pb /\ pb[bp[x]] = x
    BY <2>2, <2>3, <2>4, <1>2 DEF MapOK
  <2>7. MapOK(n)
    BY <2>1, <2>5, <2>6 DEF MapOK
  <2>8. \A p \in DOMAIN m.public_to_backend : p \in DOMAIN pb /\ pb[p] = m.public_to_backend[p]
    BY <2>2, <2>4
  <2>9. \A x \in DOMAIN m.backend_to_public : x \in DOMAIN bp /\ bp[x] = m.backend_to_public[x]
    BY <2>3, <1>2
  <2>10. \A p \in DOMAIN pb : p \in DOMAIN m.public_to_backend \/ (p = bp[h] /\ pb[p] = h)
    BY <2>2, <2>3
  <2>11. n.public_to_backend = pb /\ n.backend_to_public = bp /\ h \in DOMAIN bp
    BY <2>1, <2>3
  <2> QED BY <2>7, <2>8, <2>9, <2>10, <2>11 DEF n
<1> QED BY <1>1, <1>2

\* Telling the client about a window keeps the maps.
LEMMA ShownKeeps ==
  ASSUME SessionInv, serving = "serving", NEW s \in table, NEW h, Shown(s, h),
         UNCHANGED table
  PROVE  /\ DOMAIN maps' = table
         /\ \A x \in table : MapOK(maps'[x]) /\ Owned(x, maps'[x], given')
         /\ \A g \in given' : g.session \in table => Holds(maps'[g.session], g)
         /\ \A g \in given' : g \in given \/ g.session = s
<1> DEFINE m == maps[s]
           n == public_id(m, h)
           new == [session |-> s, public |-> n.backend_to_public[h], handle |-> h]
<1>1. maps' = With(maps, s, n) /\ given' = given \union {new}
  BY DEF Shown
<1>2. /\ DOMAIN maps = table /\ MapOK(m) /\ Owned(s, m, given)
      /\ \A x \in table : MapOK(maps[x]) /\ Owned(x, maps[x], given)
      /\ \A g \in given : g.session \in table => Holds(maps[g.session], g)
  BY DEF SessionInv, LiveInv, MapsInv
<1>3. /\ DOMAIN maps' = table /\ maps'[s] = n
      /\ \A x \in table : x # s => maps'[x] = maps[x]
  BY <1>1, <1>2 DEF With
<1>4. /\ MapOK(n) /\ h \in DOMAIN n.backend_to_public
      /\ \A p \in DOMAIN m.public_to_backend :
           /\ p \in DOMAIN n.public_to_backend
           /\ n.public_to_backend[p] = m.public_to_backend[p]
      /\ \A x \in DOMAIN m.backend_to_public :
           /\ x \in DOMAIN n.backend_to_public
           /\ n.backend_to_public[x] = m.backend_to_public[x]
      /\ \A p \in DOMAIN n.public_to_backend :
           \/ /\ p \in DOMAIN m.public_to_backend
              /\ n.public_to_backend[p] = m.public_to_backend[p]
           \/ p = n.backend_to_public[h] /\ n.public_to_backend[p] = h
  BY <1>2, PublicIdKeeps
<1>5. new.session = s /\ new.public = n.backend_to_public[h] /\ new.handle = h
  OBVIOUS
<1> HIDE DEF m, n
<1>6. Owned(s, n, given')
  <2> SUFFICES ASSUME NEW p \in DOMAIN n.public_to_backend
               PROVE  [session |-> s, public |-> p, handle |-> n.public_to_backend[p]] \in given'
    BY DEF Owned
  <2>1. CASE p \in DOMAIN m.public_to_backend /\ n.public_to_backend[p] = m.public_to_backend[p]
    BY <2>1, <1>1, <1>2 DEF Owned
  <2>2. CASE p = n.backend_to_public[h] /\ n.public_to_backend[p] = h
    BY <2>2, <1>1
  <2> QED BY <2>1, <2>2, <1>4
<1>7. Holds(n, new)
  BY <1>4, <1>5 DEF Holds, MapOK
<1> HIDE DEF new
<1>8. ASSUME NEW x \in table PROVE MapOK(maps'[x]) /\ Owned(x, maps'[x], given')
  <2>1. CASE x = s
    BY <2>1, <1>3, <1>4, <1>6
  <2>2. CASE x # s
    BY <2>2, <1>1, <1>2, <1>3 DEF Owned
  <2> QED BY <2>1, <2>2
<1>9. ASSUME NEW g \in given', g.session \in table PROVE Holds(maps'[g.session], g)
  <2>1. CASE g = new
    BY <2>1, <1>3, <1>5, <1>7
  <2>2. CASE g \in given /\ g.session = s
    BY <2>2, <1>2, <1>3, <1>4 DEF Holds, m
  <2>3. CASE g \in given /\ g.session # s
    BY <2>3, <1>2, <1>3, <1>9
  <2> QED BY <2>1, <2>2, <2>3, <1>1
<1> QED BY <1>1, <1>3, <1>5, <1>8, <1>9

\* A step that touches neither runtime nor sessions.
LEMMA ServeKeeps ==
  ASSUME SessionInv, serving = "serving", Answer, UNCHANGED <<lifeVars, sessVars>>
  PROVE  SessionInv'
BY DEF SessionInv, SessionTypes, LiveInv, MapsInv, NothingLeftBehind, Answer, lifeVars, sessVars

\* The sessions are counted.
LEMMA CreatedNat ==
  ASSUME SessionInv
  PROVE  created \in Nat
BY ServerBounds DEF SessionInv, SessionTypes

\* health starts the runtime, or fails to, and the flags go on agreeing.
LEMMA HealthKeeps ==
  ASSUME SessionInv, NEW id \in RequestIds, SideHealth(id)
  PROVE  SessionInv'
<1>1. ready' = flag' /\ flag' = up' /\ (up => up') /\ ready' \in BOOLEAN
      /\ flag' \in BOOLEAN /\ up' \in BOOLEAN
  BY DEF SideHealth, Accept, SessionInv, LiveInv, SessionTypes, EnsureInitialized, InitializeFails
<1> QED BY <1>1 DEF SideHealth, Accept, Answer, SessionInv, SessionTypes, LiveInv, MapsInv,
                    NothingLeftBehind, sessVars

\* A new session has an id of its own and no window ids.
LEMMA CreateKeeps ==
  ASSUME SessionInv, NEW id \in RequestIds, SessionCreate(id)
  PROVE  SessionInv'
<1>1. serving = "serving" /\ Answer /\ created \in Nat
  BY CreatedNat DEF SessionCreate, Accept
<1>2. CASE InitializeFails /\ UNCHANGED <<created, sessVars>>
  <2>1. UNCHANGED <<lifeVars, sessVars>>
    BY <1>2 DEF InitializeFails, lifeVars
  <2> QED BY <1>1, <2>1, ServeKeeps
<1>3. CASE ~(InitializeFails /\ UNCHANGED <<created, sessVars>>)
  <2>1. /\ created < MaxCreated /\ EnsureInitialized /\ created' = created + 1
        /\ table' = table \union {created'} /\ maps' = With(maps, created', NewMap)
        /\ UNCHANGED <<closed, pressed, given>>
    BY <1>3 DEF SessionCreate
  <2>2. ready' = flag' /\ flag' = up' /\ up' = TRUE
    BY <1>1, <2>1 DEF SessionInv, LiveInv, SessionTypes, EnsureInitialized
  <2>3. /\ created' \in 1..created' /\ 1..created \subseteq 1..created' /\ created' \notin 1..created
        /\ 1..created' = (1..created) \union {created'}
    BY <1>1, <2>1
  <2>4. created' \in 0..MaxCreated
    BY <1>1, <2>1, ServerBounds
  <2>5. SessionTypes'
    BY <1>1, <2>1, <2>2, <2>3, <2>4 DEF SessionInv, SessionTypes, Answer
  <2>6. closed' = (1..created') \ table' /\ pressed' \subseteq table' /\ created' \notin table
    BY <1>1, <2>1, <2>3 DEF SessionInv, SessionTypes, LiveInv
  <2>7. /\ DOMAIN maps' = table' /\ maps'[created'] = NewMap
        /\ \A s \in table : maps'[s] = maps[s]
    BY <1>1, <2>1, <2>6 DEF With, SessionInv, LiveInv
  <2>8. LiveInv'
    BY <2>2, <2>6, <2>7 DEF LiveInv
  <2>9. ASSUME NEW s \in table' PROVE MapOK(maps'[s]) /\ Owned(s, maps'[s], given')
    <3>1. CASE s \in table
      BY <1>1, <2>1, <2>7, <3>1 DEF SessionInv, MapsInv
    <3>2. CASE s = created'
      BY <2>7, <3>2, NewMapOK
    <3> QED BY <2>1, <3>1, <3>2
  <2>10. ASSUME NEW g \in given', g.session \in table' PROVE Holds(maps'[g.session], g)
    <3>1. g \in given /\ g.session \in table
      BY <2>1, <2>3, <2>10 DEF SessionInv, SessionTypes
    <3> QED BY <1>1, <2>7, <3>1 DEF SessionInv, MapsInv
  <2>11. MapsInv'
    BY <2>9, <2>10 DEF MapsInv
  <2> QED BY <1>1, <2>5, <2>8, <2>11 DEF SessionInv, NothingLeftBehind, Answer
<1> QED BY <1>2, <1>3

\* A session that is closed is forgotten with its ids and its input.
LEMMA SessionCloseKeeps ==
  ASSUME SessionInv, NEW id \in RequestIds, NEW s \in table, SessionClose(id, s)
  PROVE  SessionInv'
<1>1. /\ serving = "serving" /\ Answer /\ UNCHANGED <<given, lifeVars>>
      /\ closed' = closed \union {s} /\ pressed' = pressed \ {s} /\ table' = table \ {s}
      /\ maps' = Without(maps, s)
  BY DEF SessionClose, Accept
<1>2. DOMAIN maps' = table' /\ \A x \in table' : maps'[x] = maps[x]
  BY <1>1 DEF Without, SessionInv, LiveInv
<1>3. SessionTypes'
  BY <1>1 DEF SessionInv, SessionTypes, Answer, lifeVars
<1>4. LiveInv'
  BY <1>1, <1>2 DEF SessionInv, SessionTypes, LiveInv, lifeVars
<1>5. MapsInv'
  BY <1>1, <1>2 DEF SessionInv, MapsInv
<1> QED BY <1>1, <1>3, <1>4, <1>5 DEF SessionInv, NothingLeftBehind, Answer

\* cleanup_pressed may only lift input.
LEMMA CleanupKeeps ==
  ASSUME SessionInv, NEW id \in RequestIds, NEW s \in table, CleanupPressed(id, s)
  PROVE  SessionInv'
<1>1. /\ serving = "serving" /\ Answer /\ pressed' \subseteq pressed
      /\ UNCHANGED <<table, maps, closed, given, lifeVars>>
  BY DEF CleanupPressed, Accept
<1> QED BY <1>1 DEF SessionInv, SessionTypes, LiveInv, MapsInv, NothingLeftBehind, Answer, lifeVars

\* A step that may leave input down and may show a window to the client.
LEMMA ShowKeeps ==
  ASSUME SessionInv, serving = "serving", Answer, NEW s \in table,
         (\E h \in Handles : Shown(s, h)) \/ UNCHANGED <<maps, given>>,
         pressed' \in {pressed, pressed \union {s}, pressed \ {s}},
         UNCHANGED <<table, closed, lifeVars>>
  PROVE  SessionInv'
<1>1. /\ DOMAIN maps' = table
      /\ \A x \in table : MapOK(maps'[x]) /\ Owned(x, maps'[x], given')
      /\ \A g \in given' : g.session \in table => Holds(maps'[g.session], g)
      /\ \A g \in given' : g \in given \/ g.session = s
  <2>1. CASE UNCHANGED <<maps, given>>
    BY <2>1 DEF SessionInv, LiveInv, MapsInv
  <2>2. CASE \E h \in Handles : Shown(s, h)
    BY <2>2, ShownKeeps
  <2> QED BY <2>1, <2>2
<1>2. SessionTypes'
  BY <1>1 DEF SessionInv, SessionTypes, Answer, lifeVars
<1>3. LiveInv'
  BY <1>1 DEF SessionInv, LiveInv, lifeVars
<1>4. MapsInv'
  BY <1>1 DEF MapsInv
<1> QED BY <1>2, <1>3, <1>4 DEF SessionInv, NothingLeftBehind, Answer

\* shutdown and the end of the input close what is open and clean up once.
LEMMA EndKeeps ==
  ASSUME SessionInv, serving = "serving", CloseSessions, RuntimeShutdown,
         serving' \in {"clean", "failed"}, table' \subseteq table, ready' \in BOOLEAN,
         UNCHANGED <<created, given>>
  PROVE  SessionInv'
<1>1. /\ flag' \in BOOLEAN /\ up' = FALSE /\ pressed' = {}
  BY DEF RuntimeShutdown, SessionInv, SessionTypes, LiveInv
<1>2. closed' = 1..created'
  BY DEF CloseSessions, SessionInv, SessionTypes, LiveInv
<1> QED BY <1>1, <1>2 DEF SessionInv, SessionTypes, LiveInv, MapsInv, NothingLeftBehind

\* Every step keeps the invariant of the sessions.
LEMMA SessionStep ==
  ASSUME SessionInv, [SideNext]_sideVars
  PROVE  SessionInv'
<1>1. CASE Rejected
  BY <1>1, ServeKeeps DEF Rejected
<1>2. CASE EndOfInput
  <2>1. ready' \in BOOLEAN
    BY <1>2 DEF EndOfInput, SessionInv, SessionTypes
  <2> QED BY <1>2, <2>1, EndKeeps DEF EndOfInput
<1>3. ASSUME NEW id \in RequestIds, Hello(id) \/ NoSuchSession(id) PROVE SessionInv'
  BY <1>3, ServeKeeps DEF Hello, NoSuchSession, Accept
<1>4. ASSUME NEW id \in RequestIds, SideHealth(id) PROVE SessionInv'
  BY <1>4, HealthKeeps
<1>5. ASSUME NEW id \in RequestIds, SessionCreate(id) PROVE SessionInv'
  BY <1>5, CreateKeeps
<1>6. ASSUME NEW id \in RequestIds, SideShutdown(id) PROVE SessionInv'
  BY <1>6, EndKeeps DEF SideShutdown
<1>7. ASSUME NEW id \in RequestIds, NEW s \in table, SessionClose(id, s) PROVE SessionInv'
  BY <1>7, SessionCloseKeeps
<1>8. ASSUME NEW id \in RequestIds, NEW s \in table, CleanupPressed(id, s) PROVE SessionInv'
  BY <1>8, CleanupKeeps
<1>9. ASSUME NEW id \in RequestIds, NEW s \in table, SemanticRead(id, s) \/ FrameCall(id, s)
      PROVE  SessionInv'
  BY <1>9, ServeKeeps DEF SemanticRead, FrameCall, Accept
<1>10. ASSUME NEW id \in RequestIds, NEW s \in table, NEW h \in Handles, WindowShown(id, s, h)
       PROVE  SessionInv'
  <2>1. /\ serving = "serving" /\ Answer /\ pressed' = pressed
        /\ UNCHANGED <<table, closed, lifeVars>>
        /\ (\E x \in Handles : Shown(s, x)) \/ UNCHANGED <<maps, given>>
    BY <1>10 DEF WindowShown, Accept
  <2> QED BY <2>1, ShowKeeps
<1>11. ASSUME NEW id \in RequestIds, NEW s \in table, NEW p \in PublicIds \union {0}, Perform(id, s, p)
       PROVE  SessionInv'
  <2>1. /\ serving = "serving" /\ Answer
        /\ pressed' \in {pressed, pressed \union {s}, pressed \ {s}}
        /\ UNCHANGED <<table, closed, lifeVars>>
        /\ (\E x \in Handles : Shown(s, x)) \/ UNCHANGED <<maps, given>>
    BY <1>11 DEF Perform, Accept
  <2> QED BY <2>1, ShowKeeps
<1>12. CASE UNCHANGED sideVars
  BY <1>12 DEF sideVars, SessionInv, SessionTypes, LiveInv, MapsInv, NothingLeftBehind
<1> QED BY <1>1, <1>2, <1>3, <1>4, <1>5, <1>6, <1>7, <1>8, <1>9, <1>10, <1>11, <1>12 DEF SideNext

\* Every step handles one id that is not in the window, or none.
LEMMA WindowStep ==
  ASSUME WindowInv, FarApart, [SideNext]_sideVars
  PROVE  WindowInv' /\ FarApart'
<1>1. ASSUME NEW id \in RequestIds, Take(id) PROVE WindowInv' /\ FarApart'
  BY <1>1, TakeWindow, TakeFarApart
<1>2. CASE UNCHANGED <<order, seen, handled>>
  BY <1>2 DEF WindowInv, WindowSizes, Aligned, Indexed, Counted, FarApart
<1>3. (\E id \in RequestIds : Take(id)) \/ UNCHANGED <<order, seen, handled>>
  <2>1. ASSUME NEW id \in RequestIds,
               Hello(id) \/ SideHealth(id) \/ SessionCreate(id) \/ NoSuchSession(id) \/ SideShutdown(id)
        PROVE  Take(id)
    BY <2>1 DEF Take, Hello, SideHealth, SessionCreate, NoSuchSession, SideShutdown, Accept
  <2>2. ASSUME NEW id \in RequestIds, NEW s \in table,
               \/ SessionClose(id, s) \/ CleanupPressed(id, s) \/ SemanticRead(id, s)
               \/ FrameCall(id, s) \/ \E h \in Handles : WindowShown(id, s, h)
               \/ \E p \in PublicIds \union {0} : Perform(id, s, p)
        PROVE  Take(id)
    BY <2>2 DEF Take, SessionClose, CleanupPressed, SemanticRead, FrameCall, WindowShown, Perform, Accept
  <2>3. ASSUME Rejected \/ EndOfInput \/ UNCHANGED sideVars PROVE UNCHANGED <<order, seen, handled>>
    BY <2>3 DEF Rejected, EndOfInput, sideVars
  <2> QED BY <2>1, <2>2, <2>3 DEF SideNext
<1> QED BY <1>1, <1>2, <1>3

-----------------------------------------------------------------------------
(* Theorems.                                                               *)

\* The server starts with nothing.
LEMMA SideInitial ==
  ASSUME SideInit
  PROVE  SessionInv /\ WindowInv /\ FarApart
<1>1. /\ DOMAIN <<>> = {} /\ Len(<<>>) = 0 /\ <<>> \in Seq(RequestIds)
      /\ 1..0 = {} /\ IsFiniteSet({}) /\ Cardinality({}) = 0
  BY FS_EmptySet
<1>2. SessionInv
  <2>1. SessionTypes
    <3>1. 0 \in 0..MaxCreated
      BY ServerBounds
    <3>2. /\ serving = "serving" /\ ready = FALSE /\ flag = FALSE /\ up = FALSE /\ created = 0
          /\ table = {} /\ closed = {} /\ pressed = {} /\ given = {}
      BY DEF SideInit
    <3> QED BY <3>1, <3>2 DEF SessionTypes
  <2>2. LiveInv
    <3>1. table = {} /\ closed = (1..created) \ table /\ DOMAIN maps = {}
      BY <1>1 DEF SideInit
    <3> QED BY <3>1 DEF SideInit, LiveInv
  <2>3. MapsInv
    BY DEF SideInit, MapsInv
  <2>4. NothingLeftBehind
    BY DEF SideInit, NothingLeftBehind
  <2> QED BY <2>1, <2>2, <2>3, <2>4 DEF SessionInv
<1>3. WindowInv /\ FarApart
  BY <1>1, CapacityAssumption
     DEF SideInit, WindowInv, WindowSizes, Aligned, Indexed, Counted, FarApart
<1> QED BY <1>2, <1>3

\* The window and the sessions stay in order for ever.
THEOREM ServerInvariance == SideSpec => [](SessionInv /\ WindowInv /\ FarApart)
<1>1. SideInit => SessionInv /\ WindowInv /\ FarApart
  BY SideInitial
<1>2. SessionInv /\ WindowInv /\ FarApart /\ [SideNext]_sideVars
      => (SessionInv /\ WindowInv /\ FarApart)'
  BY SessionStep, WindowStep
<1> QED BY <1>1, <1>2, PTL DEF SideSpec

\* A request id is not handled again while the window remembers it, and the
\* window remembers the last Capacity ones (RequestReplayWindow).
THEOREM NoReplay == SideSpec => []ReplayRefused
<1>1. WindowInv /\ FarApart => ReplayRefused
  BY DEF WindowInv, Indexed, Counted, FarApart, ReplayRefused
<1> QED BY <1>1, ServerInvariance, PTL

\* A window id a client was given means the same window as long as its session
\* is served (WindowMap).
THEOREM IdsHold == SideSpec => []WindowIdsHold
<1>1. SessionInv => WindowIdsHold
  BY DEF SessionInv, MapsInv, Holds, WindowIdsHold
<1> QED BY <1>1, ServerInvariance, PTL

\* A session the server knows is open, its backend is up, and its ids are its
\* own (handle_request).
THEOREM SessionsWork == SideSpec => []LiveSessionsWork
<1>1. SessionInv => LiveSessionsWork
  <2> SUFFICES ASSUME SessionInv, serving = "serving", NEW s \in table
               PROVE  /\ s \notin closed /\ ready /\ flag /\ up
                      /\ \A p \in DOMAIN maps[s].public_to_backend :
                           [session |-> s, public |-> p, handle |-> backend_id(s, p)] \in given
    BY DEF LiveSessionsWork
  <2>1. s \notin closed /\ ready /\ flag /\ up
    BY DEF SessionInv, LiveInv
  <2>2. Owned(s, maps[s], given)
    BY DEF SessionInv, MapsInv
  <2> QED BY <2>1, <2>2 DEF Owned, backend_id
<1> QED BY <1>1, ServerInvariance, PTL

\* When serve ends without an error nothing is left open, down or up.
THEOREM CleanEnd == SideSpec => []NothingLeftBehind
<1>1. SessionInv => NothingLeftBehind
  BY DEF SessionInv
<1> QED BY <1>1, ServerInvariance, PTL

\* No more requests are handled than the bound of the model lets in.
HandledBound == Len(handled) <= MaxRequests

\* No step handles more requests than the bound.
LEMMA BoundStep ==
  ASSUME WindowInv, HandledBound, [SideNext]_sideVars
  PROVE  HandledBound'
<1>1. handled \in Seq(RequestIds) /\ Len(handled) \in Nat /\ MaxRequests \in Nat
  BY ServerBounds, WindowTyped DEF WindowInv, WindowSizes
<1>2. ASSUME NEW id \in RequestIds, Len(handled) < MaxRequests, handled' = Append(handled, id)
      PROVE  HandledBound'
  <2>1. Len(Append(handled, id)) = Len(handled) + 1
    BY <1>1
  <2>2. Len(handled) + 1 <= MaxRequests
    BY ONLY <1>1, <1>2
  <2> QED BY <1>2, <2>1, <2>2 DEF HandledBound
<1>3. \/ UNCHANGED handled
      \/ \E id \in RequestIds : Len(handled) < MaxRequests /\ handled' = Append(handled, id)
  <2>1. ASSUME NEW id \in RequestIds,
               Hello(id) \/ SideHealth(id) \/ SessionCreate(id) \/ NoSuchSession(id) \/ SideShutdown(id)
        PROVE  Len(handled) < MaxRequests /\ handled' = Append(handled, id)
    BY <2>1 DEF Hello, SideHealth, SessionCreate, NoSuchSession, SideShutdown, Accept
  <2>2. ASSUME NEW id \in RequestIds, NEW s \in table,
               \/ SessionClose(id, s) \/ CleanupPressed(id, s) \/ SemanticRead(id, s)
               \/ FrameCall(id, s) \/ \E h \in Handles : WindowShown(id, s, h)
               \/ \E p \in PublicIds \union {0} : Perform(id, s, p)
        PROVE  Len(handled) < MaxRequests /\ handled' = Append(handled, id)
    BY <2>2 DEF SessionClose, CleanupPressed, SemanticRead, FrameCall, WindowShown, Perform, Accept
  <2>3. ASSUME Rejected \/ EndOfInput \/ UNCHANGED sideVars PROVE UNCHANGED handled
    BY <2>3 DEF Rejected, EndOfInput, sideVars
  <2> QED BY <2>1, <2>2, <2>3 DEF SideNext
<1> QED BY <1>2, <1>3 DEF HandledBound

\* The window never grows past its capacity, and the tables of the server are
\* of sessions there have been.
THEOREM SideTypes == SideSpec => []SideTypeOK
<1>1. SideInit => HandledBound
  BY ServerBounds DEF SideInit, HandledBound
<1>2. WindowInv /\ HandledBound /\ [SideNext]_sideVars => HandledBound'
  BY BoundStep
<1>3. SessionInv /\ WindowInv /\ HandledBound => SideTypeOK
  <2> SUFFICES ASSUME SessionInv, WindowInv, HandledBound PROVE SideTypeOK
    OBVIOUS
  <2>1. order \in Seq(RequestIds) /\ seen \subseteq RequestIds
    BY DEF WindowInv, WindowSizes, Indexed
  <2> QED BY <2>1 DEF SessionInv, SessionTypes, LiveInv, WindowInv, WindowSizes, HandledBound, SideTypeOK
<1> QED BY <1>1, <1>2, <1>3, ServerInvariance, PTL DEF SideSpec
=============================================================================
