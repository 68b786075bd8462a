--------------------------- MODULE SceneTheorems ---------------------------
(***************************************************************************)
(* What the operations of Scene preserve: each leaves a well-typed scene   *)
(* whose paint order lists its windows exactly once.  These are facts      *)
(* about the operators alone, cited by CoreStateTheorems for every         *)
(* workspace and by SceneDamageTheorems for the scene under a renderer.    *)
(***************************************************************************)
EXTENDS Scene, FiniteSets, FiniteSetTheorems, TLAPS

\* A fresh scene is well typed and ordered.
LEMMA EmptySceneIsOrdered == EmptyScene \in SceneState /\ PaintOrder(EmptyScene)
<1>1. EmptyScene \in SceneState
  BY DEF EmptyScene, SceneState
<1>2. Placed(EmptyScene) = {}
  BY DEF Placed, EmptyScene
<1>3. QED
  BY <1>1, <1>2
  DEF PaintOrder, OrderIsMapped, OrderHasNoRepeats, OrderIsComplete, EmptyScene

\* Position finds the window it is asked for.
LEMMA PositionFinds ==
  ASSUME NEW order, NEW w, Listed(order, w)
  PROVE  Position(order, w) \in DOMAIN order /\ order[Position(order, w)] = w
BY DEF Listed, Position

\* Taking one window out of an order without repeats leaves all the others,
\* still without repeats.
LEMMA WithoutDropsOne ==
  ASSUME NEW order \in Seq(Window), NEW w \in Window, Listed(order, w),
         \A i, j \in DOMAIN order : order[i] = order[j] => i = j
  PROVE  LET rest == Without(order, w)
         IN  /\ rest \in Seq(Window)
             /\ Len(rest) = Len(order) - 1
             /\ \A i, j \in DOMAIN rest : rest[i] = rest[j] => i = j
             /\ \A v \in Window : Listed(rest, v) <=> Listed(order, v) /\ v # w
<1> DEFINE rest == Without(order, w)
           gap == Position(order, w)
           old(i) == IF i < gap THEN i ELSE i + 1
<1>1. gap \in 1 .. Len(order) /\ order[gap] = w /\ DOMAIN order = 1 .. Len(order)
  BY PositionFinds
<1>2. Len(order) \in Nat /\ Len(order) - 1 \in Nat
  BY <1>1
<1>3. \A i \in 1 .. Len(order) - 1 : old(i) \in 1 .. Len(order) /\ old(i) # gap
  BY <1>1, <1>2
<1>4. rest = [i \in 1 .. Len(order) - 1 |-> order[old(i)]]
  BY DEF Without
<1>5. rest \in [1 .. Len(order) - 1 -> Window]
  BY <1>1, <1>3, <1>4
<1>6. rest \in Seq(Window) /\ Len(rest) = Len(order) - 1
      /\ DOMAIN rest = 1 .. Len(order) - 1
  BY <1>2, <1>5
<1>7. \A i, j \in DOMAIN rest : rest[i] = rest[j] => i = j
  <2> SUFFICES ASSUME NEW i \in DOMAIN rest, NEW j \in DOMAIN rest, rest[i] = rest[j]
               PROVE  i = j
    OBVIOUS
  <2>1. order[old(i)] = order[old(j)]
    BY <1>4, <1>6
  <2>2. old(i) = old(j)
    BY <1>1, <1>3, <1>6, <2>1
  <2> QED
    BY <1>1, <1>6, <2>2
<1>8. ASSUME NEW v \in Window, Listed(rest, v)
      PROVE  Listed(order, v) /\ v # w
  <2>1. PICK i \in DOMAIN rest : rest[i] = v
    BY <1>8 DEF Listed
  <2>2. order[old(i)] = v /\ old(i) \in DOMAIN order /\ old(i) # gap
    BY <1>1, <1>3, <1>4, <1>6, <2>1
  <2> QED
    BY <1>1, <2>2 DEF Listed
<1>9. ASSUME NEW v \in Window, Listed(order, v), v # w
      PROVE  Listed(rest, v)
  <2>1. PICK k \in DOMAIN order : order[k] = v
    BY <1>9 DEF Listed
  <2>2. k # gap /\ k \in 1 .. Len(order)
    BY <1>1, <1>9, <2>1
  <2>3. CASE k < gap
    <3>1. k \in 1 .. Len(order) - 1 /\ rest[k] = v
      BY <1>1, <1>4, <2>1, <2>2, <2>3
    <3> QED
      BY <1>6, <3>1 DEF Listed
  <2>4. CASE k > gap
    <3>1. k - 1 \in 1 .. Len(order) - 1 /\ ~(k - 1 < gap) /\ (k - 1) + 1 = k
      BY <1>1, <2>2, <2>4
    <3>2. rest[k - 1] = v
      BY <1>4, <2>1, <3>1
    <3> QED
      BY <1>6, <3>1, <3>2 DEF Listed
  <2> QED
    BY <1>1, <2>2, <2>3, <2>4
<1> QED
  BY <1>6, <1>7, <1>8, <1>9

\* Scene::set_window keeps a scene well typed and its order exact.
LEMMA SetWindowPreserves ==
  ASSUME NEW s \in SceneState, PaintOrder(s), NEW w \in Window, NEW r \in Rect
  PROVE  /\ SetWindow(s, w, r) \in SceneState
         /\ PaintOrder(SetWindow(s, w, r))
         /\ Placed(SetWindow(s, w, r)) = Placed(s) \cup {w}
<1> DEFINE t == SetWindow(s, w, r)
<1> USE NoRectAssumption
<1>1. t.rects = [s.rects EXCEPT ![w] = r] /\ t \in SceneState
  BY DEF SetWindow, SceneState
<1>2. Placed(t) = Placed(s) \cup {w}
  BY <1>1 DEF Placed, SceneState
<1>3. CASE w \in Placed(s)
  <2>1. t.order = s.order /\ Placed(t) = Placed(s)
    BY <1>2, <1>3 DEF SetWindow
  <2> QED
    BY <1>1, <1>2, <2>1
    DEF PaintOrder, OrderIsMapped, OrderHasNoRepeats, OrderIsComplete, Listed
<1>4. CASE w \notin Placed(s)
  <2> DEFINE n == Len(s.order)
  <2>1. t.order = Append(s.order, w) /\ s.order \in Seq(Window) /\ n \in Nat
    BY <1>4 DEF SetWindow, SceneState
  <2>2. /\ DOMAIN s.order = 1 .. n
        /\ DOMAIN t.order = 1 .. n + 1
        /\ \A i \in 1 .. n : t.order[i] = s.order[i] /\ t.order[i] \in Placed(s)
        /\ t.order[n + 1] = w
    BY <2>1 DEF PaintOrder, OrderIsMapped
  <2>3. OrderIsMapped(t)
    BY <1>2, <2>1, <2>2 DEF OrderIsMapped
  <2>4. OrderHasNoRepeats(t)
    BY <1>4, <2>1, <2>2 DEF PaintOrder, OrderHasNoRepeats
  <2>5. OrderIsComplete(t)
    <3> SUFFICES ASSUME NEW v \in Placed(s) \cup {w}
                 PROVE  \E i \in 1 .. n + 1 : t.order[i] = v
      BY <1>2, <2>2 DEF OrderIsComplete, Listed
    <3>1. CASE v = w
      BY <2>1, <2>2, <3>1
    <3>2. CASE v \in Placed(s)
      BY <2>1, <2>2, <3>2 DEF PaintOrder, OrderIsComplete, Listed
    <3> QED
      BY <3>1, <3>2
  <2> QED
    BY <1>1, <1>2, <2>3, <2>4, <2>5 DEF PaintOrder
<1> QED
  BY <1>3, <1>4

\* Scene::remove_window keeps a scene well typed and its order exact.
LEMMA RemoveWindowPreserves ==
  ASSUME NEW s \in SceneState, PaintOrder(s), NEW w \in Window
  PROVE  /\ RemoveWindow(s, w) \in SceneState
         /\ PaintOrder(RemoveWindow(s, w))
         /\ RemoveWindow(s, w).rects = [s.rects EXCEPT ![w] = NoRect]
<1> DEFINE t == RemoveWindow(s, w)
<1>1. CASE w \notin Placed(s)
  <2>1. t = s /\ s.rects[w] = NoRect /\ s.rects \in [Window -> Rect \cup {NoRect}]
    BY <1>1 DEF RemoveWindow, Placed, SceneState
  <2>2. s.rects = [s.rects EXCEPT ![w] = NoRect]
    BY <2>1
  <2> QED
    BY <2>1, <2>2
<1>2. CASE w \in Placed(s)
  <2> DEFINE rest == Without(s.order, w)
  <2>1. Listed(s.order, w) /\ s.order \in Seq(Window)
    BY <1>2 DEF PaintOrder, OrderIsComplete, SceneState
  <2>2. /\ rest \in Seq(Window)
        /\ \A i, j \in DOMAIN rest : rest[i] = rest[j] => i = j
        /\ \A v \in Window : Listed(rest, v) <=> Listed(s.order, v) /\ v # w
    BY <2>1, WithoutDropsOne DEF PaintOrder, OrderHasNoRepeats
  <2>3. t.rects = [s.rects EXCEPT ![w] = NoRect] /\ t.order = rest /\ t \in SceneState
    BY <1>2, <2>1, <2>2 DEF RemoveWindow, SceneState
  <2>4. Placed(t) = Placed(s) \ {w}
    BY <2>3 DEF Placed, SceneState
  <2>5. OrderIsMapped(t)
    <3> SUFFICES ASSUME NEW i \in DOMAIN rest
                 PROVE  rest[i] \in Placed(t)
      BY <2>3 DEF OrderIsMapped
    <3>1. rest[i] \in Window /\ Listed(rest, rest[i])
      BY <2>2 DEF Listed
    <3>2. Listed(s.order, rest[i]) /\ rest[i] # w
      BY <2>2, <3>1
    <3> QED
      BY <2>4, <3>2 DEF PaintOrder, OrderIsMapped, Listed
  <2>6. OrderIsComplete(t)
    BY <2>2, <2>3, <2>4 DEF PaintOrder, OrderIsComplete, Placed
  <2> QED
    BY <2>2, <2>3, <2>5, <2>6 DEF PaintOrder, OrderHasNoRepeats
<1> QED
  BY <1>1, <1>2

\* Scene::raise_window keeps a scene well typed and its order exact.
LEMMA RaiseWindowPreserves ==
  ASSUME NEW s \in SceneState, PaintOrder(s), NEW w \in Window
  PROVE  /\ RaiseWindow(s, w) \in SceneState
         /\ PaintOrder(RaiseWindow(s, w))
         /\ RaiseWindow(s, w).rects = s.rects
<1> DEFINE t == RaiseWindow(s, w)
           rest == Without(s.order, w)
           n == Len(rest)
<1>1. CASE ~(CanRaise(s, w) /\ ~AtFront(s, w))
  BY <1>1 DEF RaiseWindow
<1>2. CASE CanRaise(s, w) /\ ~AtFront(s, w)
  <2>1. w \in Placed(s) /\ Listed(s.order, w) /\ s.order \in Seq(Window)
    BY <1>2 DEF CanRaise, SceneState
  <2>2. /\ rest \in Seq(Window)
        /\ \A i, j \in DOMAIN rest : rest[i] = rest[j] => i = j
        /\ \A v \in Window : Listed(rest, v) <=> Listed(s.order, v) /\ v # w
    BY <2>1, WithoutDropsOne DEF PaintOrder, OrderHasNoRepeats
  <2>3. t.rects = s.rects /\ t.order = Append(rest, w) /\ t \in SceneState
    BY <1>2, <2>2 DEF RaiseWindow, SceneState
  <2>4. Placed(t) = Placed(s)
    BY <2>3 DEF Placed
  <2>5. /\ n \in Nat
        /\ DOMAIN rest = 1 .. n
        /\ DOMAIN t.order = 1 .. n + 1
        /\ \A i \in 1 .. n : t.order[i] = rest[i]
        /\ t.order[n + 1] = w
    BY <2>2, <2>3
  <2>6. \A i \in 1 .. n : rest[i] # w /\ rest[i] \in Placed(s)
    <3> SUFFICES ASSUME NEW i \in 1 .. n
                 PROVE  rest[i] # w /\ rest[i] \in Placed(s)
      OBVIOUS
    <3>1. rest[i] \in Window /\ Listed(rest, rest[i])
      BY <2>2, <2>5 DEF Listed
    <3>2. Listed(s.order, rest[i]) /\ rest[i] # w
      BY <2>2, <3>1
    <3> QED
      BY <3>2 DEF PaintOrder, OrderIsMapped, Listed
  <2>7. OrderIsMapped(t)
    BY <2>1, <2>4, <2>5, <2>6 DEF OrderIsMapped
  <2>8. OrderHasNoRepeats(t)
    BY <2>2, <2>5, <2>6 DEF OrderHasNoRepeats
  <2>9. OrderIsComplete(t)
    <3> SUFFICES ASSUME NEW v \in Placed(s)
                 PROVE  \E i \in 1 .. n + 1 : t.order[i] = v
      BY <2>4, <2>5 DEF OrderIsComplete, Listed
    <3>1. CASE v = w
      BY <2>5, <3>1
    <3>2. CASE v # w
      <4>1. Listed(rest, v)
        BY <2>2, <3>2 DEF PaintOrder, OrderIsComplete, Placed
      <4> QED
        BY <2>5, <4>1 DEF Listed
    <3> QED
      BY <3>1, <3>2
  <2> QED
    BY <2>3, <2>7, <2>8, <2>9 DEF PaintOrder
<1> QED
  BY <1>1, <1>2

\* A paint order is as long as its scene has windows, so an order of that
\* length without repeats or strangers cannot miss a window.
LEMMA PaintOrderLength ==
  ASSUME NEW s \in SceneState, PaintOrder(s), IsFiniteSet(Window)
  PROVE  /\ IsFiniteSet(Placed(s))
         /\ Len(s.order) = Cardinality(Placed(s))
<1> DEFINE n == Len(s.order)
<1>1. IsFiniteSet(Placed(s))
  BY FS_Subset DEF Placed
<1>2. n \in Nat /\ DOMAIN s.order = 1 .. n /\ s.order \in [1 .. n -> Placed(s)]
  BY DEF SceneState, PaintOrder, OrderIsMapped
<1>3. s.order \in Bijection(1 .. n, Placed(s))
  BY <1>2 DEF Bijection, Injection, Surjection, IsInjective,
              PaintOrder, OrderHasNoRepeats, OrderIsComplete, Listed
<1> QED
  BY <1>1, <1>2, <1>3, FS_CountingElements DEF ExistsBijection

\* As many distinct entries as placed windows list every placed window.
LEMMA InjectiveOrderIsComplete ==
  ASSUME NEW S, IsFiniteSet(S), NEW order \in [1 .. Cardinality(S) -> S],
         \A i, j \in DOMAIN order : order[i] = order[j] => i = j
  PROVE  \A w \in S : Listed(order, w)
<1> DEFINE n == Cardinality(S)
<1>1. n \in Nat
  BY FS_CardinalityType
<1>2. Cardinality(1 .. n) = n /\ IsFiniteSet(1 .. n)
  BY <1>1, FS_Interval
<1>3. order \in Injection(1 .. n, S)
  BY DEF Injection, IsInjective
<1>4. order \in Surjection(1 .. n, S)
  BY <1>2, <1>3, FS_Injection
<1> QED
  BY <1>4 DEF Surjection, Listed

\* Scene::set_order keeps a scene well typed and its order exact.
LEMMA SetOrderPreserves ==
  ASSUME NEW s \in SceneState, PaintOrder(s), IsFiniteSet(Window),
         NEW order \in Seq(Window)
  PROVE  /\ SetOrder(s, order) \in SceneState
         /\ PaintOrder(SetOrder(s, order))
         /\ SetOrder(s, order).rects = s.rects
<1> DEFINE t == SetOrder(s, order)
<1>1. CASE ~AcceptsOrder(s, order)
  BY <1>1 DEF SetOrder
<1>2. CASE AcceptsOrder(s, order)
  <2>1. t.order = order /\ t.rects = s.rects /\ t \in SceneState /\ Placed(t) = Placed(s)
    BY <1>2 DEF SetOrder, SceneState, Placed
  <2>2. OrderIsMapped(t)
    BY <1>2, <2>1 DEF OrderIsMapped, AcceptsOrder
  <2>3. DOMAIN order \subseteq Nat
    OBVIOUS
  <2>4. OrderHasNoRepeats(t)
    <3> SUFFICES ASSUME NEW i \in DOMAIN order, NEW j \in DOMAIN order,
                        order[i] = order[j], i # j
                 PROVE  FALSE
      BY <2>1 DEF OrderHasNoRepeats
    <3>1. i < j \/ j < i
      BY <2>3
    <3> QED
      BY <1>2, <3>1 DEF AcceptsOrder
  <2>5. order \in [1 .. Cardinality(Placed(s)) -> Placed(s)]
    BY <1>2, PaintOrderLength DEF AcceptsOrder
  <2>6. OrderIsComplete(t)
    BY <2>1, <2>4, <2>5, PaintOrderLength, InjectiveOrderIsComplete
    DEF OrderIsComplete, OrderHasNoRepeats
  <2> QED
    BY <2>1, <2>2, <2>4, <2>6 DEF PaintOrder
<1> QED
  BY <1>1, <1>2
-----------------------------------------------------------------------------
\* Taking one window out of an order moves no other above or below another.
LEMMA WithoutKeepsOrder ==
  ASSUME NEW s \in SceneState, NEW t, NEW w \in Window, Listed(s.order, w), PaintOrder(s),
         t.order = Without(s.order, w),
         NEW u \in Window \ {w}, NEW v \in Window \ {w}
  PROVE  Above(s, u, v) <=> Above(t, u, v)
<1> DEFINE gap == Position(s.order, w)
           n == Len(s.order)
           old(i) == IF i < gap THEN i ELSE i + 1
           new(i) == IF i < gap THEN i ELSE i - 1
<1>1. gap \in 1 .. n /\ s.order[gap] = w /\ DOMAIN s.order = 1 .. n /\ n \in Nat
  BY PositionFinds DEF SceneState
<1>2. t.order = [i \in 1 .. n - 1 |-> s.order[old(i)]] /\ DOMAIN t.order = 1 .. n - 1
  BY DEF Without
<1> HIDE DEF gap, n
<1>3. ASSUME Above(t, u, v) PROVE Above(s, u, v)
  <2>1. PICK i, j \in 1 .. n - 1 : j < i /\ t.order[i] = u /\ t.order[j] = v
    BY <1>2, <1>3 DEF Above
  <2>2. s.order[old(i)] = u /\ s.order[old(j)] = v
    BY <1>2, <2>1
  <2>3. old(i) \in 1 .. n /\ old(j) \in 1 .. n /\ old(j) < old(i)
    BY <1>1, <2>1
  <2> QED
    BY <1>1, <2>2, <2>3 DEF Above
<1>4. ASSUME Above(s, u, v) PROVE Above(t, u, v)
  <2>1. PICK i, j \in 1 .. n : j < i /\ s.order[i] = u /\ s.order[j] = v
    BY <1>1, <1>4 DEF Above
  <2>2. i # gap /\ j # gap
    BY <1>1, <2>1
  <2>3. /\ new(i) \in 1 .. n - 1 /\ new(j) \in 1 .. n - 1 /\ new(j) < new(i)
        /\ old(new(i)) = i /\ old(new(j)) = j
    BY <1>1, <2>1, <2>2
  <2>4. t.order[new(i)] = u /\ t.order[new(j)] = v
    BY <1>2, <2>1, <2>3
  <2> QED
    BY <1>2, <2>3, <2>4 DEF Above
<1> QED
  BY <1>3, <1>4

\* Listing one more window at the front moves no other either.
LEMMA AppendKeepsOrder ==
  ASSUME NEW order \in Seq(Window), NEW s, NEW t, NEW w \in Window,
         s.order = order, t.order = Append(order, w),
         NEW u \in Window \ {w}, NEW v \in Window \ {w}
  PROVE  Above(s, u, v) <=> Above(t, u, v)
<1>1. /\ Len(order) \in Nat /\ DOMAIN order = 1 .. Len(order)
      /\ DOMAIN t.order = 1 .. Len(order) + 1
      /\ \A i \in 1 .. Len(order) : t.order[i] = order[i]
      /\ t.order[Len(order) + 1] = w
  OBVIOUS
<1>2. \A i \in DOMAIN t.order : t.order[i] # w => i \in DOMAIN order /\ t.order[i] = order[i]
  BY <1>1
<1>3. \A i \in DOMAIN order : i \in DOMAIN t.order /\ t.order[i] = order[i]
  BY <1>1
<1> QED
  BY <1>2, <1>3 DEF Above
=============================================================================
