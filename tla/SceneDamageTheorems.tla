------------------------ MODULE SceneDamageTheorems ------------------------
(***************************************************************************)
(* What holds of one scene under every sequence of updates and repaints,   *)
(* for every set of windows and rectangles: its type, its paint order, and *)
(* that the one rectangle of take_damage() contains every place that has   *)
(* to be painted again.                                                    *)
(***************************************************************************)
EXTENDS SceneDamage, SceneTheorems, WellFoundedInduction

IInv == TypeOK /\ SceneIsOrdered

\* The damage an operation reports for the placed windows is made of rectangles.
LEMMA PlacedDamage ==
  ASSUME NEW s \in SceneState
  PROVE  \A w \in Placed(s) : s.rects[w] \in Rect
BY NoRectAssumption DEF SceneState, Placed

\* Any operation that leaves a well-typed, ordered scene and damages
\* rectangles keeps the invariant.
LEMMA ChangePreserves ==
  ASSUME IInv, NEW s \in SceneState, PaintOrder(s), NEW damage \in SUBSET Rect,
         Changed(s, damage)
  PROVE  IInv'
BY DamageAssumption DEF IInv, TypeOK, SceneIsOrdered, Changed, PaintOrder, OrderIsMapped,
   OrderHasNoRepeats, OrderIsComplete, Placed, Listed

\* The invariant is inductive.
LEMMA StepPreserves == IInv /\ [Next]_vars => IInv'
<1> SUFFICES ASSUME IInv, [Next]_vars PROVE IInv'
  OBVIOUS
<1>1. scene \in SceneState /\ PaintOrder(scene)
  BY DEF IInv, TypeOK, SceneIsOrdered
<1>2. {scene.rects[w] : w \in Placed(scene)} \in SUBSET Rect
  BY <1>1, PlacedDamage
<1>3. CASE UNCHANGED vars
  BY <1>3 DEF IInv, TypeOK, SceneIsOrdered, vars
<1>4. ASSUME NEW w \in Window, NEW r \in Rect, DoSetWindow(w, r) PROVE IInv'
  <2>1. ({scene.rects[w]} \ {NoRect}) \cup {r} \in SUBSET Rect
    BY <1>1 DEF SceneState
  <2> QED
    BY <1>1, <1>4, <2>1, SetWindowPreserves, ChangePreserves DEF DoSetWindow
<1>5. ASSUME NEW w \in Window, DoRemoveWindow(w) PROVE IInv'
  <2>1. {scene.rects[w]} \in SUBSET Rect
    BY <1>1, <1>5, PlacedDamage DEF DoRemoveWindow
  <2> QED
    BY <1>1, <1>5, <2>1, RemoveWindowPreserves, ChangePreserves DEF DoRemoveWindow
<1>6. ASSUME NEW w \in Window, DoRaiseWindow(w) PROVE IInv'
  <2>1. {scene.rects[w]} \in SUBSET Rect
    BY <1>1, <1>6, PlacedDamage DEF DoRaiseWindow, CanRaise
  <2> QED
    BY <1>1, <1>6, <2>1, RaiseWindowPreserves, ChangePreserves DEF DoRaiseWindow
<1>7. ASSUME NEW order \in Orders, DoSetOrder(order) PROVE IInv'
  <2>1. order \in Seq(Window)
    BY DEF Orders
  <2> QED
    BY <1>1, <1>2, <1>7, <2>1, DamageAssumption, SetOrderPreserves, ChangePreserves DEF DoSetOrder
<1>8. CASE DoClear
  BY <1>2, <1>8, EmptySceneIsOrdered, ChangePreserves DEF DoClear
<1>9. CASE TakeDamage
  BY <1>9 DEF TakeDamage, IInv, TypeOK, SceneIsOrdered
<1> QED
  BY <1>3, <1>4, <1>5, <1>6, <1>7, <1>8, <1>9 DEF Next

\* Types and paint order hold in every reachable state.
THEOREM Invariance == Spec => []IInv
<1>1. Init => IInv
  BY EmptySceneIsOrdered, DamageAssumption DEF Init, IInv, TypeOK, SceneIsOrdered
<1> QED
  BY <1>1, StepPreserves, PTL DEF Spec

\* ordered_windows() never panics on a scene and lists each window once, for
\* every number of windows, rectangles and updates.
THEOREM SceneStaysOrdered == Spec => []SceneIsOrdered
<1>1. IInv => SceneIsOrdered
  BY DEF IInv
<1> QED
  BY <1>1, Invariance, PTL
-----------------------------------------------------------------------------
\* A finite, nonempty set has a least element in any order that is total on it.
LEMMA HasLeast ==
  ASSUME NEW S, IsFiniteSet(S), S # {}, NEW R,
         \A x, y \in S : <<x, y>> \in R \/ <<y, x>> \in R,
         \A x, y, z \in S : <<x, y>> \in R /\ <<y, z>> \in R => <<x, z>> \in R
  PROVE  \E x \in S : \A y \in S : <<x, y>> \in R
<1> DEFINE Lacking == {T \in SUBSET S : T # {} /\ ~\E x \in T : \A y \in T : <<x, y>> \in R}
<1> SUFFICES ASSUME Lacking # {} PROVE FALSE
  OBVIOUS
<1>1. Lacking \subseteq FiniteSubsetsOf(S)
  BY FS_Subset DEF FiniteSubsetsOf
<1>2. PICK T \in Lacking : \A U \in Lacking : ~(<<U, T>> \in StrictSubsetOrdering(S))
  <2> HIDE DEF Lacking
  <2> QED
    BY <1>1, FS_StrictSubsetOrderingWellFounded, WFMin
<1>3. PICK t \in T : TRUE
  OBVIOUS
<1> DEFINE rest == T \ {t}
<1>4. rest \notin Lacking /\ T \in SUBSET S /\ rest \in SUBSET S
  <2>1. T \in SUBSET S /\ t \in T /\ rest \in SUBSET S /\ rest \subseteq T /\ rest # T
    BY <1>3
  <2>2. <<rest, T>> \in StrictSubsetOrdering(S)
    BY <2>1 DEF StrictSubsetOrdering
  <2> HIDE DEF Lacking, rest
  <2> QED
    BY <1>2, <2>1, <2>2
<1>5. CASE T = {t}
  BY <1>2, <1>5
<1>6. CASE T # {t}
  <2>1. PICK x \in rest : \A y \in rest : <<x, y>> \in R
    <3>1. rest # {}
      BY <1>3, <1>6
    <3> HIDE DEF rest
    <3> QED
      BY <1>4, <3>1
  <2>2. CASE <<x, t>> \in R
    BY <1>2, <2>1, <2>2
  <2>3. CASE <<t, x>> \in R
    <3>1. \A y \in T : <<t, y>> \in R
      BY <1>2, <1>3, <2>1, <2>3
    <3> QED
      BY <1>2, <1>3, <3>1
  <2> QED
    BY <1>2, <1>3, <2>1, <2>2, <2>3
<1> QED
  BY <1>5, <1>6

\* Min and Max are what they are called on finite sets of integers.
LEMMA MinMax ==
  ASSUME NEW S \in SUBSET Int, IsFiniteSet(S), S # {}
  PROVE  /\ Min(S) \in S /\ \A y \in S : Min(S) <= y
         /\ Max(S) \in S /\ \A y \in S : y <= Max(S)
<1>1. \E x \in S : \A y \in S : x <= y
  <2> DEFINE R == {pair \in S \X S : pair[1] <= pair[2]}
  <2>1. \A x, y \in S : <<x, y>> \in R <=> x <= y
    OBVIOUS
  <2> HIDE DEF R
  <2>2. \E x \in S : \A y \in S : <<x, y>> \in R
    <3>1. ASSUME NEW x \in S, NEW y \in S PROVE <<x, y>> \in R \/ <<y, x>> \in R
      <4>1. x \in Int /\ y \in Int
        OBVIOUS
      <4> QED
        BY <2>1, <4>1
    <3>2. ASSUME NEW x \in S, NEW y \in S, NEW z \in S, <<x, y>> \in R, <<y, z>> \in R
          PROVE  <<x, z>> \in R
      <4>1. x \in Int /\ y \in Int /\ z \in Int
        OBVIOUS
      <4> QED
        BY <2>1, <3>2, <4>1
    <3> QED
      BY <3>1, <3>2, HasLeast
  <2> QED
    BY <2>1, <2>2
<1>2. \E x \in S : \A y \in S : x >= y
  <2> DEFINE R == {pair \in S \X S : pair[1] >= pair[2]}
  <2>1. \A x, y \in S : <<x, y>> \in R <=> x >= y
    OBVIOUS
  <2> HIDE DEF R
  <2>2. \E x \in S : \A y \in S : <<x, y>> \in R
    <3>1. ASSUME NEW x \in S, NEW y \in S PROVE <<x, y>> \in R \/ <<y, x>> \in R
      <4>1. x \in Int /\ y \in Int
        OBVIOUS
      <4> QED
        BY <2>1, <4>1
    <3>2. ASSUME NEW x \in S, NEW y \in S, NEW z \in S, <<x, y>> \in R, <<y, z>> \in R
          PROVE  <<x, z>> \in R
      <4>1. x \in Int /\ y \in Int /\ z \in Int
        OBVIOUS
      <4> QED
        BY <2>1, <3>2, <4>1
    <3> QED
      BY <3>1, <3>2, HasLeast
  <2> QED
    BY <2>1, <2>2
<1>3. Min(S) \in S /\ \A y \in S : Min(S) <= y
  BY <1>1 DEF Min
<1>4. Max(S) \in S /\ \A y \in S : Max(S) >= y
  BY <1>2 DEF Max
<1> QED
  BY <1>3, <1>4

\* The values a function takes on a finite set are finitely many.
LEMMA FiniteImage ==
  ASSUME NEW S, IsFiniteSet(S), NEW f
  PROVE  IsFiniteSet({f[x] : x \in S})
<1>1. [x \in S |-> f[x]] \in Surjection(S, {f[x] : x \in S})
  BY DEF Surjection
<1> QED
  BY <1>1, FS_Surjection

\* The one rectangle of take_damage contains every point of every region.
LEMMA CoalescedCovers ==
  ASSUME regions \subseteq Rect, IsFiniteSet(regions), NEW r \in regions,
         NEW p \in Points, Contains(r, p)
  PROVE  \E c \in Coalesced : Contains(c, p)
<1> DEFINE lefts == {Left(q) : q \in regions}
           tops == {Top(q) : q \in regions}
           rights == {Right(q) : q \in regions}
           bottoms == {Bottom(q) : q \in regions}
<1>1. \A q \in regions : q \in [x : Int, y : Int, width : Nat \ {0}, height : Nat \ {0}]
  BY DamageAssumption
<1>2. /\ lefts \in SUBSET Int /\ tops \in SUBSET Int
      /\ rights \in SUBSET Int /\ bottoms \in SUBSET Int
  BY <1>1 DEF Left, Top, Right, Bottom
<1>3. /\ IsFiniteSet(lefts) /\ IsFiniteSet(tops)
      /\ IsFiniteSet(rights) /\ IsFiniteSet(bottoms)
  <2>1. lefts = {[d \in regions |-> Left(d)][q] : q \in regions}
    OBVIOUS
  <2>2. tops = {[d \in regions |-> Top(d)][q] : q \in regions}
    OBVIOUS
  <2>3. rights = {[d \in regions |-> Right(d)][q] : q \in regions}
    OBVIOUS
  <2>4. bottoms = {[d \in regions |-> Bottom(d)][q] : q \in regions}
    OBVIOUS
  <2>5. IsFiniteSet({[d \in regions |-> Left(d)][q] : q \in regions})
    BY FiniteImage
  <2>6. IsFiniteSet({[d \in regions |-> Top(d)][q] : q \in regions})
    BY FiniteImage
  <2>7. IsFiniteSet({[d \in regions |-> Right(d)][q] : q \in regions})
    BY FiniteImage
  <2>8. IsFiniteSet({[d \in regions |-> Bottom(d)][q] : q \in regions})
    BY FiniteImage
  <2> QED
    BY <2>1, <2>2, <2>3, <2>4, <2>5, <2>6, <2>7, <2>8
<1>4. Left(r) \in lefts /\ Top(r) \in tops /\ Right(r) \in rights /\ Bottom(r) \in bottoms
  OBVIOUS
<1> DEFINE x0 == Min(lefts)
           y0 == Min(tops)
           x1 == Max(rights)
           y1 == Max(bottoms)
           c == [x |-> x0, y |-> y0, width |-> x1 - x0, height |-> y1 - y0]
<1>5. x0 \in Int /\ x0 <= Left(r)
  BY <1>2, <1>3, <1>4, MinMax
<1>6. y0 \in Int /\ y0 <= Top(r)
  BY <1>2, <1>3, <1>4, MinMax
<1>7. x1 \in Int /\ Right(r) <= x1
  BY <1>2, <1>3, <1>4, MinMax
<1>8. y1 \in Int /\ Bottom(r) <= y1
  BY <1>2, <1>3, <1>4, MinMax
<1>9. c \in Coalesced
  BY DEF Coalesced
<1>10. Contains(c, p)
  <2> HIDE DEF lefts, tops, rights, bottoms
  <2>1. p.x \in Int /\ p.y \in Int
    BY DamageAssumption
  <2> QED
    BY <1>1, <1>5, <1>6, <1>7, <1>8, <2>1 DEF Contains, Left, Top, Right, Bottom
<1> QED
  BY <1>9, <1>10
-----------------------------------------------------------------------------
\* A point shows the same in two scenes that agree on the windows it shows.
LEMMA SamePicture ==
  ASSUME NEW s \in SceneState, NEW t \in SceneState, NEW p,
         \A w \in Shown(s, p) \cup Shown(t, p) :
           w \in Placed(s) /\ w \in Placed(t) /\ s.rects[w] = t.rects[w],
         \A v, w \in Shown(s, p) : Above(s, v, w) <=> Above(t, v, w)
  PROVE  Picture(s, p) = Picture(t, p)
<1>1. Shown(s, p) = Shown(t, p)
  BY DEF Shown
<1>2. {<<w, s.rects[w]>> : w \in Shown(s, p)} = {<<w, t.rects[w]>> : w \in Shown(t, p)}
  BY <1>1
<1>3. {pair \in Shown(s, p) \X Shown(s, p) : Above(s, pair[1], pair[2])}
      = {pair \in Shown(t, p) \X Shown(t, p) : Above(t, pair[1], pair[2])}
  BY <1>1
<1> QED
  BY <1>2, <1>3 DEF Picture
-----------------------------------------------------------------------------
(* Each operation leaves alone what a point outside its damage shows.      *)

\* Scene::set_window changes nothing outside the old and the new bounds.
LEMMA SetWindowIsLocal ==
  ASSUME NEW s \in SceneState, PaintOrder(s), NEW w \in Window, NEW r \in Rect, NEW p,
         \A d \in ({s.rects[w]} \ {NoRect}) \cup {r} : ~Contains(d, p)
  PROVE  Picture(SetWindow(s, w, r), p) = Picture(s, p)
<1> DEFINE t == SetWindow(s, w, r)
<1>1. t \in SceneState /\ Placed(t) = Placed(s) \cup {w}
  BY SetWindowPreserves
<1>2. t.rects = [s.rects EXCEPT ![w] = r]
  BY DEF SetWindow
<1>3. w \notin Shown(s, p)
  BY DEF Shown, Placed
<1>4. w \notin Shown(t, p)
  BY <1>2 DEF Shown, SceneState
<1>5. \A v \in Shown(s, p) \cup Shown(t, p) :
        v \in Placed(s) /\ v \in Placed(t) /\ s.rects[v] = t.rects[v]
  BY <1>1, <1>2, <1>3, <1>4 DEF Shown, Placed, SceneState
<1>6. ASSUME NEW u \in Shown(s, p), NEW v \in Shown(s, p)
      PROVE  Above(s, u, v) <=> Above(t, u, v)
  <2>1. u \in Window \ {w} /\ v \in Window \ {w}
    BY <1>3, <1>6 DEF Shown, Placed
  <2>2. CASE w \in Placed(s)
    <3>1. t.order = s.order
      BY <2>2 DEF SetWindow
    <3> QED
      BY <3>1 DEF Above
  <2>3. CASE w \notin Placed(s)
    <3>1. s.order \in Seq(Window) /\ t.order = Append(s.order, w)
      BY <2>3 DEF SetWindow, SceneState
    <3> HIDE DEF t
    <3> QED
      BY <2>1, <3>1, AppendKeepsOrder
  <2> QED
    BY <2>2, <2>3
<1> HIDE DEF t
<1>7. Picture(s, p) = Picture(t, p)
  BY <1>1, <1>5, <1>6, SamePicture
<1> QED
  BY <1>7 DEF t

\* Scene::remove_window changes nothing outside the bounds it removes.
LEMMA RemoveWindowIsLocal ==
  ASSUME NEW s \in SceneState, PaintOrder(s), NEW w \in Placed(s), NEW p,
         ~Contains(s.rects[w], p)
  PROVE  Picture(RemoveWindow(s, w), p) = Picture(s, p)
<1> DEFINE t == RemoveWindow(s, w)
<1>1. w \in Window /\ Listed(s.order, w)
  BY DEF PaintOrder, OrderIsComplete, Placed
<1>2. t \in SceneState /\ t.rects = [s.rects EXCEPT ![w] = NoRect]
  BY <1>1, RemoveWindowPreserves
<1>3. t.order = Without(s.order, w)
  BY <1>1 DEF RemoveWindow
<1> HIDE DEF t
<1>4. w \notin Shown(s, p)
  BY DEF Shown
<1>5. w \notin Shown(t, p)
  BY <1>1, <1>2 DEF Shown, Placed, SceneState
<1>6. \A v \in Shown(s, p) \cup Shown(t, p) :
        v \in Placed(s) /\ v \in Placed(t) /\ s.rects[v] = t.rects[v]
  BY <1>1, <1>2, <1>4, <1>5 DEF Shown, Placed, SceneState
<1>7. ASSUME NEW u \in Shown(s, p), NEW v \in Shown(s, p)
      PROVE  Above(s, u, v) <=> Above(t, u, v)
  <2>1. u \in Window \ {w} /\ v \in Window \ {w}
    BY <1>4, <1>7 DEF Shown, Placed
  <2> QED
    BY <1>1, <1>3, <2>1, WithoutKeepsOrder
<1>8. Picture(s, p) = Picture(t, p)
  BY <1>2, <1>6, <1>7, SamePicture
<1> QED
  BY <1>8 DEF t

\* Scene::raise_window changes nothing outside the raised window's bounds:
\* the windows below and above it keep their order among themselves.
LEMMA RaiseWindowIsLocal ==
  ASSUME NEW s \in SceneState, PaintOrder(s), NEW w \in Window, NEW p,
         CanRaise(s, w), ~AtFront(s, w), ~Contains(s.rects[w], p)
  PROVE  Picture(RaiseWindow(s, w), p) = Picture(s, p)
<1> DEFINE t == RaiseWindow(s, w)
           mid == [s EXCEPT !.order = Without(s.order, w)]
<1>1. t \in SceneState /\ t.rects = s.rects /\ Placed(t) = Placed(s)
  BY RaiseWindowPreserves DEF Placed
<1>2. /\ mid.order = Without(s.order, w)
      /\ t.order = Append(mid.order, w)
  BY DEF RaiseWindow, SceneState
<1>3. Listed(s.order, w) /\ mid.order \in Seq(Window)
  BY <1>2, WithoutDropsOne DEF CanRaise, SceneState, PaintOrder, OrderHasNoRepeats
<1> HIDE DEF t, mid
<1>4. w \notin Shown(s, p)
  BY DEF Shown
<1>5. \A v \in Shown(s, p) \cup Shown(t, p) :
        v \in Placed(s) /\ v \in Placed(t) /\ s.rects[v] = t.rects[v]
  BY <1>1 DEF Shown
<1>6. ASSUME NEW u \in Shown(s, p), NEW v \in Shown(s, p)
      PROVE  Above(s, u, v) <=> Above(t, u, v)
  <2>1. u \in Window \ {w} /\ v \in Window \ {w}
    BY <1>4, <1>6 DEF Shown, Placed
  <2>2. Above(s, u, v) <=> Above(mid, u, v)
    BY <1>2, <1>3, <2>1, WithoutKeepsOrder
  <2>3. Above(mid, u, v) <=> Above(t, u, v)
    BY <1>2, <1>3, <2>1, AppendKeepsOrder
  <2> QED
    BY <2>2, <2>3
<1>7. Picture(s, p) = Picture(t, p)
  BY <1>1, <1>5, <1>6, SamePicture
<1> QED
  BY <1>7 DEF t

\* Where no placed window shows, no change of order and no clear is seen.
LEMMA EmptyPlaceStaysEmpty ==
  ASSUME NEW s \in SceneState, NEW t \in SceneState, NEW p,
         t.rects = s.rects \/ t = EmptyScene,
         \A w \in Placed(s) : ~Contains(s.rects[w], p)
  PROVE  Picture(t, p) = Picture(s, p)
<1>1. Shown(s, p) = {}
  BY DEF Shown
<1>2. Shown(t, p) = {}
  BY DEF Shown, Placed, EmptyScene
<1> QED
  BY <1>1, <1>2, SamePicture
-----------------------------------------------------------------------------
\* What take_damage() has to know before it coalesces: every point that shows
\* something new lies in one of finitely many damaged regions.
Covered ==
  /\ IsFiniteSet(regions)
  /\ \A p \in Points :
       Picture(scene, p) # Picture(painted, p) => \E r \in regions : Contains(r, p)

\* A change that is local to its damage keeps the accumulated damage sufficient.
LEMMA ChangeKeepsCovered ==
  ASSUME Covered, NEW s, NEW damage, IsFiniteSet(damage), Changed(s, damage),
         \A p \in Points :
           (\A d \in damage : ~Contains(d, p)) => Picture(s, p) = Picture(scene, p)
  PROVE  Covered'
<1>1. /\ scene' = s /\ painted' = painted /\ regions' = regions \cup damage
  BY DEF Changed
<1>2. IsFiniteSet(regions')
  BY <1>1, FS_Union DEF Covered
<1>3. ASSUME NEW p \in Points, Picture(scene', p) # Picture(painted', p)
      PROVE  \E r \in regions' : Contains(r, p)
  <2>1. CASE \E d \in damage : Contains(d, p)
    BY <1>1, <2>1
  <2>2. CASE \A d \in damage : ~Contains(d, p)
    <3>1. Picture(scene, p) # Picture(painted, p)
      BY <1>1, <1>3, <2>2
    <3> QED
      BY <1>1, <3>1 DEF Covered
  <2> QED
    BY <2>1, <2>2
<1>4. Covered' <=> /\ IsFiniteSet(regions')
                  /\ \A p \in Points : Picture(scene', p) # Picture(painted', p)
                       => \E r \in regions' : Contains(r, p)
  BY DEF Covered, Picture, Shown, Placed, Above, Contains
<1> QED
  BY <1>2, <1>3, <1>4

\* Every step keeps the accumulated damage sufficient.
LEMMA StepKeepsCovered == IInv /\ Covered /\ [Next]_vars => Covered'
<1> SUFFICES ASSUME IInv, Covered, [Next]_vars PROVE Covered'
  OBVIOUS
<1> DEFINE all == {scene.rects[w] : w \in Placed(scene)}
<1>1. scene \in SceneState /\ PaintOrder(scene)
  BY DEF IInv, TypeOK, SceneIsOrdered
<1>2. IsFiniteSet(all)
  <2>1. IsFiniteSet(Placed(scene))
    BY DamageAssumption, FS_Subset DEF Placed
  <2> QED
    BY <2>1, FiniteImage
<1>3. CASE UNCHANGED vars
  BY <1>3 DEF vars, Covered, Picture, Shown, Placed, Above
<1>4. ASSUME NEW w \in Window, NEW r \in Rect, DoSetWindow(w, r) PROVE Covered'
  <2> DEFINE damage == ({scene.rects[w]} \ {NoRect}) \cup {r}
  <2>1. IsFiniteSet(damage)
    <3>1. IsFiniteSet({scene.rects[w]} \cup {r})
      BY FS_Singleton, FS_Union
    <3>2. damage \in SUBSET ({scene.rects[w]} \cup {r})
      OBVIOUS
    <3> QED
      BY <3>1, <3>2, FS_Subset
  <2>2. \A p \in Points : (\A d \in damage : ~Contains(d, p))
          => Picture(SetWindow(scene, w, r), p) = Picture(scene, p)
    BY <1>1, SetWindowIsLocal
  <2>3. Changed(SetWindow(scene, w, r), damage)
    BY <1>4 DEF DoSetWindow
  <2> QED
    BY <2>1, <2>2, <2>3, ChangeKeepsCovered
<1>5. ASSUME NEW w \in Window, DoRemoveWindow(w) PROVE Covered'
  <2>1. IsFiniteSet({scene.rects[w]})
    BY FS_Singleton
  <2>2. \A p \in Points : (\A d \in {scene.rects[w]} : ~Contains(d, p))
          => Picture(RemoveWindow(scene, w), p) = Picture(scene, p)
    BY <1>1, <1>5, RemoveWindowIsLocal DEF DoRemoveWindow
  <2> QED
    BY <1>5, <2>1, <2>2, ChangeKeepsCovered DEF DoRemoveWindow
<1>6. ASSUME NEW w \in Window, DoRaiseWindow(w) PROVE Covered'
  <2>1. IsFiniteSet({scene.rects[w]})
    BY FS_Singleton
  <2>2. \A p \in Points : (\A d \in {scene.rects[w]} : ~Contains(d, p))
          => Picture(RaiseWindow(scene, w), p) = Picture(scene, p)
    BY <1>1, <1>6, RaiseWindowIsLocal DEF DoRaiseWindow
  <2> QED
    BY <1>6, <2>1, <2>2, ChangeKeepsCovered DEF DoRaiseWindow
<1>7. ASSUME NEW order \in Orders, DoSetOrder(order) PROVE Covered'
  <2>1. /\ SetOrder(scene, order) \in SceneState
        /\ SetOrder(scene, order).rects = scene.rects
    BY <1>1, DamageAssumption, SetOrderPreserves DEF Orders
  <2>2. \A p \in Points : (\A d \in all : ~Contains(d, p))
          => Picture(SetOrder(scene, order), p) = Picture(scene, p)
    BY <1>1, <2>1, EmptyPlaceStaysEmpty
  <2> QED
    BY <1>2, <1>7, <2>2, ChangeKeepsCovered DEF DoSetOrder
<1>8. CASE DoClear
  <2>1. \A p \in Points : (\A d \in all : ~Contains(d, p))
          => Picture(EmptyScene, p) = Picture(scene, p)
    BY <1>1, EmptySceneIsOrdered, EmptyPlaceStaysEmpty
  <2> QED
    BY <1>2, <1>8, <2>1, ChangeKeepsCovered DEF DoClear
<1>9. CASE TakeDamage
  <2>1. IsFiniteSet(regions') /\ painted' = scene'
    BY <1>9, FS_EmptySet DEF TakeDamage
  <2> QED
    BY <2>1 DEF Covered, Picture, Shown, Placed, Above
<1> QED
  BY <1>3, <1>4, <1>5, <1>6, <1>7, <1>8, <1>9 DEF Next

\* take_damage() is sufficient: for every set of windows, rectangles and
\* sampled points, and however the updates interleave with repaints, the one
\* rectangle it returns contains every point whose picture has changed.
THEOREM DamageSuffices == Spec => []DamageCoversChanges
<1>1. Init => IInv /\ Covered
  <2>1. Init => IInv
    BY EmptySceneIsOrdered, DamageAssumption DEF Init, IInv, TypeOK, SceneIsOrdered
  <2>2. Init => Covered
    BY FS_EmptySet DEF Init, Covered
  <2> QED
    BY <2>1, <2>2
<1>2. (IInv /\ Covered) /\ [Next]_vars => (IInv /\ Covered)'
  BY StepPreserves, StepKeepsCovered
<1>3. IInv /\ Covered => DamageCoversChanges
  <2> SUFFICES ASSUME IInv, Covered, NEW p \in Points, Picture(scene, p) # Picture(painted, p)
               PROVE  \E c \in Coalesced : Contains(c, p)
    BY DEF DamageCoversChanges
  <2>1. regions \subseteq Rect /\ IsFiniteSet(regions)
    BY DEF IInv, TypeOK, Covered
  <2>2. PICK r \in regions : Contains(r, p)
    BY DEF Covered
  <2> QED
    BY <2>1, <2>2, CoalescedCovers
<1> QED
  BY <1>1, <1>2, <1>3, PTL DEF Spec

\* The scene, its counter and its regions keep their types.
THEOREM TypeCorrect == Spec => []TypeOK
<1>1. IInv => TypeOK
  BY DEF IInv
<1> QED
  BY <1>1, Invariance, PTL
=============================================================================
