------------------------ MODULE NestedSessionTheorems ------------------------
(***************************************************************************)
(* What NestedSession says of the nested server and its coordinator holds  *)
(* for any number of clients, windows and queued events, provided that no  *)
(* two surfaces share a protocol id.  The invariant has four parts: the    *)
(* server's own tables and ledger (ServerInv), the coordinator's, taken    *)
(* from CoreStateTheorems (CoreInv), what the queued events will make of   *)
(* it (EventsInv), and what each part of an iteration may rely on          *)
(* (PhaseInv).  From it follow the properties, and two refinements: of the *)
(* handshake the clients are promised, and of the coordinator alone.       *)
(***************************************************************************)
EXTENDS NestedSession, FiniteSetTheorems, NaturalsInduction, WellFoundedInduction, TLAPS

CoreT == INSTANCE CoreStateTheorems WITH
  Workspace <- {TheWorkspace}, FirstWorkspace <- TheWorkspace,
  Layout <- {TheLayout}, DefaultLayout <- TheLayout, SavedGeometry <- {}

\* The coordinator is instantiated twice, bare and with its theorems; what the
\* two copies define is the same.  Sizes:
LEMMA SameCardinality ==
  ASSUME NEW S
  PROVE  Core!Cardinality(S) = Cardinality(S) /\ CoreT!Cardinality(S) = Cardinality(S)
BY DEF Cardinality, Core!Cardinality, CoreT!Cardinality

\* ... the orders of a set of windows:
LEMMA SameOrders ==
  ASSUME NEW S
  PROVE  Core!OrdersOf(S) = CoreT!OrdersOf(S)
BY SameCardinality DEF Core!OrdersOf, CoreT!OrdersOf

\* ... the order by identifier:
LEMMA SameIdOrder ==
  ASSUME NEW S
  PROVE  Core!IdOrderOf(S) = CoreT!IdOrderOf(S)
BY SameOrders DEF Core!IdOrderOf, CoreT!IdOrderOf, Core!InIdOrder, CoreT!InIdOrder

\* ... what is done to a scene (crates/wm-scene):
LEMMA SameScene ==
  ASSUME NEW s, NEW w, NEW rects, NEW order
  PROVE  /\ Core!Placed(s) = CoreT!Placed(s)
         /\ Core!Overlay(s, rects) = CoreT!Overlay(s, rects)
         /\ Core!SetOrder(s, order) = CoreT!SetOrder(s, order)
         /\ Core!RemoveWindow(s, w) = CoreT!RemoveWindow(s, w)
         /\ Core!RaiseWindow(s, w) = CoreT!RaiseWindow(s, w)
<1>1. Core!Placed(s) = CoreT!Placed(s)
  BY DEF Core!Placed, CoreT!Placed
<1>2. Core!Overlay(s, rects) = CoreT!Overlay(s, rects)
  BY <1>1, SameIdOrder DEF Core!Overlay, CoreT!Overlay
<1>3. Core!SetOrder(s, order) = CoreT!SetOrder(s, order)
  BY <1>1 DEF Core!SetOrder, CoreT!SetOrder, Core!AcceptsOrder, CoreT!AcceptsOrder
<1>4. Core!Listed(s.order, w) = CoreT!Listed(s.order, w)
  BY DEF Core!Listed, CoreT!Listed
<1>5. Core!Position(s.order, w) = CoreT!Position(s.order, w)
  BY DEF Core!Position, CoreT!Position
<1>6. Core!Without(s.order, w) = CoreT!Without(s.order, w)
  BY <1>5 DEF Core!Without, CoreT!Without
<1>7. Core!RemoveWindow(s, w) = CoreT!RemoveWindow(s, w)
  BY <1>1, <1>4, <1>6 DEF Core!RemoveWindow, CoreT!RemoveWindow
<1>8. Core!RaiseWindow(s, w) = CoreT!RaiseWindow(s, w)
  BY <1>1, <1>4, <1>5, <1>6 DEF Core!RaiseWindow, CoreT!RaiseWindow, Core!CanRaise, CoreT!CanRaise,
                                  Core!AtFront, CoreT!AtFront
<1> QED
  BY <1>1, <1>2, <1>3, <1>7, <1>8

\* ... and the coordinator's operations (crates/wm-core), of which one copy is
\* what NestedSession takes and the other what CoreStateTheorems proves about.
LEMMA SameSteps ==
  ASSUME NEW w
  PROVE  /\ Core!Init <=> CoreT!Init
         /\ Core!WindowMapped(w) <=> CoreT!WindowMapped(w)
         /\ Core!WindowFocused(w) <=> CoreT!WindowFocused(w)
         /\ Core!WindowUnmapped(w) <=> CoreT!WindowUnmapped(w)
         /\ Core!RunProvider(TheLayout) <=> CoreT!RunProvider(TheLayout)
         /\ Core!RunRecovery(TheLayout) <=> CoreT!RunRecovery(TheLayout)
<1>1. Core!Init <=> CoreT!Init
  BY DEF Core!Init, CoreT!Init, Core!EmptyScene, CoreT!EmptyScene, Core!NoGeometry, CoreT!NoGeometry
<1>2. Core!WindowMapped(w) <=> CoreT!WindowMapped(w)
  BY DEF Core!WindowMapped, CoreT!WindowMapped
<1>3. Core!WindowFocused(w) <=> CoreT!WindowFocused(w)
  BY SameScene DEF Core!WindowFocused, CoreT!WindowFocused
<1>4. Core!WindowUnmapped(w) <=> CoreT!WindowUnmapped(w)
  BY SameScene DEF Core!WindowUnmapped, CoreT!WindowUnmapped
<1>5. ASSUME NEW rects, NEW order 
      PROVE  Core!CommitLayout(TheLayout, rects, order)
               <=> CoreT!CommitLayout(TheLayout, rects, order)
  BY SameScene DEF Core!CommitLayout, CoreT!CommitLayout
<1>6. Core!RunProvider(TheLayout) <=> CoreT!RunProvider(TheLayout)
  BY <1>5, SameOrders DEF Core!RunProvider, CoreT!RunProvider
<1>7. Core!RunRecovery(TheLayout) <=> CoreT!RunRecovery(TheLayout)
  BY <1>5, SameIdOrder DEF Core!RunRecovery, CoreT!RunRecovery
<1> QED
  BY <1>1, <1>2, <1>3, <1>4, <1>6, <1>7

\* The coordinator's assumptions hold of the instance the server drives.
LEMMA CoreConstants == CoreT!CoreAssumption /\ CoreT!IdOrderAssumption /\ CoreT!NoRectAssumption
<1>1. CoreT!CoreAssumption
  BY NestedAssumption DEF CoreT!CoreAssumption, IsFiniteSet, CoreT!IsFiniteSet
<1>2. CoreT!IdOrderAssumption
  BY IdOrderAssumption, SameOrders DEF CoreT!IdOrderAssumption, CoreT!InIdOrder, Core!InIdOrder
<1>3. CoreT!NoRectAssumption
  BY NestedAssumption DEF CoreT!NoRectAssumption
<1> QED
  BY <1>1, <1>2, <1>3

\* A set of naturals has a least one.
LEMMA LeastNatural ==
  ASSUME NEW S \in SUBSET Nat, S # {}
  PROVE  \E n \in S : \A m \in S : n <= m
<1> DEFINE R == OpToRel(<, Nat)
<1>1. \A n, m \in Nat : <<m, n>> \in R <=> m < n
  BY DEF OpToRel
<1>2. IsWellFoundedOn(R, Nat)
  BY NatLessThanWellFounded
<1> HIDE DEF R
<1>3. PICK n \in S : \A m \in S : ~(<<m, n>> \in R)
  BY <1>2, WFMin
<1>4. ASSUME NEW m \in S PROVE n <= m
  <2>1. m \in Nat /\ n \in Nat
    OBVIOUS
  <2>2. ~(<<m, n>> \in R)
    BY <1>3
  <2>3. ~(m < n)
    BY <1>1, <2>1, <2>2
  <2> QED
    BY <2>1, <2>3
<1> QED
  BY <1>4
-----------------------------------------------------------------------------
(* The invariant.                                                          *)

\* wl_surface ids are unique to a client; here they are unique altogether.
DistinctIds == \A s, t \in Surface : SurfaceKey(s) = SurfaceKey(t) => s = t

\* Toplevels and windows correspond, and the lifecycle knows exactly the
\* windows that have one.
ToplevelsInv ==
  /\ \A i, j \in DOMAIN toplevels : toplevels[i] = toplevels[j] => i = j
  /\ \A s \in Surface : Contains(toplevels, s) <=> WindowFor(s) # NoWindow
  /\ \A s \in Surface : WindowFor(s) # NoWindow => WindowFor(s) < next_window
  /\ \A s, t \in Surface : WindowFor(s) = WindowFor(t) /\ WindowFor(s) # NoWindow => s = t
  /\ \A w \in Window : states[w] # "None" <=> \E s \in Surface : WindowFor(s) = w

\* A client's queue: empty once it has answered, ending in the request that
\* stands while it has not, and never longer than MaxBehind.
QueueInv(s, w) ==
  /\ pending[w] # NoRequest => inbox[s] # <<>> /\ Last(inbox[s]).serial = pending[w].serial
  /\ states[w] \in {"ReadyToCommit", "Mapped"} => inbox[s] = <<>>
  /\ pending[w] # NoRequest /\ pending[w].age = 1 => Len(inbox[s]) < MaxBehind

HandshakeInv ==
  /\ \A w \in Window : pending[w] # NoRequest => states[w] = "AwaitingConfigure"
  /\ \A s \in Surface : Len(inbox[s]) <= MaxBehind
  /\ \A s \in Surface : \A i, j \in DOMAIN inbox[s] :
       inbox[s][i].serial = inbox[s][j].serial => i = j
  /\ \A s \in Surface : WindowFor(s) = NoWindow => inbox[s] = <<>>
  /\ \A s \in Surface, w \in Window : WindowFor(s) = w => QueueInv(s, w)

\* What is still to be sent: one configure per window, a retry only where the
\* request has expired.
SendInv ==
  /\ \A a, b \in outgoing : a.window = b.window => a = b
  /\ phase \notin {"retry", "resize"} => outgoing = {}
  /\ phase = "retry" =>
       \A a \in outgoing : /\ states[a.window] = "New"
                          /\ \A s \in Surface :
                               WindowFor(s) = a.window => Len(inbox[s]) < MaxBehind

\* The coordinator is correct, and between its layout runs every window is placed.
CoreInv ==
  /\ CoreT!IInv
  /\ phase # "relayout" => Core!Placed(scene[active]) = windows

\* Where events may be queued, and what is painted once they are not.
PhaseInv ==
  /\ phase \in {"services", "sync", "resize", "frame"} => events = <<>>
  /\ phase = "input" => \A i \in DOMAIN events : events[i].kind \in {"Focused", "OutputAdded"}
  /\ phase \in {"resize", "frame", "input"} =>
       window_order = scene[active].order /\ focused_window = focused[active]

ServerInv == ServerTypeOK /\ ToplevelsInv /\ HandshakeInv /\ SendInv

-----------------------------------------------------------------------------
\* A window with a toplevel has one, which ToplevelOf finds.
LEMMA ToplevelOfFinds ==
  ASSUME ServerTypeOK, ToplevelsInv, NEW s \in Surface, NEW w \in Window, WindowFor(s) = w
  PROVE  HasToplevel(w) /\ ToplevelOf(w) = s
<1>1. toplevels \in Seq(Surface) /\ w # NoWindow
  BY NestedAssumption DEF ServerTypeOK
<1>2. PICK i \in DOMAIN toplevels : toplevels[i] = s
  BY <1>1 DEF ToplevelsInv, Contains
<1>3. \A j \in DOMAIN toplevels : WindowFor(toplevels[j]) = w => j = i
  <2> SUFFICES ASSUME NEW j \in DOMAIN toplevels, WindowFor(toplevels[j]) = w PROVE j = i
    OBVIOUS
  <2>1. toplevels[j] \in Surface
    BY <1>1
  <2>2. toplevels[j] = s
    BY <1>1, <2>1 DEF ToplevelsInv
  <2> QED
    BY <1>2, <2>2 DEF ToplevelsInv
<1>4. i \in Nat /\ \A j \in 1 .. i - 1 : j \in DOMAIN toplevels /\ j # i
  BY <1>1
<1>5. /\ WindowFor(toplevels[i]) = w
      /\ \A j \in 1 .. i - 1 : WindowFor(toplevels[j]) # w
  BY <1>2, <1>3, <1>4
<1> QED
  BY <1>2, <1>3, <1>5 DEF HasToplevel, ToplevelOf

\* ... and the other way round.
LEMMA ToplevelOfIsLive ==
  ASSUME ServerTypeOK, ToplevelsInv, NEW w \in Window, HasToplevel(w)
  PROVE  /\ ToplevelOf(w) \in Surface
         /\ WindowFor(ToplevelOf(w)) = w
         /\ Contains(toplevels, ToplevelOf(w))
<1>1. toplevels \in Seq(Surface) /\ w # NoWindow
  BY NestedAssumption DEF ServerTypeOK
<1>2. PICK i \in DOMAIN toplevels : WindowFor(toplevels[i]) = w
  BY DEF HasToplevel
<1>3. toplevels[i] \in Surface
  BY <1>1
<1>4. ToplevelOf(w) = toplevels[i]
  BY <1>2, <1>3, ToplevelOfFinds
<1> QED
  BY <1>1, <1>2, <1>3, <1>4 DEF Contains

\* There is always a serial that is not in flight: no client is ever more than
\* MaxBehind configures behind, and what the ledger waits for is in a queue.
LEMMA FreshSerialIsFree ==
  ASSUME ServerTypeOK, ToplevelsInv, HandshakeInv, NEW s0 \in Surface
  PROVE  FreshSerial \in 1 .. MaxSerial /\ FreshSerial \notin InFlight /\ MaxSerial \in Nat
<1> DEFINE places == Surface \X (1 .. MaxBehind)
           at == [p \in places |-> IF p[2] \in DOMAIN inbox[p[1]]
                                    THEN inbox[p[1]][p[2]].serial ELSE 0]
           found == {at[p] : p \in places}
           k == Cardinality(Surface)
<1>1. k \in Nat /\ k # 0 /\ MaxBehind \in Nat
  BY NestedAssumption, FS_CardinalityType, FS_EmptySet
<1>2. IsFiniteSet(places) /\ Cardinality(places) = k * MaxBehind
  <2>1. IsFiniteSet(1 .. MaxBehind) /\ Cardinality(1 .. MaxBehind) = MaxBehind
    BY <1>1, FS_Interval
  <2> QED
    BY <2>1, NestedAssumption, FS_Product
<1>3. IsFiniteSet(found) /\ Cardinality(found) <= k * MaxBehind
  <2>1. at \in Surjection(places, found)
    BY DEF Surjection
  <2> QED
    BY <1>2, <2>1, FS_Surjection
<1>4. MaxSerial = k * MaxBehind + k /\ MaxSerial \in Nat /\ k * MaxBehind \in Nat
  BY <1>1 DEF MaxSerial
<1>5. ASSUME NEW s \in Surface, NEW i \in DOMAIN inbox[s]
      PROVE  inbox[s][i].serial \in found
  <2>1. inbox[s] \in Seq(Delivery) /\ Len(inbox[s]) <= MaxBehind
    BY DEF ServerTypeOK, HandshakeInv
  <2>2. i \in 1 .. MaxBehind
    BY <1>1, <2>1
  <2>3. <<s, i>> \in places /\ at[<<s, i>>] = inbox[s][i].serial
    BY <2>2
  <2> QED
    BY <2>3
<1>6. ASSUME NEW w \in Window, pending[w] # NoRequest
      PROVE  pending[w].serial \in found
  <2>1. states[w] # "None"
    BY <1>6 DEF HandshakeInv
  <2>2. PICK s \in Surface : WindowFor(s) = w
    BY <2>1 DEF ToplevelsInv
  <2>3. inbox[s] # <<>> /\ Last(inbox[s]).serial = pending[w].serial
    BY <1>6, <2>2 DEF HandshakeInv, QueueInv
  <2>4. Len(inbox[s]) \in DOMAIN inbox[s]
    BY <2>3 DEF ServerTypeOK
  <2> QED
    BY <1>5, <2>3, <2>4 DEF Last
<1>7. InFlight \subseteq found
  <2> SUFFICES ASSUME NEW n \in InFlight PROVE n \in found
    OBVIOUS
  <2> HIDE DEF found
  <2>1. CASE \E s \in Surface : n \in {inbox[s][i].serial : i \in DOMAIN inbox[s]}
    <3>1. PICK s \in Surface : n \in {inbox[s][i].serial : i \in DOMAIN inbox[s]}
      BY <2>1
    <3>2. PICK i \in DOMAIN inbox[s] : n = inbox[s][i].serial
      BY <3>1
    <3> QED
      BY <1>5, <3>2
  <2>2. CASE n \in {pending[w].serial : w \in {v \in Window : pending[v] # NoRequest}}
    <3>1. PICK w \in Window : pending[w] # NoRequest /\ n = pending[w].serial
      BY <2>2
    <3> QED
      BY <1>6, <3>1
  <2>3. CASE n \in UNION {{inbox[s][i].serial : i \in DOMAIN inbox[s]} : s \in Surface}
    <3>1. PICK q \in {{inbox[s][i].serial : i \in DOMAIN inbox[s]} : s \in Surface} : n \in q
      BY <2>3
    <3>2. \E s \in Surface : q = {inbox[s][i].serial : i \in DOMAIN inbox[s]}
      BY <3>1
    <3> QED
      BY <2>1, <3>1, <3>2
  <2> QED
    BY <2>2, <2>3 DEF InFlight
<1> DEFINE free == {n \in 1 .. MaxSerial : n \notin InFlight}
<1>8. free # {}
  <2> SUFFICES ASSUME free = {} PROVE FALSE
    OBVIOUS
  <2> HIDE DEF found, k, at, places
  <2> DEFINE D == 1 .. MaxSerial
  <2>1. D \in SUBSET found
    BY <1>7
  <2>2. Cardinality(D) = MaxSerial
    <3>1. 1 \in Int /\ MaxSerial \in Int /\ MaxSerial # 0
      BY <1>1, <1>4
    <3>2. Cardinality(D) = IF 1 > MaxSerial THEN 0 ELSE MaxSerial - 1 + 1
      BY <3>1, FS_Interval
    <3> QED
      BY <1>4, <3>1, <3>2
  <2> HIDE DEF D
  <2>3. MaxSerial <= Cardinality(found)
    BY <1>3, <2>1, <2>2, FS_Subset
  <2>4. Cardinality(found) \in Nat
    BY <1>3, FS_CardinalityType
  <2> QED
    BY <1>1, <1>3, <1>4, <2>3, <2>4
<1>9. PICK n \in free : \A m \in free : n <= m
  <2>1. free \in SUBSET Nat
    OBVIOUS
  <2> HIDE DEF free
  <2> QED
    BY <1>8, <2>1, LeastNatural
<1>10. 1 .. n - 1 \subseteq InFlight
  <2> SUFFICES ASSUME NEW m \in 1 .. n - 1, m \notin InFlight PROVE FALSE
    OBVIOUS
  <2>1. n \in 1 .. MaxSerial
    OBVIOUS
  <2>2. m \in 1 .. MaxSerial /\ m < n
    BY <1>4, <2>1
  <2> QED
    BY <1>9, <2>1, <2>2
<1> QED
  BY <1>4, <1>9, <1>10 DEF FreshSerial
-----------------------------------------------------------------------------
(* The server.  A configure that is tracked and delivered together keeps   *)
(* ledger and queue in step.                                               *)
LEMMA TrackedDelivery ==
  ASSUME ServerInv, NEW s \in Surface, NEW w \in Window, NEW g \in Rect,
         WindowFor(s)' = w,
         \A t \in Surface \ {s} : WindowFor(t)' = WindowFor(t) /\ WindowFor(t) # w,
         Len(inbox[s]) < MaxBehind,
         Deliver(s, g), Xdg!Track(w, g, FreshSerial)
  PROVE  /\ Xdg!XdgTypeOK'
         /\ inbox' \in [Surface -> Seq(Delivery)]
         /\ HandshakeInv'
         /\ \A t \in Surface \ {s} : inbox'[t] = inbox[t]
         /\ states' = [states EXCEPT ![w] = "AwaitingConfigure"]
<1> DEFINE fresh == FreshSerial
           sent == [serial |-> fresh, size |-> g]
           request == [serial |-> fresh, geometry |-> g, age |-> 0]
<1>1. fresh \in 1 .. MaxSerial /\ fresh \notin InFlight /\ MaxSerial \in Nat
  BY FreshSerialIsFree DEF ServerInv
<1>0. \A i \in DOMAIN inbox[s] : inbox[s][i].serial # fresh
  BY <1>1 DEF InFlight
<1>2. /\ states \in [Window -> Xdg!State]
      /\ pending \in [Window -> Xdg!Request \cup {NoRequest}]
      /\ inbox \in [Surface -> Seq(Delivery)]
  BY DEF ServerInv, ServerTypeOK, Xdg!XdgTypeOK
<1>3. /\ states' = [states EXCEPT ![w] = "AwaitingConfigure"]
      /\ pending' = [pending EXCEPT ![w] = request]
      /\ inbox' = [inbox EXCEPT ![s] = Append(inbox[s], sent)]
  BY DEF Deliver, Xdg!Track
<1> HIDE DEF fresh
<1>4. sent \in Delivery /\ sent.serial = fresh /\ request \in Xdg!Request
  BY <1>1 DEF Xdg!Request, Xdg!Serial, Delivery
<1>5. request # NoRequest /\ request.serial = fresh /\ request.age = 0
  BY <1>4, NestedAssumption
<1> HIDE DEF sent, request
<1>6. Xdg!XdgTypeOK'
  <2>1. states' \in [Window -> Xdg!State]
    BY <1>2, <1>3 DEF Xdg!State
  <2>2. pending' \in [Window -> Xdg!Request \cup {NoRequest}]
    BY <1>2, <1>3, <1>4
  <2> QED
    BY <1>1, <2>1, <2>2 DEF Xdg!XdgTypeOK
<1>7. inbox' \in [Surface -> Seq(Delivery)]
  BY <1>2, <1>3, <1>4
<1>8. /\ inbox'[s] # <<>> /\ Last(inbox'[s]).serial = fresh
      /\ Len(inbox'[s]) = Len(inbox[s]) + 1
      /\ \A i, j \in DOMAIN inbox'[s] : inbox'[s][i].serial = inbox'[s][j].serial => i = j
      /\ \A t \in Surface \ {s} : inbox'[t] = inbox[t]
  <2>1. inbox'[s] = Append(inbox[s], sent) /\ \A t \in Surface \ {s} : inbox'[t] = inbox[t]
    BY <1>2, <1>3
  <2>2. inbox[s] \in Seq(Delivery)
    BY <1>2
  <2>3. \A q \in Seq(Delivery) :
          /\ Append(q, sent) # <<>> /\ Len(Append(q, sent)) = Len(q) + 1
          /\ Append(q, sent)[Len(q) + 1] = sent
    BY <1>4
  <2>4. \A i, j \in DOMAIN inbox'[s] : inbox'[s][i].serial = inbox'[s][j].serial => i = j
    <3> DEFINE q == inbox[s]
               n == Len(q)
    <3>1. q \in Seq(Delivery) /\ \A i \in DOMAIN q : q[i].serial # fresh
      BY <1>0, <2>2
    <3>2. /\ n \in Nat /\ DOMAIN q = 1 .. n /\ DOMAIN Append(q, sent) = 1 .. n + 1
          /\ \A i \in 1 .. n : Append(q, sent)[i] = q[i]
          /\ Append(q, sent)[n + 1] = sent
      BY <1>4, <3>1
    <3>3. \A i, j \in 1 .. n : q[i].serial = q[j].serial => i = j
      BY <3>2 DEF ServerInv, HandshakeInv
    <3> HIDE DEF q, n
    <3>4. \A i, j \in 1 .. n + 1 :
            Append(q, sent)[i].serial = Append(q, sent)[j].serial => i = j
      BY <1>4, <3>1, <3>2, <3>3
    <3> QED
      BY <2>1, <3>2, <3>4 DEF q
  <2> QED
    BY <1>4, <2>1, <2>2, <2>3, <2>4 DEF Last
<1>9. /\ pending'[w] = request /\ states'[w] = "AwaitingConfigure"
      /\ \A v \in Window \ {w} : pending'[v] = pending[v] /\ states'[v] = states[v]
  BY <1>2, <1>3
<1>10. HandshakeInv'
  <2>1. \A v \in Window : pending'[v] # NoRequest => states'[v] = "AwaitingConfigure"
    BY <1>9 DEF ServerInv, HandshakeInv
  <2>2. \A t \in Surface : Len(inbox'[t]) <= MaxBehind
    <3>1. Len(inbox[s]) \in Nat /\ MaxBehind \in Nat
      BY <1>2, NestedAssumption
    <3> QED
      BY <1>8, <3>1 DEF ServerInv, HandshakeInv
  <2>3. \A t \in Surface : WindowFor(t)' = NoWindow => inbox'[t] = <<>>
    BY <1>8, NestedAssumption DEF ServerInv, HandshakeInv
  <2>5. \A t \in Surface : \A i, j \in DOMAIN inbox'[t] :
          inbox'[t][i].serial = inbox'[t][j].serial => i = j
    BY <1>8 DEF ServerInv, HandshakeInv
  <2>4. ASSUME NEW t \in Surface, NEW v \in Window, WindowFor(t)' = v
        PROVE  QueueInv(t, v)'
    <3>1. CASE t = s
      <4>1. v = w
        BY <2>4, <3>1
      <4> QED
        BY <1>5, <1>8, <1>9, <3>1, <4>1 DEF QueueInv
    <3>2. CASE t # s
      <4>1. v # w /\ WindowFor(t) = v
        BY <2>4, <3>2
      <4>2. QueueInv(t, v)
        BY <4>1 DEF ServerInv, HandshakeInv
      <4>3. inbox'[t] = inbox[t] /\ pending'[v] = pending[v] /\ states'[v] = states[v]
        BY <1>8, <1>9, <3>2, <4>1
      <4> QED
        BY <4>2, <4>3 DEF QueueInv, Last
    <3> QED
      BY <3>1, <3>2
  <2> QED
    BY <2>1, <2>2, <2>3, <2>4, <2>5 DEF HandshakeInv
<1> QED
  BY <1>3, <1>6, <1>7, <1>8, <1>10

\* new_toplevel: a fresh window, not yet known to the lifecycle, on a surface
\* without one.
LEMMA NewToplevelServer ==
  ASSUME DistinctIds, ServerInv, NEW s \in Surface, NewToplevel(s)
  PROVE  /\ ServerInv'
         /\ WindowFor(s) = NoWindow /\ WindowFor(s)' = next_window
         /\ \A t \in Surface \ {s} : WindowFor(t)' = WindowFor(t)
         /\ next_window \in Window /\ states[next_window] = "None"
         /\ states' = [states EXCEPT ![next_window] = "AwaitingConfigure"]
<1> DEFINE w == next_window
<1>1. /\ phase = "clients" /\ phase' = phase
      /\ ~Contains(toplevels, s) /\ w \in Window
      /\ next_window' = w + 1
      /\ toplevels' = Append(toplevels, s)
      /\ window_of' = [window_of EXCEPT ![SurfaceKey(s)] = w]
      /\ window_geometry' = [window_geometry EXCEPT ![w] = InitialRect]
      /\ window_order' = Append(window_order, w)
      /\ Deliver(s, InitialRect)
      /\ unflushed' = unflushed \cup {s}
      /\ Xdg!Track(w, InitialRect, FreshSerial)
      /\ UNCHANGED <<focused_window, buffered, events, keyboard, outgoing>>
  BY DEF NewToplevel
<1>2. w \in Nat /\ w # NoWindow /\ toplevels \in Seq(Surface)
      /\ window_of \in [{SurfaceKey(t) : t \in Surface} -> Window \cup {NoWindow}]
  BY <1>1, NestedAssumption DEF ServerInv, ServerTypeOK
<1>3. WindowFor(s) = NoWindow /\ inbox[s] = <<>>
  BY <1>1 DEF ServerInv, ToplevelsInv, HandshakeInv
<1>4. WindowFor(s)' = w /\ \A t \in Surface \ {s} : WindowFor(t)' = WindowFor(t)
  BY <1>1, <1>2 DEF WindowFor, DistinctIds
<1>5. \A t \in Surface : WindowFor(t) # w
  BY <1>2 DEF ServerInv, ToplevelsInv
<1>6. states[w] = "None"
  BY <1>1, <1>5 DEF ServerInv, ToplevelsInv
<1>7. /\ Xdg!XdgTypeOK'
      /\ inbox' \in [Surface -> Seq(Delivery)]
      /\ HandshakeInv'
      /\ states' = [states EXCEPT ![w] = "AwaitingConfigure"]
  <2>1. Len(inbox[s]) < MaxBehind
    BY <1>3, NestedAssumption
  <2> QED
    BY <1>1, <1>4, <1>5, <2>1, NestedAssumption, TrackedDelivery
<1>8. ServerTypeOK'
  <2>1. window_of' \in [{SurfaceKey(t) : t \in Surface} -> Window \cup {NoWindow}]
    BY <1>1, <1>2
  <2>2. window_geometry' \in [Window -> Rect \cup {NoRect}] /\ window_order' \in Seq(Window)
    BY <1>1, NestedAssumption DEF ServerInv, ServerTypeOK
  <2>3. next_window' \in Nat /\ toplevels' \in Seq(Surface) /\ unflushed' \subseteq Surface
    BY <1>1, <1>2 DEF ServerInv, ServerTypeOK
  <2> QED
    BY <1>1, <1>7, <2>1, <2>2, <2>3 DEF ServerInv, ServerTypeOK
<1>9. ToplevelsInv'
  <2>1. \A i, j \in DOMAIN toplevels' : toplevels'[i] = toplevels'[j] => i = j
    <3>1. /\ Len(toplevels) \in Nat /\ DOMAIN toplevels = 1 .. Len(toplevels)
          /\ DOMAIN toplevels' = 1 .. Len(toplevels) + 1
          /\ \A i \in DOMAIN toplevels : toplevels'[i] = toplevels[i] /\ toplevels[i] # s
          /\ toplevels'[Len(toplevels) + 1] = s
      BY <1>1, <1>2 DEF Contains
    <3>2. \A i \in DOMAIN toplevels' : i \in DOMAIN toplevels \/ i = Len(toplevels) + 1
      BY <3>1
    <3> QED
      BY <3>1, <3>2 DEF ServerInv, ToplevelsInv
  <2>2. \A t \in Surface : Contains(toplevels', t) <=> Contains(toplevels, t) \/ t = s
    BY <1>1, <1>2 DEF Contains
  <2>3. \A t \in Surface : Contains(toplevels', t) <=> WindowFor(t)' # NoWindow
    BY <1>2, <1>4, <2>2 DEF ServerInv, ToplevelsInv
  <2>4. \A t \in Surface : WindowFor(t)' # NoWindow => WindowFor(t)' < next_window'
    <3>1. \A t \in Surface : WindowFor(t) # NoWindow => WindowFor(t) \in Nat
      BY <1>2, NestedAssumption DEF WindowFor
    <3> QED
      BY <1>1, <1>2, <1>4, <3>1 DEF ServerInv, ToplevelsInv
  <2>5. \A t, u \in Surface : WindowFor(t)' = WindowFor(u)' /\ WindowFor(t)' # NoWindow => t = u
    BY <1>4, <1>5 DEF ServerInv, ToplevelsInv
  <2>6. \A v \in Window : states'[v] # "None" <=> \E t \in Surface : WindowFor(t)' = v
    <3>1. states'[w] = "AwaitingConfigure" /\ \A v \in Window \ {w} : states'[v] = states[v]
      BY <1>1, <1>7 DEF ServerInv, ServerTypeOK, Xdg!XdgTypeOK
    <3> QED
      BY <1>3, <1>4, <1>5, <3>1, NestedAssumption DEF ServerInv, ToplevelsInv
  <2> QED
    BY <2>1, <2>3, <2>4, <2>5, <2>6 DEF ToplevelsInv
<1>10. SendInv'
  BY <1>1 DEF ServerInv, SendInv
<1> QED
  BY <1>1, <1>3, <1>4, <1>6, <1>7, <1>8, <1>9, <1>10 DEF ServerInv

\* Vec::retain takes one element out of a list without repeats.
LEMMA DroppedFacts ==
  ASSUME NEW T, NEW order \in Seq(T), NEW x
  PROVE  /\ Dropped(order, x) \in Seq(T)
         /\ (\A i, j \in DOMAIN order : order[i] = order[j] => i = j) =>
              /\ \A i, j \in DOMAIN Dropped(order, x) :
                   Dropped(order, x)[i] = Dropped(order, x)[j] => i = j
              /\ \A y : Contains(Dropped(order, x), y) <=> Contains(order, y) /\ y # x
<1> DEFINE n == Len(order)
           gap == Core!Position(order, x)
           old(i) == IF i < gap THEN i ELSE i + 1
           new(i) == IF i < gap THEN i ELSE i - 1
           rest == [i \in 1 .. n - 1 |-> order[old(i)]]
<1>1. n \in Nat /\ DOMAIN order = 1 .. n /\ \A i \in 1 .. n : order[i] \in T
  OBVIOUS
<1>2. CASE ~Core!Listed(order, x)
  <2>1. Dropped(order, x) = order
    BY <1>2 DEF Dropped
  <2>2. ~Contains(order, x)
    BY <1>1, <1>2 DEF Contains, Core!Listed
  <2> QED
    BY <2>1, <2>2
<1>3. CASE Core!Listed(order, x)
  <2>1. gap \in 1 .. n /\ order[gap] = x
    BY <1>1, <1>3 DEF Core!Listed, Core!Position
  <2>2. Dropped(order, x) = rest
    BY <1>3 DEF Dropped, Core!Without
  <2> HIDE DEF gap, n
  <2>3. \A i \in 1 .. n - 1 : old(i) \in 1 .. n /\ old(i) # gap
    BY <1>1, <2>1
  <2>4. /\ rest \in [1 .. n - 1 -> T] /\ n - 1 \in Nat
        /\ \A i \in 1 .. n - 1 : rest[i] = order[old(i)]
    BY <1>1, <2>1, <2>3
  <2>5. /\ rest \in Seq(T) /\ Len(rest) = n - 1 /\ DOMAIN rest = 1 .. n - 1
    BY <2>4
  <2> HIDE DEF rest
  <2>6. ASSUME \A i, j \in 1 .. n : order[i] = order[j] => i = j
        PROVE  /\ \A i, j \in 1 .. n - 1 : rest[i] = rest[j] => i = j
               /\ \A y : Contains(rest, y) <=> Contains(order, y) /\ y # x
    <3>1. ASSUME NEW i \in 1 .. n - 1, NEW j \in 1 .. n - 1, rest[i] = rest[j] PROVE i = j
      <4>1. old(i) = old(j)
        BY <2>3, <2>4, <2>6, <3>1
      <4> QED
        BY <1>1, <2>1, <4>1
    <3>2. ASSUME NEW y, Contains(rest, y) PROVE Contains(order, y) /\ y # x
      <4>1. PICK i \in 1 .. n - 1 : rest[i] = y
        BY <2>5, <3>2 DEF Contains
      <4>2. order[old(i)] = y /\ old(i) \in 1 .. n /\ old(i) # gap
        BY <2>3, <2>4, <4>1
      <4> QED
        BY <2>1, <2>6, <4>2 DEF Contains, n
    <3>3. ASSUME NEW y, Contains(order, y), y # x PROVE Contains(rest, y)
      <4>1. PICK i \in 1 .. n : order[i] = y
        BY <3>3 DEF Contains, n
      <4>2. new(i) \in 1 .. n - 1 /\ old(new(i)) = i
        BY <1>1, <2>1, <3>3, <4>1
      <4> QED
        BY <2>4, <2>5, <4>1, <4>2 DEF Contains
    <3> QED
      BY <3>1, <3>2, <3>3
  <2> QED
    BY <1>1, <2>2, <2>5, <2>6
<1> QED
  BY <1>2, <1>3

\* What the rest of the system sees of a step that neither maps nor creates nor
\* destroys a toplevel.
LifecycleKept ==
  /\ window_of' = window_of
  /\ \A w \in Window : /\ states'[w] = "None" <=> states[w] = "None"
                       /\ states'[w] = "Mapped" => states[w] = "Mapped"

\* Steps that leave server and clients alone keep their invariants.
LEMMA QuietServer ==
  ASSUME ServerInv, UNCHANGED <<xdgVars, window_of, toplevels, next_window, inbox>>
  PROVE  ToplevelsInv' /\ HandshakeInv' /\ Xdg!XdgTypeOK' /\ LifecycleKept
<1>1. /\ states' = states /\ pending' = pending /\ window_of' = window_of
      /\ toplevels' = toplevels /\ next_window' = next_window /\ inbox' = inbox
  BY DEF xdgVars
<1>2. ToplevelsInv'
  BY <1>1 DEF ServerInv, ToplevelsInv, WindowFor
<1>3. HandshakeInv'
  BY <1>1 DEF ServerInv, HandshakeInv, QueueInv, WindowFor
<1>4. Xdg!XdgTypeOK'
  BY <1>1 DEF ServerInv, ServerTypeOK, Xdg!XdgTypeOK
<1> QED
  BY <1>1, <1>2, <1>3, <1>4 DEF LifecycleKept

\* The window of a live toplevel.
LEMMA LiveWindow ==
  ASSUME ServerInv, NEW s \in Surface, Contains(toplevels, s)
  PROVE  /\ WindowFor(s) \in Window /\ WindowFor(s) # NoWindow
         /\ states[WindowFor(s)] # "None"
         /\ HasToplevel(WindowFor(s)) /\ ToplevelOf(WindowFor(s)) = s
         /\ \A t \in Surface \ {s} : WindowFor(t) # WindowFor(s)
<1>1. WindowFor(s) \in Window /\ WindowFor(s) # NoWindow
  BY DEF ServerInv, ServerTypeOK, ToplevelsInv, WindowFor
<1> QED
  BY <1>1, ToplevelOfFinds DEF ServerInv, ToplevelsInv

\* A step about one toplevel leaves the handshakes of all others alone.
LEMMA OneQueue ==
  ASSUME ServerInv, NEW s \in Surface, NEW w \in Window,
         \A t \in Surface \ {s} :
           inbox'[t] = inbox[t] /\ WindowFor(t)' = WindowFor(t) /\ WindowFor(t) # w,
         \A v \in Window \ {w} : states'[v] = states[v] /\ pending'[v] = pending[v],
         pending'[w] # NoRequest => states'[w] = "AwaitingConfigure",
         Len(inbox'[s]) <= MaxBehind,
         \A i, j \in DOMAIN inbox'[s] : inbox'[s][i].serial = inbox'[s][j].serial => i = j,
         \/ WindowFor(s)' = NoWindow /\ inbox'[s] = <<>>
         \/ WindowFor(s)' = w /\ QueueInv(s, w)'
  PROVE  HandshakeInv'
<1>1. \A v \in Window : pending'[v] # NoRequest => states'[v] = "AwaitingConfigure"
  BY DEF ServerInv, HandshakeInv
<1>2. \A t \in Surface : Len(inbox'[t]) <= MaxBehind
  BY DEF ServerInv, HandshakeInv
<1>3. \A t \in Surface : \A i, j \in DOMAIN inbox'[t] :
        inbox'[t][i].serial = inbox'[t][j].serial => i = j
  BY DEF ServerInv, HandshakeInv
<1>4. \A t \in Surface : WindowFor(t)' = NoWindow => inbox'[t] = <<>>
  BY NestedAssumption DEF ServerInv, HandshakeInv
<1>5. ASSUME NEW t \in Surface, NEW v \in Window, WindowFor(t)' = v
      PROVE  QueueInv(t, v)'
  <2>1. CASE t = s
    BY <1>5, <2>1, NestedAssumption
  <2>2. CASE t # s
    <3>1. v # w /\ QueueInv(t, v)
      BY <1>5, <2>2 DEF ServerInv, HandshakeInv
    <3> QED
      BY <2>2, <3>1 DEF QueueInv, Last
  <2> QED
    BY <2>1, <2>2
<1> QED
  BY <1>1, <1>2, <1>3, <1>4, <1>5 DEF HandshakeInv

\* What is left of a queue once its first i configures are acknowledged.
Rest(q, i) == SubSeq(q, i + 1, Len(q))

\* What ack_configure leaves unanswered is the end of the client's queue.
LEMMA RestFacts ==
  ASSUME NEW q \in Seq(Delivery), NEW i \in 1 .. Len(q),
         \A k, l \in DOMAIN q : q[k].serial = q[l].serial => k = l
  PROVE  /\ Rest(q, i) \in Seq(Delivery)
         /\ Len(Rest(q, i)) \in Nat /\ Len(Rest(q, i)) < Len(q)
         /\ i = Len(q) => Rest(q, i) = <<>>
         /\ i # Len(q) => Rest(q, i) # <<>> /\ Last(Rest(q, i)) = Last(q)
         /\ \A k, l \in DOMAIN Rest(q, i) :
              Rest(q, i)[k].serial = Rest(q, i)[l].serial => k = l
<1> DEFINE n == Len(q)
           rest == Rest(q, i)
<1>1. n \in Nat /\ DOMAIN q = 1 .. n /\ i \in 1 .. n
  OBVIOUS
<1>2. /\ rest = [k \in 1 .. n - i |-> q[k + i]]
      /\ n - i \in Nat
  BY <1>1 DEF Rest
<1> HIDE DEF rest
<1>3. rest \in Seq(Delivery) /\ Len(rest) = n - i /\ DOMAIN rest = 1 .. n - i
  <2>1. \A k \in 1 .. n - i : k + i \in 1 .. n
    BY <1>1
  <2>2. \A k \in 1 .. n - i : q[k + i] \in Delivery
    BY <1>1, <2>1
  <2>3. rest \in [1 .. n - i -> Delivery]
    BY <1>2, <2>2
  <2> QED
    BY <1>2, <2>3
<1>4. \A k \in 1 .. n - i : rest[k] = q[k + i]
  BY <1>2
<1> HIDE DEF n
<1>5. i = n => rest = <<>>
  BY <1>1, <1>3
<1>6. ASSUME i # n PROVE rest # <<>> /\ Last(rest) = Last(q)
  <2>1. n - i \in 1 .. n - i /\ (n - i) + i = n
    BY <1>1, <1>6
  <2>2. rest[n - i] = q[n]
    BY <1>4, <2>1
  <2>3. Len(rest) = n - i /\ Len(q) = n
    BY <1>3 DEF n
  <2>4. rest # <<>>
    BY <1>1, <2>1, <2>3
  <2> QED
    BY <2>2, <2>3, <2>4 DEF Last
<1>7. ASSUME NEW k \in DOMAIN rest, NEW l \in DOMAIN rest, rest[k].serial = rest[l].serial
      PROVE  k = l
  <2>1. k \in 1 .. n - i /\ l \in 1 .. n - i /\ k + i \in 1 .. n /\ l + i \in 1 .. n
    BY <1>1, <1>3
  <2>2. q[k + i].serial = q[l + i].serial
    BY <1>4, <1>7, <2>1
  <2>3. k + i = l + i
    BY <1>1, <2>1, <2>2
  <2> QED
    BY <1>1, <2>1, <2>3
<1>8. Len(rest) \in Nat /\ Len(rest) < n
  BY <1>1, <1>3
<1>9. n = Len(q)
  BY DEF n
<1> QED
  BY <1>3, <1>5, <1>6, <1>7, <1>8, <1>9 DEF rest

\* ack_configure: only the newest configure is what the ledger waits for, so an
\* accepted answer leaves nothing to answer.
LEMMA AckServer ==
  ASSUME ServerInv, NEW s \in Surface, NEW i \in DOMAIN inbox[s], Ack(s, i)
  PROVE  ServerInv' /\ LifecycleKept
<1> DEFINE q == inbox[s]
           n == Len(q)
           rest == Rest(q, i)
           serial == q[i].serial
<1>0. PICK w \in Window : w = WindowFor(s) /\ w # NoWindow
                         /\ \A t \in Surface \ {s} : WindowFor(t) # w
  BY LiveWindow DEF Ack
<1>1. /\ phase = "clients" /\ phase' = phase /\ Contains(toplevels, s)
      /\ inbox' = [inbox EXCEPT ![s] = rest]
      /\ IF Xdg!Accepts(w, serial)
           THEN Xdg!AcknowledgeSerial(w, serial) ELSE UNCHANGED xdgVars
      /\ UNCHANGED <<paintVars, toplevels, buffered, unflushed, window_of,
                     next_window, events, keyboard, outgoing>>
  BY <1>0 DEF Ack, Rest
<1>3. /\ q \in Seq(Delivery) /\ n \in Nat /\ i \in 1 .. n /\ n <= MaxBehind /\ MaxBehind \in Nat
      /\ \A k, l \in DOMAIN q : q[k].serial = q[l].serial => k = l
  BY NestedAssumption DEF ServerInv, ServerTypeOK, HandshakeInv
<1>4. QueueInv(s, w) /\ (pending[w] # NoRequest => states[w] = "AwaitingConfigure")
  BY <1>0 DEF ServerInv, HandshakeInv
<1>5. /\ rest \in Seq(Delivery) /\ Len(rest) < n /\ Len(rest) \in Nat
      /\ i = n => rest = <<>>
      /\ i # n => rest # <<>> /\ Last(rest) = Last(q)
      /\ \A k, l \in DOMAIN rest : rest[k].serial = rest[l].serial => k = l
  <2>1. /\ i \in 1 .. Len(q) /\ q \in Seq(Delivery)
        /\ \A k, l \in DOMAIN q : q[k].serial = q[l].serial => k = l
    BY <1>3
  <2> QED
    BY <2>1, RestFacts
<1>6. /\ states \in [Window -> Xdg!State]
      /\ pending \in [Window -> Xdg!Request \cup {NoRequest}]
      /\ inbox \in [Surface -> Seq(Delivery)]
  BY DEF ServerInv, ServerTypeOK, Xdg!XdgTypeOK
<1> HIDE DEF rest
<1>7. inbox'[s] = rest /\ \A t \in Surface \ {s} : inbox'[t] = inbox[t]
  BY <1>1, <1>6
<1>8. \A t \in Surface : WindowFor(t)' = WindowFor(t)
  BY <1>1 DEF WindowFor
<1>9. /\ Xdg!XdgTypeOK' /\ QueueInv(s, w)'
      /\ \A v \in Window \ {w} : states'[v] = states[v] /\ pending'[v] = pending[v]
      /\ pending'[w] # NoRequest => states'[w] = "AwaitingConfigure"
      /\ \/ states' = states
         \/ states[w] = "AwaitingConfigure" /\ states'[w] = "ReadyToCommit"
  <2>1. CASE Xdg!Accepts(w, serial)
    <3>1. /\ states[w] = "AwaitingConfigure" /\ pending[w] # NoRequest
          /\ pending[w].serial = serial
      BY <2>1 DEF Xdg!Accepts, Xdg!IsPending
    <3>2. /\ states' = [states EXCEPT ![w] = "ReadyToCommit"]
          /\ pending' = [pending EXCEPT ![w] = NoRequest]
      BY <1>1, <1>0, <2>1 DEF Xdg!AcknowledgeSerial, Xdg!Answered
    <3>3. i = n
      BY <1>3, <1>4, <3>1 DEF QueueInv, Last
    <3>4. /\ states'[w] = "ReadyToCommit" /\ pending'[w] = NoRequest
          /\ \A v \in Window \ {w} : states'[v] = states[v] /\ pending'[v] = pending[v]
      BY <1>0, <1>6, <3>2
    <3>5. Xdg!XdgTypeOK'
      <4>1. /\ states' \in [Window -> Xdg!State]
            /\ pending' \in [Window -> Xdg!Request \cup {NoRequest}]
        BY <1>6, <3>2 DEF Xdg!State
      <4> QED
        BY <4>1 DEF ServerInv, ServerTypeOK, Xdg!XdgTypeOK
    <3>6. QueueInv(s, w)'
      BY <1>5, <1>7, <3>3, <3>4 DEF QueueInv
    <3> QED
      BY <3>1, <3>4, <3>5, <3>6
  <2>2. CASE ~Xdg!Accepts(w, serial)
    <3>1. states' = states /\ pending' = pending
      BY <1>1, <2>2 DEF xdgVars
    <3>2. Xdg!XdgTypeOK'
      BY <3>1 DEF ServerInv, ServerTypeOK, Xdg!XdgTypeOK
    <3>3. pending[w] # NoRequest => i # n
      BY <1>4, <2>2 DEF QueueInv, Last, Xdg!Accepts, Xdg!IsPending
    <3>4. q # <<>>
      BY <1>3
    <3>5. pending[w] # NoRequest /\ pending[w].age = 1 => Len(rest) < MaxBehind
      BY <1>3, <1>5
    <3>6. QueueInv(s, w)'
      BY <1>4, <1>5, <1>7, <3>1, <3>3, <3>4, <3>5 DEF QueueInv
    <3> QED
      BY <1>4, <3>1, <3>2, <3>6
  <2> QED
    BY <2>1, <2>2
<1>10. HandshakeInv'
  <2>1. Len(rest) <= MaxBehind
    BY <1>3, <1>5
  <2> QED
    BY <1>0, <1>5, <1>7, <1>8, <1>9, <2>1, OneQueue
<1>11. LifecycleKept
  BY <1>1, <1>9 DEF LifecycleKept
<1>12. ToplevelsInv'
  BY <1>1, <1>8, <1>11 DEF ServerInv, ToplevelsInv, LifecycleKept
<1>13. ServerTypeOK'
  <2>1. inbox' \in [Surface -> Seq(Delivery)]
    BY <1>1, <1>5, <1>6
  <2> QED
    BY <1>1, <1>9, <2>1 DEF ServerInv, ServerTypeOK, paintVars
<1>14. SendInv'
  BY <1>1 DEF ServerInv, SendInv
<1> QED
  BY <1>10, <1>11, <1>12, <1>13, <1>14 DEF ServerInv

\* What is announced are events.
LEMMA QueuedTyped ==
  ASSUME events \in Seq(Event), NEW w \in Window
  PROVE  /\ \A kind \in {"Mapped", "Focused", "Unmapped"} :
              events \o Queued(kind, w) \in Seq(Event)
         /\ events \o AnnounceMap(w) \in Seq(Event)
         /\ events \o AnnounceDestroy(w) \in Seq(Event)
<1>1. \A kind \in {"Mapped", "Focused", "Unmapped"} : [kind |-> kind, window |-> w] \in Event
  BY DEF Event
<1>2. \A kind \in {"Mapped", "Focused", "Unmapped"} : Queued(kind, w) \in Seq(Event)
  BY <1>1 DEF Queued
<1>3. \A a, b \in Seq(Event) : a \o b \in Seq(Event)
  OBVIOUS
<1> QED
  BY <1>2, <1>3 DEF AnnounceMap, AnnounceDestroy

\* commit with a buffer: what is acknowledged becomes mapped, with nothing left
\* to answer.
LEMMA CommitBufferServer ==
  ASSUME ServerInv, NEW s \in Surface, CommitBuffer(s)
  PROVE  ServerInv'
<1>0. PICK w \in Window : w = WindowFor(s) /\ w # NoWindow
                         /\ \A t \in Surface \ {s} : WindowFor(t) # w
  BY LiveWindow DEF CommitBuffer
<1>1. /\ phase = "clients" /\ phase' = phase
      /\ buffered' = buffered \cup {s}
      /\ UNCHANGED <<paintVars, toplevels, inbox, unflushed, window_of, next_window, outgoing>>
      /\ IF states[w] = "ReadyToCommit"
           THEN Xdg!Commit(w) /\ keyboard' = s /\ events' = events \o AnnounceMap(w)
           ELSE UNCHANGED <<xdgVars, keyboard, events>>
  BY <1>0 DEF CommitBuffer
<1>2. /\ states \in [Window -> Xdg!State] /\ events \in Seq(Event)
      /\ keyboard \in Surface \cup {NoSurface}
  BY DEF ServerInv, ServerTypeOK, Xdg!XdgTypeOK
<1>3. /\ pending' = pending
      /\ \A v \in Window \ {w} : states'[v] = states[v]
      /\ \/ states' = states
         \/ states[w] = "ReadyToCommit" /\ states' = [states EXCEPT ![w] = "Mapped"]
  BY <1>0, <1>1, <1>2 DEF Xdg!Commit, xdgVars
<1>4. /\ Xdg!XdgTypeOK'
      /\ states'[w] = states[w] \/ (states[w] = "ReadyToCommit" /\ states'[w] = "Mapped")
  <2>1. states' \in [Window -> Xdg!State]
    BY <1>2, <1>3 DEF Xdg!State
  <2>2. states'[w] = states[w] \/ (states[w] = "ReadyToCommit" /\ states'[w] = "Mapped")
    BY <1>0, <1>2, <1>3
  <2> QED
    BY <1>3, <2>1, <2>2 DEF ServerInv, ServerTypeOK, Xdg!XdgTypeOK
<1>5. \A t \in Surface : WindowFor(t)' = WindowFor(t)
  BY <1>1 DEF WindowFor
<1>6. HandshakeInv'
  <2>1. QueueInv(s, w) /\ (pending[w] # NoRequest => states[w] = "AwaitingConfigure")
    BY <1>0 DEF ServerInv, HandshakeInv
  <2>2. QueueInv(s, w)'
    BY <1>1, <1>3, <1>4, <2>1 DEF QueueInv, Last
  <2>3. /\ Len(inbox'[s]) <= MaxBehind
        /\ \A i, j \in DOMAIN inbox'[s] : inbox'[s][i].serial = inbox'[s][j].serial => i = j
    BY <1>1 DEF ServerInv, HandshakeInv
  <2> QED
    BY <1>0, <1>1, <1>3, <1>4, <1>5, <2>1, <2>2, <2>3, OneQueue
<1>7. ToplevelsInv'
  <2>1. \A v \in Window : states'[v] # "None" <=> states[v] # "None"
    BY <1>3, <1>4
  <2> QED
    BY <1>1, <1>5, <2>1 DEF ServerInv, ToplevelsInv
<1>8. ServerTypeOK'
  <2>1. events \o AnnounceMap(w) \in Seq(Event)
    BY <1>2, QueuedTyped
  <2>2. events' \in Seq(Event) /\ keyboard' \in Surface \cup {NoSurface}
    BY <1>1, <1>2, <2>1
  <2>3. buffered' \subseteq Surface
    BY <1>1 DEF ServerInv, ServerTypeOK
  <2> QED
    BY <1>1, <1>4, <2>2, <2>3 DEF ServerInv, ServerTypeOK, paintVars
<1>9. SendInv'
  BY <1>1 DEF ServerInv, SendInv
<1> QED
  BY <1>6, <1>7, <1>8, <1>9 DEF ServerInv

\* commit of a null buffer: a mapped toplevel had nothing to answer, and is
\* configured afresh.
LEMMA CommitNullServer ==
  ASSUME ServerInv, NEW s \in Surface, CommitNull(s)
  PROVE  ServerInv' /\ LifecycleKept
<1>0. PICK w \in Window : /\ w = WindowFor(s) /\ w # NoWindow
                         /\ \A t \in Surface \ {s} : WindowFor(t) # w
                         /\ ToplevelOf(w) = s
  BY LiveWindow DEF CommitNull
<1> DEFINE g == SizeAfterUnmap(w)
<1>1. /\ phase = "clients" /\ phase' = phase /\ Contains(toplevels, s)
      /\ buffered' = buffered \ {s}
      /\ UNCHANGED <<toplevels, window_of, next_window, outgoing>>
  BY DEF CommitNull
<1>6. ASSUME states[w] = "Mapped"
      PROVE  /\ window_geometry' = [window_geometry EXCEPT ![w] = NoRect]
             /\ window_order' = Dropped(window_order, w)
             /\ focused_window' = IF focused_window = w THEN NoWindow ELSE focused_window
             /\ keyboard' = IF keyboard # NoSurface /\ WindowFor(keyboard) = w
                              THEN NoSurface ELSE keyboard
             /\ events' = events \o Queued("Unmapped", w)
             /\ unflushed' = unflushed \cup {s}
             /\ Deliver(s, g)
             /\ Xdg!Track(w, g, FreshSerial)
  <2> DEFINE v == WindowFor(s)
  <2>1. v # NoWindow /\ states[v] = "Mapped" /\ v = w /\ ToplevelOf(v) = s
    BY <1>0, <1>1, <1>6, LiveWindow
  <2>2. /\ window_geometry' = [window_geometry EXCEPT ![v] = NoRect]
        /\ window_order' = Dropped(window_order, v)
        /\ focused_window' = IF focused_window = v THEN NoWindow ELSE focused_window
    BY <2>1 DEF CommitNull
  <2>3. keyboard' = IF keyboard # NoSurface /\ WindowFor(keyboard) = v
                      THEN NoSurface ELSE keyboard
    BY <2>1 DEF CommitNull
  <2>4. /\ events' = events \o Queued("Unmapped", v)
        /\ unflushed' = unflushed \cup {ToplevelOf(v)}
    BY <2>1 DEF CommitNull
  <2>5. Deliver(ToplevelOf(v), SizeAfterUnmap(v)) /\ Xdg!Track(v, SizeAfterUnmap(v), FreshSerial)
    BY <2>1 DEF CommitNull
  <2> HIDE DEF v
  <2> QED
    BY <2>1, <2>2, <2>3, <2>4, <2>5 DEF Deliver, Xdg!Track
<1>8. ASSUME states[w] # "Mapped"
      PROVE  UNCHANGED <<xdgVars, paintVars, keyboard, events, inbox, unflushed>>
  BY <1>0, <1>8 DEF CommitNull
<1>2. SendInv'
  BY <1>1 DEF ServerInv, SendInv
<1>3. buffered' \subseteq Surface
  BY <1>1 DEF ServerInv, ServerTypeOK
<1>4. CASE states[w] = "Mapped"
  <2>1. g \in Rect
    BY NestedAssumption DEF ServerInv, ServerTypeOK, SizeAfterUnmap
  <2>2. \A t \in Surface : WindowFor(t)' = WindowFor(t)
    BY <1>1 DEF WindowFor
  <2>3. Len(inbox[s]) < MaxBehind
    <3>1. inbox[s] = <<>>
      BY <1>0, <1>4 DEF ServerInv, HandshakeInv, QueueInv
    <3> QED
      BY <3>1, NestedAssumption
  <2> HIDE DEF g
  <2>4. Deliver(s, g) /\ Xdg!Track(w, g, FreshSerial)
    BY <1>4, <1>6
  <2>5. /\ Xdg!XdgTypeOK'
        /\ inbox' \in [Surface -> Seq(Delivery)]
        /\ HandshakeInv'
        /\ states' = [states EXCEPT ![w] = "AwaitingConfigure"]
    BY <1>0, <2>1, <2>2, <2>3, <2>4, TrackedDelivery
  <2>6. LifecycleKept
    BY <1>1, <1>4, <2>5 DEF LifecycleKept, ServerInv, ServerTypeOK, Xdg!XdgTypeOK
  <2>7. ToplevelsInv'
    BY <1>1, <2>2, <2>6 DEF ServerInv, ToplevelsInv, LifecycleKept
  <2>8. ServerTypeOK'
    <3>1. /\ window_geometry' \in [Window -> Rect \cup {NoRect}]
          /\ focused_window' \in Window \cup {NoWindow}
          /\ keyboard' \in Surface \cup {NoSurface}
          /\ unflushed' \subseteq Surface
      BY <1>4, <1>6 DEF ServerInv, ServerTypeOK
    <3>2. window_order' \in Seq(Window)
      BY <1>4, <1>6, DroppedFacts DEF ServerInv, ServerTypeOK
    <3>3. events' \in Seq(Event)
      BY <1>4, <1>6, QueuedTyped DEF ServerInv, ServerTypeOK
    <3> QED
      BY <1>1, <1>3, <2>5, <3>1, <3>2, <3>3 DEF ServerInv, ServerTypeOK
  <2> QED
    BY <1>2, <2>5, <2>6, <2>7, <2>8 DEF ServerInv
<1>5. CASE states[w] # "Mapped"
  <2>1. UNCHANGED <<xdgVars, paintVars, keyboard, events, inbox, unflushed>>
    BY <1>5, <1>8
  <2>2. ToplevelsInv' /\ HandshakeInv' /\ Xdg!XdgTypeOK' /\ LifecycleKept
    BY <1>1, <2>1, QuietServer
  <2>3. ServerTypeOK'
    BY <1>1, <1>3, <2>1, <2>2 DEF ServerInv, ServerTypeOK, paintVars
  <2> QED
    BY <1>2, <2>2, <2>3 DEF ServerInv
<1> QED
  BY <1>4, <1>5

\* toplevel_destroyed: surface and window part, and nothing is left to answer.
LEMMA DestroyServer ==
  ASSUME DistinctIds, ServerInv, NEW s \in Surface, DestroyToplevel(s)
  PROVE  /\ ServerInv'
         /\ WindowFor(s)' = NoWindow
         /\ \A t \in Surface \ {s} : WindowFor(t)' = WindowFor(t)
         /\ states' = [states EXCEPT ![WindowFor(s)] = "None"]
<1>0. PICK w \in Window : /\ w = WindowFor(s) /\ w # NoWindow
                         /\ \A t \in Surface \ {s} : WindowFor(t) # w
  BY LiveWindow DEF DestroyToplevel
<1>1. /\ phase = "clients" /\ phase' = phase /\ Contains(toplevels, s)
      /\ toplevels' = Dropped(toplevels, s)
      /\ buffered' = buffered \ {s}
      /\ inbox' = [inbox EXCEPT ![s] = <<>>]
      /\ unflushed' = unflushed \ {s}
      /\ window_of' = [window_of EXCEPT ![SurfaceKey(s)] = NoWindow]
      /\ Xdg!Destroy(w)
      /\ window_geometry' = [window_geometry EXCEPT ![w] = NoRect]
      /\ window_order' = Dropped(window_order, w)
      /\ events' = events \o AnnounceDestroy(w)
      /\ UNCHANGED <<focused_window, next_window, keyboard, outgoing>>
  BY <1>0 DEF DestroyToplevel
<1>2. /\ states \in [Window -> Xdg!State]
      /\ pending \in [Window -> Xdg!Request \cup {NoRequest}]
      /\ inbox \in [Surface -> Seq(Delivery)]
      /\ window_of \in [{SurfaceKey(t) : t \in Surface} -> Window \cup {NoWindow}]
      /\ toplevels \in Seq(Surface)
  BY DEF ServerInv, ServerTypeOK, Xdg!XdgTypeOK
<1>3. /\ states' = [states EXCEPT ![w] = "None"]
      /\ pending' = [pending EXCEPT ![w] = NoRequest]
  BY <1>1 DEF Xdg!Destroy
<1>4. /\ states'[w] = "None" /\ pending'[w] = NoRequest
      /\ \A v \in Window \ {w} : states'[v] = states[v] /\ pending'[v] = pending[v]
  BY <1>2, <1>3
<1>5. WindowFor(s)' = NoWindow /\ \A t \in Surface \ {s} : WindowFor(t)' = WindowFor(t)
  BY <1>1, <1>2 DEF WindowFor, DistinctIds
<1>6. inbox'[s] = <<>> /\ \A t \in Surface \ {s} : inbox'[t] = inbox[t]
  BY <1>1, <1>2
<1>7. HandshakeInv'
  <2>1. Len(inbox'[s]) <= MaxBehind
    BY <1>6, NestedAssumption
  <2> QED
    BY <1>0, <1>4, <1>5, <1>6, <2>1, OneQueue
<1>8. ToplevelsInv'
  <2>1. /\ toplevels' \in Seq(Surface)
        /\ \A i, j \in DOMAIN toplevels' : toplevels'[i] = toplevels'[j] => i = j
        /\ \A t : Contains(toplevels', t) <=> Contains(toplevels, t) /\ t # s
    <3>1. \A i, j \in DOMAIN toplevels : toplevels[i] = toplevels[j] => i = j
      BY DEF ServerInv, ToplevelsInv
    <3>2. /\ Dropped(toplevels, s) \in Seq(Surface)
          /\ \A i, j \in DOMAIN Dropped(toplevels, s) :
               Dropped(toplevels, s)[i] = Dropped(toplevels, s)[j] => i = j
          /\ \A t : Contains(Dropped(toplevels, s), t) <=> Contains(toplevels, t) /\ t # s
      BY <1>2, <3>1, DroppedFacts
    <3> QED
      BY <1>1, <3>2
  <2>2. \A t \in Surface : Contains(toplevels', t) <=> WindowFor(t)' # NoWindow
    BY <1>5, <2>1 DEF ServerInv, ToplevelsInv
  <2>3. \A t \in Surface : WindowFor(t)' # NoWindow => WindowFor(t)' < next_window'
    BY <1>1, <1>5 DEF ServerInv, ToplevelsInv
  <2>4. \A t, u \in Surface : WindowFor(t)' = WindowFor(u)' /\ WindowFor(t)' # NoWindow => t = u
    BY <1>5 DEF ServerInv, ToplevelsInv
  <2>5. \A v \in Window : states'[v] # "None" <=> \E t \in Surface : WindowFor(t)' = v
    BY <1>0, <1>4, <1>5, NestedAssumption DEF ServerInv, ToplevelsInv
  <2> QED
    BY <2>1, <2>2, <2>3, <2>4, <2>5 DEF ToplevelsInv
<1>9. ServerTypeOK'
  <2>1. Xdg!XdgTypeOK'
    <3>1. /\ states' \in [Window -> Xdg!State]
          /\ pending' \in [Window -> Xdg!Request \cup {NoRequest}]
      BY <1>2, <1>3 DEF Xdg!State
    <3> QED
      BY <3>1 DEF ServerInv, ServerTypeOK, Xdg!XdgTypeOK
  <2>2. inbox' \in [Surface -> Seq(Delivery)]
    BY <1>1, <1>2
  <2>3. /\ window_of' \in [{SurfaceKey(t) : t \in Surface} -> Window \cup {NoWindow}]
        /\ window_geometry' \in [Window -> Rect \cup {NoRect}]
        /\ buffered' \subseteq Surface /\ unflushed' \subseteq Surface
    BY <1>1 DEF ServerInv, ServerTypeOK
  <2>4. toplevels' \in Seq(Surface) /\ window_order' \in Seq(Window)
    BY <1>1, DroppedFacts DEF ServerInv, ServerTypeOK
  <2>5. events' \in Seq(Event)
    BY <1>1, QueuedTyped DEF ServerInv, ServerTypeOK
  <2> QED
    BY <1>1, <2>1, <2>2, <2>3, <2>4, <2>5 DEF ServerInv, ServerTypeOK
<1>10. SendInv'
  BY <1>1 DEF ServerInv, SendInv
<1> QED
  BY <1>0, <1>3, <1>5, <1>7, <1>8, <1>9, <1>10 DEF ServerInv

\* The end of a dispatch: every expired request leaves the ledger and is to be
\* sent again, to a client that still has room for it.
LEMMA DispatchServer ==
  ASSUME ServerInv, DispatchDone
  PROVE  ServerInv' /\ LifecycleKept
<1>1. /\ phase' = "retry" /\ unflushed' = {}
      /\ Xdg!Expire
      /\ outgoing' = {[window |-> w, geometry |-> pending[w].geometry] : w \in Xdg!Overdue}
      /\ UNCHANGED <<paintVars, toplevels, buffered, inbox, window_of, next_window,
                     events, keyboard>>
  BY DEF DispatchDone
<1>2. /\ states \in [Window -> Xdg!State]
      /\ pending \in [Window -> Xdg!Request \cup {NoRequest}]
  BY DEF ServerInv, ServerTypeOK, Xdg!XdgTypeOK
<1> DEFINE due(w) == pending[w] # NoRequest /\ pending[w].age = 1
<1>3. /\ pending' = [w \in Window |-> IF due(w) THEN NoRequest ELSE pending[w]]
      /\ states' = [w \in Window |->
                      IF due(w) /\ states[w] = "AwaitingConfigure" THEN "New" ELSE states[w]]
      /\ \A w \in Window : w \in Xdg!Overdue <=> due(w)
  BY <1>1 DEF Xdg!Expire, Xdg!Overdue
<1>4. \A w \in Window : due(w) => states[w] = "AwaitingConfigure"
  BY DEF ServerInv, HandshakeInv
<1> HIDE DEF due
<1>5. \A w \in Window : /\ due(w) => pending'[w] = NoRequest /\ states'[w] = "New"
                                     /\ states[w] = "AwaitingConfigure"
                        /\ ~due(w) => pending'[w] = pending[w] /\ states'[w] = states[w]
  BY <1>3, <1>4
<1>6. \A t \in Surface : WindowFor(t)' = WindowFor(t)
  BY <1>1 DEF WindowFor
<1>7. LifecycleKept
  BY <1>1, <1>5 DEF LifecycleKept
<1>8. ToplevelsInv'
  BY <1>1, <1>6, <1>7 DEF ServerInv, ToplevelsInv, LifecycleKept
<1>9. HandshakeInv'
  <2>1. \A w \in Window : pending'[w] # NoRequest => states'[w] = "AwaitingConfigure"
    BY <1>5 DEF ServerInv, HandshakeInv
  <2>2. ASSUME NEW s \in Surface, NEW w \in Window, WindowFor(s) = w
        PROVE  QueueInv(s, w)'
    <3>1. QueueInv(s, w)
      BY <2>2 DEF ServerInv, HandshakeInv
    <3>2. CASE due(w)
      BY <1>5, <3>2 DEF QueueInv
    <3>3. CASE ~due(w)
      BY <1>1, <1>5, <3>1, <3>3 DEF QueueInv, Last
    <3> QED
      BY <3>2, <3>3
  <2>3. \A s \in Surface, w \in Window : WindowFor(s)' = w => QueueInv(s, w)'
    BY <1>6, <2>2
  <2> QED
    BY <1>1, <1>6, <2>1, <2>3 DEF ServerInv, HandshakeInv
<1>10. ASSUME NEW a \in outgoing'
       PROVE  /\ a.window \in Window /\ due(a.window)
              /\ a = [window |-> a.window, geometry |-> pending[a.window].geometry]
  <2>1. PICK w \in Xdg!Overdue : a = [window |-> w, geometry |-> pending[w].geometry]
    BY <1>1
  <2> QED
    BY <1>3, <2>1 DEF Xdg!Overdue
<1>11. ServerTypeOK'
  <2>1. Xdg!XdgTypeOK'
    <3>1. /\ states' \in [Window -> Xdg!State]
          /\ pending' \in [Window -> Xdg!Request \cup {NoRequest}]
      BY <1>2, <1>3 DEF Xdg!State
    <3> QED
      BY <3>1 DEF ServerInv, ServerTypeOK, Xdg!XdgTypeOK
  <2>2. outgoing' \subseteq Send
    BY <1>2, <1>10 DEF due, Send, Xdg!Request
  <2> QED
    BY <1>1, <2>1, <2>2 DEF ServerInv, ServerTypeOK, Phase, paintVars
<1>12. SendInv'
  <2>1. \A a, b \in outgoing' : a.window = b.window => a = b
    BY <1>10
  <2>2. ASSUME NEW a \in outgoing'
        PROVE  /\ states'[a.window] = "New"
               /\ \A s \in Surface : WindowFor(s) = a.window => Len(inbox[s]) < MaxBehind
    BY <1>5, <1>10 DEF due, ServerInv, HandshakeInv, QueueInv
  <2> QED
    BY <1>1, <1>6, <2>1, <2>2 DEF SendInv
<1> QED
  BY <1>7, <1>8, <1>9, <1>11, <1>12 DEF ServerInv

\* A configure is sent: where the handshake allows it, the client has room.
LEMMA SendServer ==
  ASSUME ServerInv, NEW send \in outgoing, NEW allowed \in BOOLEAN, SendNext(send, allowed),
         \/ phase = "retry" /\ allowed
         \/ phase = "resize" /\ (allowed <=> states[send.window] = "Mapped")
  PROVE  ServerInv' /\ LifecycleKept
<1> DEFINE w == send.window
           g == send.geometry
<1>1. /\ outgoing' = outgoing \ {send} /\ phase' = phase
      /\ UNCHANGED <<paintVars, toplevels, buffered, unflushed, window_of,
                     next_window, events, keyboard>>
  BY DEF SendNext
<1>2. w \in Window /\ g \in Rect /\ send \in Send
  BY DEF ServerInv, ServerTypeOK, Send
<1>3. \A t \in Surface : WindowFor(t)' = WindowFor(t)
  BY <1>1 DEF WindowFor
<1>4. \A a \in outgoing' : a \in outgoing /\ a.window # w
  BY <1>1 DEF ServerInv, SendInv
<1>5. CASE allowed /\ HasToplevel(w)
  <2>1. PICK s \in Surface : WindowFor(s) = w /\ ToplevelOf(w) = s
    BY <1>2, <1>5, ToplevelOfIsLive DEF ServerInv
  <2>2. w # NoWindow /\ \A t \in Surface \ {s} : WindowFor(t) # w
    BY <1>2, <2>1, NestedAssumption DEF ServerInv, ToplevelsInv
  <2>3. /\ Len(inbox[s]) < MaxBehind
        /\ states[w] \in {"New", "Mapped"}
    <3>1. CASE phase = "retry"
      BY <2>1, <3>1 DEF ServerInv, SendInv
    <3>2. CASE phase = "resize"
      <4>1. states[w] = "Mapped"
        BY <1>5, <3>2
      <4>2. inbox[s] = <<>>
        BY <1>2, <2>1, <4>1 DEF ServerInv, HandshakeInv, QueueInv
      <4> QED
        BY <4>1, <4>2, NestedAssumption
    <3> QED
      BY <3>1, <3>2
  <2>4. Xdg!CanConfigure(w)
    BY <2>3 DEF Xdg!CanConfigure
  <2>5. Deliver(ToplevelOf(w), g) /\ Xdg!ConfigureWithSerial(w, g, FreshSerial)
    BY <1>5, <2>4 DEF SendNext
  <2>6. Deliver(s, g) /\ Xdg!Track(w, g, FreshSerial)
    BY <2>1, <2>5 DEF Deliver, Xdg!ConfigureWithSerial
  <2> HIDE DEF w, g
  <2>7. /\ Xdg!XdgTypeOK'
        /\ inbox' \in [Surface -> Seq(Delivery)]
        /\ HandshakeInv'
        /\ \A t \in Surface \ {s} : inbox'[t] = inbox[t]
        /\ states' = [states EXCEPT ![w] = "AwaitingConfigure"]
    BY <1>2, <1>3, <2>1, <2>2, <2>3, <2>6, TrackedDelivery
  <2>8. /\ states'[w] = "AwaitingConfigure"
        /\ \A v \in Window \ {w} : states'[v] = states[v]
    BY <1>2, <2>7 DEF ServerInv, ServerTypeOK, Xdg!XdgTypeOK
  <2>9. LifecycleKept
    BY <1>1, <2>3, <2>8 DEF LifecycleKept
  <2>10. ToplevelsInv'
    BY <1>1, <1>3, <2>9 DEF ServerInv, ToplevelsInv, LifecycleKept
  <2>11. ServerTypeOK'
    BY <1>1, <2>7 DEF ServerInv, ServerTypeOK, paintVars
  <2>12. SendInv'
    <3>1. ASSUME phase = "retry", NEW a \in outgoing'
          PROVE  /\ states'[a.window] = "New"
                 /\ \A t \in Surface : WindowFor(t) = a.window => Len(inbox'[t]) < MaxBehind
      <4>1. a \in outgoing /\ a.window # w /\ a.window \in Window
        BY <1>4, <3>1 DEF w, ServerInv, ServerTypeOK, Send
      <4>2. \A t \in Surface : WindowFor(t) = a.window => inbox'[t] = inbox[t]
        BY <2>1, <2>7, <4>1
      <4> QED
        BY <2>8, <3>1, <4>1, <4>2 DEF ServerInv, SendInv
    <3> QED
      BY <1>1, <1>3, <3>1 DEF ServerInv, SendInv
  <2> QED
    BY <2>7, <2>9, <2>10, <2>11, <2>12 DEF ServerInv
<1>6. CASE ~(allowed /\ HasToplevel(w))
  <2>1. UNCHANGED <<inbox, xdgVars>>
    BY <1>6 DEF SendNext
  <2>2. ToplevelsInv' /\ HandshakeInv' /\ Xdg!XdgTypeOK' /\ LifecycleKept
    BY <1>1, <2>1, QuietServer
  <2>3. ServerTypeOK'
    BY <1>1, <2>1, <2>2 DEF ServerInv, ServerTypeOK, paintVars
  <2>4. SendInv'
    BY <1>1, <1>3, <1>4, <2>1 DEF ServerInv, SendInv, xdgVars
  <2> QED
    BY <2>2, <2>3, <2>4 DEF ServerInv
<1> QED
  BY <1>5, <1>6

\* Time passes, and makes no request overdue whose client has no room left.
LEMMA FrameServer ==
  ASSUME ServerInv, Frame
  PROVE  ServerInv' /\ LifecycleKept
<1>1. /\ phase = "frame" /\ phase' = "input"
      /\ UNCHANGED <<paintVars, clientVars, window_of, next_window, events, keyboard, outgoing>>
  BY DEF Frame
<1>2. SendInv'
  BY <1>1 DEF ServerInv, SendInv
<1>3. CASE UNCHANGED xdgVars
  <2>1. ToplevelsInv' /\ HandshakeInv' /\ Xdg!XdgTypeOK' /\ LifecycleKept
    BY <1>1, <1>3, QuietServer DEF clientVars
  <2> QED
    BY <1>1, <1>2, <2>1 DEF ServerInv, ServerTypeOK, paintVars, clientVars, Phase
<1>4. CASE (\A s \in Surface : Len(inbox[s]) < MaxBehind) /\ Xdg!Elapse
  <2>1. pending \in [Window -> Xdg!Request \cup {NoRequest}]
    BY DEF ServerInv, ServerTypeOK, Xdg!XdgTypeOK
  <2>2. /\ pending' = [w \in Window |->
                         IF pending[w] = NoRequest \/ pending[w].age = 1
                           THEN pending[w] ELSE [pending[w] EXCEPT !.age = @ + 1]]
        /\ states' = states
    BY <1>4 DEF Xdg!Elapse
  <2>3. ASSUME NEW w \in Window, pending[w] # NoRequest
        PROVE  /\ pending'[w] \in Xdg!Request /\ pending'[w] # NoRequest
               /\ pending'[w].serial = pending[w].serial
    <3>1. pending[w] \in Xdg!Request
      BY <2>1, <2>3
    <3>2. CASE pending[w].age = 1
      BY <2>2, <2>3, <3>1, <3>2
    <3>3. CASE pending[w].age # 1
      <4>1. pending[w].age = 0
        BY <3>1, <3>3 DEF Xdg!Request
      <4>2. pending'[w] = [pending[w] EXCEPT !.age = 1]
        BY <2>2, <2>3, <4>1
      <4>3. [pending[w] EXCEPT !.age = 1] \in Xdg!Request
        BY <3>1 DEF Xdg!Request
      <4>4. [pending[w] EXCEPT !.age = 1].serial = pending[w].serial
        BY <3>1 DEF Xdg!Request
      <4> QED
        BY <4>2, <4>3, <4>4, NestedAssumption
    <3> QED
      BY <3>2, <3>3
  <2>4. \A w \in Window : pending[w] = NoRequest => pending'[w] = NoRequest
    BY <2>2
  <2>5. /\ \A t \in Surface : WindowFor(t)' = WindowFor(t)
        /\ inbox' = inbox /\ toplevels' = toplevels /\ next_window' = next_window
    BY <1>1 DEF WindowFor, clientVars
  <2>6. Xdg!XdgTypeOK'
    <3>1. \A w \in Window : pending'[w] \in Xdg!Request \cup {NoRequest}
      BY <2>3, <2>4
    <3>2. pending' \in [Window -> Xdg!Request \cup {NoRequest}]
      BY <2>2, <3>1
    <3> QED
      BY <2>2, <3>2 DEF ServerInv, ServerTypeOK, Xdg!XdgTypeOK
  <2>7. HandshakeInv'
    <3>1. \A w \in Window : pending'[w] # NoRequest => states'[w] = "AwaitingConfigure"
      BY <2>2, <2>4 DEF ServerInv, HandshakeInv
    <3>2. ASSUME NEW s \in Surface, NEW w \in Window, WindowFor(s) = w
          PROVE  QueueInv(s, w)'
      <4>1. QueueInv(s, w)
        BY <3>2 DEF ServerInv, HandshakeInv
      <4>2. pending'[w] # NoRequest =>
              inbox'[s] # <<>> /\ Last(inbox'[s]).serial = pending'[w].serial
        BY <2>3, <2>4, <2>5, <4>1 DEF QueueInv
      <4> QED
        BY <1>4, <2>2, <2>5, <4>1, <4>2 DEF QueueInv
    <3>3. \A s \in Surface, w \in Window : WindowFor(s)' = w => QueueInv(s, w)'
      BY <2>5, <3>2
    <3> QED
      BY <2>5, <3>1, <3>3 DEF ServerInv, HandshakeInv
  <2>8. LifecycleKept
    BY <1>1, <2>2 DEF LifecycleKept
  <2>9. ToplevelsInv'
    BY <2>5, <2>8 DEF ServerInv, ToplevelsInv, LifecycleKept
  <2>10. ServerTypeOK'
    BY <1>1, <2>6 DEF ServerInv, ServerTypeOK, paintVars, clientVars, Phase
  <2> QED
    BY <1>2, <2>7, <2>8, <2>9, <2>10 DEF ServerInv
<1> QED
  BY <1>3, <1>4 DEF Frame

-----------------------------------------------------------------------------
(* The coordinator, whose own theorems apply.                              *)

\* What CoreStateTheorems proves of a coordinator with one workspace.
LEMMA CoreFacts ==
  ASSUME CoreT!IInv
  PROVE  /\ active = TheWorkspace /\ windows \subseteq Window
         /\ scene \in [{TheWorkspace} -> CoreT!SceneState]
         /\ focused \in [{TheWorkspace} -> Window \cup {NoWindow}]
         /\ scene[active] \in CoreT!SceneState /\ CoreT!PaintOrder(scene[active])
         /\ Core!Placed(scene[active]) \subseteq windows
         /\ focused[active] # NoWindow => focused[active] \in windows
         /\ Core!TypeOK
<1>1. CoreT!TypeOK /\ CoreT!ScenesAreOrdered /\ CoreT!OnlyMappedWindows
  BY DEF CoreT!IInv
<1>2. Core!TypeOK
  BY <1>1 DEF Core!TypeOK, CoreT!TypeOK, Core!SceneState, CoreT!SceneState, Core!Saved, CoreT!Saved
<1>3. active = TheWorkspace
  BY <1>1 DEF CoreT!TypeOK
<1> QED
  BY <1>1, <1>2, <1>3, SameScene
  DEF CoreT!TypeOK, CoreT!ScenesAreOrdered, CoreT!OnlyMappedWindows

\* Steps that leave the coordinator alone.
LEMMA QuietCore ==
  ASSUME CoreInv, UNCHANGED coreVars, phase # "relayout"
  PROVE  CoreInv'
<1>1. /\ windows' = windows /\ workspaces' = workspaces /\ active' = active /\ scene' = scene
      /\ focused' = focused /\ layout' = layout /\ geometry' = geometry
  BY DEF coreVars
<1>2. CoreT!IInv'
  BY <1>1 DEF CoreInv, CoreT!IInv, CoreT!TypeOK, CoreT!ActiveExists, CoreT!ScenesAreOrdered,
              CoreT!OnlyMappedWindows, CoreT!SceneIsSavedGeometry
<1> QED
  BY <1>1, <1>2 DEF CoreInv

\* window_mapped adds the window and leaves placing it to the layout run.
LEMMA MappedCore ==
  ASSUME CoreInv, NEW w \in Window, Core!WindowMapped(w), phase' = "relayout"
  PROVE  CoreInv' /\ windows' = windows \cup {w} /\ active' = active /\ focused' = focused
<1>1. CoreT!IInv /\ CoreT!WindowMapped(w)
  BY SameSteps DEF CoreInv
<1>2. CoreT!IInv'
  BY <1>1, CoreConstants, CoreT!MapPreserves
<1> QED
  BY <1>2 DEF CoreInv, Core!WindowMapped

\* window_focused moves the focus and raises.
LEMMA FocusedCore ==
  ASSUME CoreInv, phase # "relayout", NEW w \in Window, Core!WindowFocused(w)
  PROVE  CoreInv' /\ windows' = windows /\ active' = active /\ focused'[active'] = w
<1>1. CoreT!IInv /\ CoreT!WindowFocused(w)
  BY SameSteps DEF CoreInv
<1>2. CoreT!IInv'
  BY <1>1, CoreConstants, CoreT!RaisePreserves
<1>3. /\ windows' = windows /\ active' = active
      /\ focused' = [focused EXCEPT ![active] = w]
      /\ scene' = [scene EXCEPT ![active] = Core!RaiseWindow(@, w)]
  BY DEF Core!WindowFocused
<1>4. /\ focused'[active'] = w
      /\ scene'[active'] = Core!RaiseWindow(scene[active], w)
  BY <1>1, <1>3, CoreFacts
<1>5. Core!Placed(Core!RaiseWindow(scene[active], w)) = Core!Placed(scene[active])
  <2>1. scene[active] \in CoreT!SceneState
    BY <1>1, CoreFacts
  <2>2. Core!RaiseWindow(scene[active], w).rects = scene[active].rects
    BY <2>1 DEF Core!RaiseWindow, CoreT!SceneState
  <2> QED
    BY <2>2 DEF Core!Placed
<1> QED
  BY <1>2, <1>3, <1>4, <1>5 DEF CoreInv

\* window_unmapped takes the window out of list, scene and focus.
LEMMA UnmappedCore ==
  ASSUME CoreInv, phase # "relayout", NEW w \in Window, Core!WindowUnmapped(w)
  PROVE  /\ CoreInv' /\ windows' = windows \ {w} /\ active' = active
         /\ focused'[active'] = IF focused[active] = w THEN NoWindow ELSE focused[active]
<1>1. CoreT!IInv /\ CoreT!WindowUnmapped(w)
  BY SameSteps DEF CoreInv
<1>2. CoreT!IInv'
  BY <1>1, CoreConstants, CoreT!UnmapPreserves
<1>3. /\ windows' = windows \ {w} /\ active' = active /\ active = TheWorkspace
      /\ scene'[active] = Core!RemoveWindow(scene[active], w)
      /\ focused'[active] = IF focused[active] = w THEN NoWindow ELSE focused[active]
  BY <1>1, CoreFacts DEF Core!WindowUnmapped
<1>4. Core!Placed(Core!RemoveWindow(scene[active], w)) = Core!Placed(scene[active]) \ {w}
  <2>1. scene[active].rects \in [Window -> Rect \cup {NoRect}]
    BY <1>1, CoreFacts DEF CoreT!SceneState
  <2>2. CASE w \in Core!Placed(scene[active])
    <3>1. Core!RemoveWindow(scene[active], w).rects = [scene[active].rects EXCEPT ![w] = NoRect]
      BY <2>2 DEF Core!RemoveWindow
    <3> QED
      BY <2>1, <3>1 DEF Core!Placed
  <2>3. CASE w \notin Core!Placed(scene[active])
    BY <2>3 DEF Core!RemoveWindow
  <2> QED
    BY <2>2, <2>3
<1> QED
  BY <1>2, <1>3, <1>4 DEF CoreInv

\* A layout run, configured or recovery, places every managed window.
LEMMA RunCore ==
  ASSUME CoreInv, Core!RunProvider(TheLayout) \/ Core!RunRecovery(TheLayout)
  PROVE  CoreInv' /\ windows' = windows /\ active' = active /\ focused' = focused
<1>1. CoreT!IInv /\ (CoreT!RunProvider(TheLayout) \/ CoreT!RunRecovery(TheLayout))
  BY SameSteps DEF CoreInv
<1>2. CoreT!IInv'
  BY <1>1, CoreConstants, CoreT!RunPreserves
<1>3. active = TheWorkspace /\ windows \subseteq Window /\ scene \in [{TheWorkspace} -> CoreT!SceneState]
      /\ scene[active] \in CoreT!SceneState /\ CoreT!PaintOrder(scene[active])
      /\ CoreT!Placed(scene[active]) \subseteq windows
  BY <1>1, CoreFacts, SameScene
<1>4. PICK rects \in [windows -> Rect] :
        \E order : Core!CommitLayout(TheLayout, rects, order)
  <2>1. CASE Core!RunProvider(TheLayout)
    BY <2>1 DEF Core!RunProvider
  <2>2. CASE Core!RunRecovery(TheLayout)
    <3>1. geometry[active][TheLayout] \in [Window -> Rect \cup {NoRect}]
      BY <1>1, <1>3 DEF CoreT!IInv, CoreT!TypeOK, CoreT!Saved
    <3> DEFINE saved == geometry[active][TheLayout]
               full(cascade) == [w \in windows |-> IF saved[w] # NoRect THEN saved[w] ELSE cascade[w]]
    <3>2. PICK cascade \in [windows -> Rect] :
            Core!CommitLayout(TheLayout, full(cascade), Core!IdOrderOf(windows))
      BY <2>2 DEF Core!RunRecovery
    <3>3. full(cascade) \in [windows -> Rect]
      BY <1>3, <3>1
    <3> QED
      BY <3>2, <3>3
  <2> QED
    BY <2>1, <2>2
<1>5. PICK order : Core!CommitLayout(TheLayout, rects, order)
  BY <1>4
<1> DEFINE over == Core!Overlay(scene[active], rects)
<1>6. /\ windows' = windows /\ active' = active /\ focused' = focused
      /\ scene'[active] = Core!SetOrder(over, order)
  BY <1>3, <1>5 DEF Core!CommitLayout
<1>7. over \in CoreT!SceneState /\ Core!Placed(over) = windows
  <2>1. CoreT!Overlay(scene[active], rects) = over /\ CoreT!Placed(over) = Core!Placed(over)
    BY SameScene
  <2>2. /\ CoreT!Overlay(scene[active], rects) \in CoreT!SceneState
        /\ CoreT!Placed(CoreT!Overlay(scene[active], rects)) = windows
    BY <1>3, CoreConstants, CoreT!OverlayIsOrdered
  <2> QED
    BY <2>1, <2>2
<1> HIDE DEF over
<1>8. Core!Placed(Core!SetOrder(over, order)) = windows
  <2>1. Core!SetOrder(over, order).rects = over.rects
    BY <1>7 DEF Core!SetOrder, CoreT!SceneState
  <2> QED
    BY <1>7, <2>1 DEF Core!Placed
<1> QED
  BY <1>2, <1>6, <1>8 DEF CoreInv

-----------------------------------------------------------------------------
(* The queue of events between server and coordinator.  Whether a window   *)
(* is managed, or focused, once the first n events are handled depends on  *)
(* the last event about it: some events set it, some clear it.  Place 0    *)
(* of the sets stands for what holds before the first event.               *)

Wins(n, sets, clears) ==
  \E i \in 0 .. n : i \in sets /\ \A j \in i + 1 .. n : j \notin clears

\* Whether something is set depends only on the places up to n ...
LEMMA WinsSame ==
  ASSUME NEW n \in Nat, NEW A, NEW B, NEW C, NEW D,
         \A i \in 0 .. n : i \in A <=> i \in B,
         \A i \in 1 .. n : i \in C <=> i \in D
  PROVE  Wins(n, A, C) <=> Wins(n, B, D)
<1>1. \A i \in 0 .. n : \A j \in i + 1 .. n : j \in 1 .. n
  OBVIOUS
<1> QED
  BY <1>1 DEF Wins

\* ... one more place decides if it sets or clears ...
LEMMA WinsAppend ==
  ASSUME NEW n \in Nat, NEW A, NEW C
  PROVE  Wins(n + 1, A, C) <=> n + 1 \in A \/ (Wins(n, A, C) /\ n + 1 \notin C)
<1>1. /\ \A i \in 0 .. n + 1 : i \in 0 .. n \/ i = n + 1
      /\ \A i \in 0 .. n : i \in 0 .. n + 1 /\ n + 1 \in i + 1 .. n + 1
      /\ \A i \in 0 .. n : \A j \in i + 1 .. n : j \in i + 1 .. n + 1
      /\ \A i \in 0 .. n : \A j \in i + 1 .. n + 1 : j \in i + 1 .. n \/ j = n + 1
      /\ n + 1 \in 0 .. n + 1 /\ \A j \in n + 1 + 1 .. n + 1 : FALSE
  OBVIOUS
<1>2. ASSUME Wins(n + 1, A, C), n + 1 \notin A PROVE Wins(n, A, C) /\ n + 1 \notin C
  <2>1. PICK i \in 0 .. n + 1 : i \in A /\ \A j \in i + 1 .. n + 1 : j \notin C
    BY <1>2 DEF Wins
  <2>2. i \in 0 .. n
    BY <1>1, <1>2, <2>1
  <2> QED
    BY <1>1, <2>1, <2>2 DEF Wins
<1>3. ASSUME n + 1 \in A PROVE Wins(n + 1, A, C)
  BY <1>1, <1>3 DEF Wins
<1>4. ASSUME Wins(n, A, C), n + 1 \notin C PROVE Wins(n + 1, A, C)
  <2>1. PICK i \in 0 .. n : i \in A /\ \A j \in i + 1 .. n : j \notin C
    BY <1>4 DEF Wins
  <2>2. i \in 0 .. n + 1 /\ \A j \in i + 1 .. n + 1 : j \notin C
    BY <1>1, <1>4, <2>1
  <2> QED
    BY <2>1, <2>2 DEF Wins
<1> QED
  BY <1>2, <1>3, <1>4

\* ... and the first place can be folded into what holds before it.
LEMMA WinsPop ==
  ASSUME NEW n \in Nat, NEW A, NEW B, NEW C, NEW D,
         \A i \in 1 .. n : (i \in B <=> i + 1 \in A) /\ (i \in D <=> i + 1 \in C),
         0 \in B <=> 1 \in A \/ (0 \in A /\ 1 \notin C)
  PROVE  Wins(n, B, D) <=> Wins(n + 1, A, C)
<1>1. ASSUME Wins(n, B, D) PROVE Wins(n + 1, A, C)
  <2>1. PICK i \in 0 .. n : i \in B /\ \A j \in i + 1 .. n : j \notin D
    BY <1>1 DEF Wins
  <2>2. ASSUME NEW j \in (i + 1) + 1 .. n + 1 PROVE j \notin C
    <3>1. j - 1 \in i + 1 .. n /\ j - 1 \in 1 .. n /\ (j - 1) + 1 = j
      OBVIOUS
    <3>2. j - 1 \notin D
      BY <2>1, <3>1
    <3>3. j - 1 \in D <=> (j - 1) + 1 \in C
      BY <3>1
    <3> QED
      BY <3>1, <3>2, <3>3
  <2>3. CASE i + 1 \in A
    <3>1. i + 1 \in 0 .. n + 1
      OBVIOUS
    <3> QED
      BY <2>2, <2>3, <3>1 DEF Wins
  <2>4. CASE i + 1 \notin A
    <3>1. i = 0
      BY <2>1, <2>4
    <3>2. 0 \in A /\ 1 \notin C
      BY <2>1, <2>4, <3>1
    <3>3. ASSUME NEW j \in 0 + 1 .. n + 1 PROVE j \notin C
      <4>1. j = 1 \/ j \in (i + 1) + 1 .. n + 1
        BY <3>1
      <4> QED
        BY <2>2, <3>2, <4>1
    <3>4. 0 \in 0 .. n + 1
      OBVIOUS
    <3> QED
      BY <3>2, <3>3, <3>4 DEF Wins
  <2> QED
    BY <2>3, <2>4
<1>2. ASSUME Wins(n + 1, A, C) PROVE Wins(n, B, D)
  <2>1. PICK i \in 0 .. n + 1 : i \in A /\ \A j \in i + 1 .. n + 1 : j \notin C
    BY <1>2 DEF Wins
  <2>2. PICK k \in 0 .. n : k \in B /\ \A j \in k + 1 .. n : j + 1 \in i + 1 .. n + 1
    <3>1. CASE i = 0
      <4>1. 1 \in i + 1 .. n + 1
        BY <3>1
      <4>2. 0 \in B
        BY <2>1, <3>1, <4>1
      <4>3. 0 \in 0 .. n /\ \A j \in 0 + 1 .. n : j + 1 \in i + 1 .. n + 1
        BY <3>1
      <4> QED
        BY <4>2, <4>3
    <3>2. CASE i = 1
      <4>1. 0 \in B
        BY <2>1, <3>2
      <4>2. 0 \in 0 .. n /\ \A j \in 0 + 1 .. n : j + 1 \in i + 1 .. n + 1
        BY <3>2
      <4> QED
        BY <4>1, <4>2
    <3>3. CASE i # 0 /\ i # 1
      <4>1. i - 1 \in 1 .. n /\ (i - 1) + 1 = i
        BY <3>3
      <4>2. i - 1 \in B <=> (i - 1) + 1 \in A
        BY <4>1
      <4>3. i - 1 \in B
        BY <2>1, <4>1, <4>2
      <4>4. i - 1 \in 0 .. n /\ \A j \in (i - 1) + 1 .. n : j + 1 \in i + 1 .. n + 1
        BY <4>1
      <4> QED
        BY <4>3, <4>4
    <3> QED
      BY <3>1, <3>2, <3>3
  <2>3. ASSUME NEW j \in k + 1 .. n PROVE j \notin D
    <3>1. j \in 1 .. n
      OBVIOUS
    <3>2. j + 1 \notin C
      BY <2>1, <2>2
    <3>3. j \in D <=> j + 1 \in C
      BY <3>1
    <3> QED
      BY <3>2, <3>3
  <2> QED
    BY <2>2, <2>3 DEF Wins
<1> QED
  BY <1>1, <1>2

\* The places of q that map w, that unmap it, that focus it, and that take the
\* focus from it; W is what is managed and f what is focused before.
Maps(q, W, w) ==
  {i \in 0 .. Len(q) : IF i = 0 THEN w \in W ELSE q[i].kind = "Mapped" /\ q[i].window = w}

Unmaps(q, w) == {i \in 1 .. Len(q) : q[i].kind = "Unmapped" /\ q[i].window = w}

Focuses(q, f, w) ==
  {i \in 0 .. Len(q) : IF i = 0 THEN f = w ELSE q[i].kind = "Focused" /\ q[i].window = w}

Disturbs(q, w) ==
  {i \in 1 .. Len(q) : \/ q[i].kind = "Focused" /\ q[i].window # w
                       \/ q[i].kind = "Unmapped" /\ q[i].window = w}

\* w is managed, is focused, once the first n events of q are handled.
ManagedIn(q, W, n, w) == Wins(n, Maps(q, W, w), Unmaps(q, w))

FocusedIn(q, f, n, w) == Wins(n, Focuses(q, f, w), Disturbs(q, w))

WindowsAfter(W, e) ==
  IF e.kind = "Mapped" THEN W \cup {e.window}
  ELSE IF e.kind = "Unmapped" THEN W \ {e.window} ELSE W

FocusAfter(f, e) ==
  IF e.kind = "Focused" THEN e.window
  ELSE IF e.kind = "Unmapped" /\ f = e.window THEN NoWindow ELSE f

\* This is what the properties call managed.
LEMMA ManagedMeans ==
  ASSUME NEW q \in Seq(Event), NEW W, NEW w, NEW n \in 0 .. Len(q)
  PROVE  ManagedIn(q, W, n, w) <=>
           \/ w \in W /\ \A j \in 1 .. n : ~(q[j].kind = "Unmapped" /\ q[j].window = w)
           \/ \E i \in 1 .. n :
                /\ q[i].kind = "Mapped" /\ q[i].window = w
                /\ \A j \in i + 1 .. n : ~(q[j].kind = "Unmapped" /\ q[j].window = w)
<1> DEFINE l == Len(q)
           A == Maps(q, W, w)
           C == Unmaps(q, w)
           gone(j) == q[j].kind = "Unmapped" /\ q[j].window = w
<1>1. l \in Nat /\ n \in 0 .. l
  OBVIOUS
<1>2. /\ 0 \in A <=> w \in W
      /\ \A i \in 1 .. l : i \in A <=> q[i].kind = "Mapped" /\ q[i].window = w
      /\ \A j \in 1 .. l : j \in C <=> gone(j)
  BY <1>1 DEF Maps, Unmaps
<1> HIDE DEF l, A, C, gone
<1>3. \A i \in 0 .. n : /\ i = 0 \/ i \in 1 .. n
                        /\ \A j \in i + 1 .. n : j \in 1 .. l
  BY <1>1
<1>4. \A i \in 1 .. n : i \in 0 .. n /\ i \in 1 .. l
  BY <1>1
<1>5. 0 \in 0 .. n /\ 1 .. n = 0 + 1 .. n
  BY <1>1
<1>6. ASSUME Wins(n, A, C)
      PROVE  \/ w \in W /\ \A j \in 1 .. n : ~gone(j)
             \/ \E i \in 1 .. n : /\ q[i].kind = "Mapped" /\ q[i].window = w
                                  /\ \A j \in i + 1 .. n : ~gone(j)
  <2>1. PICK i \in 0 .. n : i \in A /\ \A j \in i + 1 .. n : j \notin C
    BY <1>6 DEF Wins
  <2>2. \A j \in i + 1 .. n : ~gone(j)
    BY <1>2, <1>3, <2>1
  <2>3. CASE i = 0
    BY <1>2, <1>5, <2>1, <2>2, <2>3
  <2>4. CASE i # 0
    BY <1>2, <1>3, <1>4, <2>1, <2>2, <2>4
  <2> QED
    BY <2>3, <2>4
<1>7. ASSUME w \in W, \A j \in 1 .. n : ~gone(j)
      PROVE  Wins(n, A, C)
  BY <1>2, <1>4, <1>5, <1>7 DEF Wins
<1>8. ASSUME NEW i \in 1 .. n, q[i].kind = "Mapped", q[i].window = w,
             \A j \in i + 1 .. n : ~gone(j)
      PROVE  Wins(n, A, C)
  <2>1. i \in 0 .. n /\ i \in A /\ \A j \in i + 1 .. n : j \notin C
    BY <1>2, <1>3, <1>4, <1>8
  <2> QED
    BY <2>1 DEF Wins
<1> QED
  BY <1>6, <1>7, <1>8 DEF ManagedIn, A, C, gone

\* An event appended to the queue: nothing changes before it, after it what it
\* maps, unmaps or focuses does.
LEMMA AppendQueue ==
  ASSUME NEW q \in Seq(Event), NEW e \in Event, NEW W, NEW f, NEW w
  PROVE  LET p == Append(q, e)
             n == Len(q)
         IN  /\ p \in Seq(Event) /\ Len(p) = n + 1 /\ n \in Nat
             /\ \A i \in 1 .. n : p[i] = q[i]
             /\ p[n + 1] = e
             /\ \A m \in 0 .. n : ManagedIn(p, W, m, w) <=> ManagedIn(q, W, m, w)
             /\ ManagedIn(p, W, n + 1, w) <=>
                  \/ e.kind = "Mapped" /\ e.window = w
                  \/ ManagedIn(q, W, n, w) /\ ~(e.kind = "Unmapped" /\ e.window = w)
             /\ FocusedIn(p, f, n + 1, w) <=>
                  \/ e.kind = "Focused" /\ e.window = w
                  \/ FocusedIn(q, f, n, w) /\ ~(\/ e.kind = "Focused" /\ e.window # w
                                                \/ e.kind = "Unmapped" /\ e.window = w)
<1> DEFINE p == Append(q, e)
           n == Len(q)
<1>1. /\ p \in Seq(Event) /\ n \in Nat /\ Len(p) = n + 1 /\ p[n + 1] = e
      /\ \A j \in 1 .. n : p[j] = q[j]
  OBVIOUS
<1> HIDE DEF p
<1>2. /\ \A i \in 0 .. n : i \in Maps(p, W, w) <=> i \in Maps(q, W, w)
      /\ \A i \in 0 .. n : i \in Focuses(p, f, w) <=> i \in Focuses(q, f, w)
      /\ \A i \in 1 .. n : i \in Unmaps(p, w) <=> i \in Unmaps(q, w)
      /\ \A i \in 1 .. n : i \in Disturbs(p, w) <=> i \in Disturbs(q, w)
  <2>1. \A i \in 0 .. n : i \in 0 .. n + 1 /\ (i # 0 => i \in 1 .. n)
    BY <1>1
  <2>2. \A i \in 1 .. n : i \in 1 .. n + 1
    BY <1>1
  <2> QED
    BY <1>1, <2>1, <2>2 DEF Maps, Focuses, Unmaps, Disturbs
<1>3. /\ n + 1 \in Maps(p, W, w) <=> e.kind = "Mapped" /\ e.window = w
      /\ n + 1 \in Focuses(p, f, w) <=> e.kind = "Focused" /\ e.window = w
      /\ n + 1 \in Unmaps(p, w) <=> e.kind = "Unmapped" /\ e.window = w
      /\ n + 1 \in Disturbs(p, w) <=> \/ e.kind = "Focused" /\ e.window # w
                                      \/ e.kind = "Unmapped" /\ e.window = w
  <2>1. n + 1 \in 0 .. n + 1 /\ n + 1 \in 1 .. n + 1 /\ n + 1 # 0
    BY <1>1
  <2> QED
    BY <1>1, <2>1 DEF Maps, Focuses, Unmaps, Disturbs
<1>4. ASSUME NEW m \in 0 .. n PROVE ManagedIn(p, W, m, w) <=> ManagedIn(q, W, m, w)
  <2>1. /\ m \in Nat
        /\ \A i \in 0 .. m : i \in Maps(p, W, w) <=> i \in Maps(q, W, w)
        /\ \A i \in 1 .. m : i \in Unmaps(p, w) <=> i \in Unmaps(q, w)
    BY <1>1, <1>2
  <2> QED
    BY <2>1, WinsSame DEF ManagedIn
<1>5. FocusedIn(p, f, n, w) <=> FocusedIn(q, f, n, w)
  BY <1>1, <1>2, WinsSame DEF FocusedIn
<1>6. ManagedIn(p, W, n + 1, w) <=>
        \/ e.kind = "Mapped" /\ e.window = w
        \/ ManagedIn(p, W, n, w) /\ ~(e.kind = "Unmapped" /\ e.window = w)
  BY <1>1, <1>3, WinsAppend DEF ManagedIn
<1>7. FocusedIn(p, f, n + 1, w) <=>
        \/ e.kind = "Focused" /\ e.window = w
        \/ FocusedIn(p, f, n, w) /\ ~(\/ e.kind = "Focused" /\ e.window # w
                                      \/ e.kind = "Unmapped" /\ e.window = w)
  BY <1>1, <1>3, WinsAppend DEF FocusedIn
<1>8. n \in 0 .. n
  BY <1>1
<1> QED
  BY <1>1, <1>4, <1>5, <1>6, <1>7, <1>8 DEF p

\* The oldest event handled: what the rest of the queue makes of the new core is
\* what the whole queue made of the old one.
LEMMA PopQueue ==
  ASSUME NEW q \in Seq(Event), q # <<>>, NEW W, NEW f, NEW w \in Window
  PROVE  LET e == Head(q)
             p == Tail(q)
             n == Len(p)
         IN  /\ p \in Seq(Event) /\ n \in Nat /\ Len(q) = n + 1 /\ e \in Event
             /\ \A i \in 1 .. n : p[i] = q[i + 1]
             /\ \A m \in 0 .. n :
                  ManagedIn(p, WindowsAfter(W, e), m, w) <=> ManagedIn(q, W, m + 1, w)
             /\ FocusedIn(p, FocusAfter(f, e), n, w) <=> FocusedIn(q, f, n + 1, w)
<1> DEFINE e == Head(q)
           p == Tail(q)
           n == Len(p)
           W1 == WindowsAfter(W, e)
           f1 == FocusAfter(f, e)
<1>1. /\ p \in Seq(Event) /\ n \in Nat /\ Len(q) = n + 1 /\ q[1] = e /\ e \in Event
      /\ \A j \in 1 .. n : p[j] = q[j + 1]
  OBVIOUS
<1>2. /\ w \in W1 <=> \/ e.kind = "Mapped" /\ e.window = w
                      \/ w \in W /\ ~(e.kind = "Unmapped" /\ e.window = w)
      /\ f1 = w <=> \/ e.kind = "Focused" /\ e.window = w
                    \/ f = w /\ ~(\/ e.kind = "Focused" /\ e.window # w
                                  \/ e.kind = "Unmapped" /\ e.window = w)
  <2>1. w # NoWindow
    BY NestedAssumption
  <2> HIDE DEF e
  <2> QED
    BY <2>1 DEF WindowsAfter, FocusAfter
<1> HIDE DEF e, p, W1, f1
<1>3. ASSUME NEW i \in 1 .. n
      PROVE  /\ i \in Maps(p, W1, w) <=> i + 1 \in Maps(q, W, w)
             /\ i \in Focuses(p, f1, w) <=> i + 1 \in Focuses(q, f, w)
             /\ i \in Unmaps(p, w) <=> i + 1 \in Unmaps(q, w)
             /\ i \in Disturbs(p, w) <=> i + 1 \in Disturbs(q, w)
  <2>1. /\ i \in 0 .. n /\ i + 1 \in 0 .. n + 1 /\ i + 1 \in 1 .. n + 1 /\ i # 0 /\ i + 1 # 0
        /\ p[i] = q[i + 1]
    BY <1>1
  <2> QED
    BY <1>1, <2>1 DEF Maps, Focuses, Unmaps, Disturbs
<1>4. /\ 0 \in Maps(p, W1, w) <=> w \in W1
      /\ 0 \in Maps(q, W, w) <=> w \in W
      /\ 1 \in Maps(q, W, w) <=> e.kind = "Mapped" /\ e.window = w
      /\ 1 \in Unmaps(q, w) <=> e.kind = "Unmapped" /\ e.window = w
  <2>1. 0 \in 0 .. n /\ 0 \in 0 .. n + 1 /\ 1 \in 0 .. n + 1 /\ 1 \in 1 .. n + 1
    BY <1>1
  <2> QED
    BY <1>1, <2>1 DEF Maps, Unmaps
<1>5. /\ 0 \in Focuses(p, f1, w) <=> f1 = w
      /\ 0 \in Focuses(q, f, w) <=> f = w
      /\ 1 \in Focuses(q, f, w) <=> e.kind = "Focused" /\ e.window = w
      /\ 1 \in Disturbs(q, w) <=> \/ e.kind = "Focused" /\ e.window # w
                                  \/ e.kind = "Unmapped" /\ e.window = w
  <2>1. 0 \in 0 .. n /\ 0 \in 0 .. n + 1 /\ 1 \in 0 .. n + 1 /\ 1 \in 1 .. n + 1
    BY <1>1
  <2> QED
    BY <1>1, <2>1 DEF Focuses, Disturbs
<1>6. ASSUME NEW m \in 0 .. n
      PROVE  ManagedIn(p, W1, m, w) <=> ManagedIn(q, W, m + 1, w)
  <2>1. /\ m \in Nat
        /\ \A i \in 1 .. m : i \in 1 .. n
    BY <1>1
  <2> QED
    BY <1>2, <1>3, <1>4, <2>1, WinsPop DEF ManagedIn
<1>7. FocusedIn(p, f1, n, w) <=> FocusedIn(q, f, n + 1, w)
  BY <1>1, <1>2, <1>3, <1>5, WinsPop DEF FocusedIn
<1> QED
  BY <1>1, <1>6, <1>7 DEF e, p, W1, f1

\* Only managed windows are focused by an event.
Sound(q, W) ==
  \A i \in 1 .. Len(q) : q[i].kind = "Focused" => ManagedIn(q, W, i - 1, q[i].window)

Expected(w) == ManagedIn(events, windows, Len(events), w)

HasFocus(w) == FocusedIn(events, focused[active], Len(events), w)

HasKeyboard(w) == keyboard # NoSurface /\ WindowFor(keyboard) = w

\* The core will manage the mapped toplevels and nothing that is destroyed, and
\* will have focused the window that has the keyboard.
EventsInv ==
  /\ \A w \in Window : states[w] = "Mapped" => Expected(w)
  /\ \A w \in Window : Expected(w) => states[w] # "None" /\ (HasFocus(w) <=> HasKeyboard(w))
  /\ Sound(events, windows)

\* Managed, as the properties say it, is what the queue makes of the core.
LEMMA ExpectedIsManaged ==
  ASSUME events \in Seq(Event), NEW w
  PROVE  Managed(w) <=> Expected(w)
<1>1. Len(events) \in 0 .. Len(events)
  OBVIOUS
<1>2. ManagedIn(events, windows, Len(events), w) <=>
        \/ w \in windows /\ \A j \in 1 .. Len(events) :
             ~(events[j].kind = "Unmapped" /\ events[j].window = w)
        \/ \E i \in 1 .. Len(events) :
             /\ events[i].kind = "Mapped" /\ events[i].window = w
             /\ \A j \in i + 1 .. Len(events) :
                  ~(events[j].kind = "Unmapped" /\ events[j].window = w)
  BY <1>1, ManagedMeans
<1> QED
  BY <1>2 DEF Expected, Managed, ManagedAfter, Announces

\* Without queued events, the core is up to date.
LEMMA NothingQueued ==
  ASSUME events = <<>>, NEW w \in Window
  PROVE  /\ Expected(w) <=> w \in windows
         /\ HasFocus(w) <=> focused[active] = w
<1>1. events \in Seq(Event) /\ Len(events) = 0 /\ 0 .. 0 = {0} /\ \A j \in 0 + 1 .. 0 : FALSE
  OBVIOUS
<1>2. /\ 0 \in Maps(events, windows, w) <=> w \in windows
      /\ 0 \in Focuses(events, focused[active], w) <=> focused[active] = w
  BY <1>1 DEF Maps, Focuses
<1> QED
  BY <1>1, <1>2 DEF Expected, HasFocus, ManagedIn, FocusedIn, Wins

\* The core knows the window of a focus event it is about to handle, so
\* window_focused cannot fail with UnknownWindow.
LEMMA FirstIsManaged ==
  ASSUME NEW q \in Seq(Event), q # <<>>, NEW W, Sound(q, W), Head(q).kind = "Focused"
  PROVE  Head(q).window \in W
<1>1. 1 \in 1 .. Len(q) /\ Head(q) = q[1] /\ 1 - 1 = 0 /\ 0 .. 0 = {0} /\ 0 \in 0 .. Len(q)
  OBVIOUS
<1>2. ManagedIn(q, W, 0, q[1].window)
  BY <1>1 DEF Sound
<1>3. 0 \in Maps(q, W, q[1].window)
  BY <1>1, <1>2 DEF ManagedIn, Wins
<1> QED
  BY <1>1, <1>3 DEF Maps

\* A focus event is queued only for a window the queue will have mapped ...
LEMMA SoundAppend ==
  ASSUME NEW q \in Seq(Event), NEW W, Sound(q, W), NEW e \in Event,
         e.kind = "Focused" => ManagedIn(q, W, Len(q), e.window)
  PROVE  Sound(Append(q, e), W)
<1> DEFINE p == Append(q, e)
           n == Len(q)
<1>1. /\ n \in Nat /\ Len(p) = n + 1 /\ p[n + 1] = e /\ \A i \in 1 .. n : p[i] = q[i]
      /\ \A m \in 0 .. n : \A w : ManagedIn(p, W, m, w) <=> ManagedIn(q, W, m, w)
  BY AppendQueue
<1> HIDE DEF p, n
<1>2. ASSUME NEW i \in 1 .. n + 1, p[i].kind = "Focused"
      PROVE  ManagedIn(p, W, i - 1, p[i].window)
  <2>1. CASE i = n + 1
    <3>1. i - 1 = n /\ n \in 0 .. n
      BY <1>1, <2>1
    <3>2. ManagedIn(q, W, n, e.window)
      BY <1>1, <1>2, <2>1 DEF n
    <3> QED
      BY <1>1, <2>1, <3>1, <3>2
  <2>2. CASE i # n + 1
    <3>1. i \in 1 .. n /\ i - 1 \in 0 .. n /\ p[i] = q[i]
      BY <1>1, <2>2
    <3>2. ManagedIn(q, W, i - 1, q[i].window)
      BY <1>2, <3>1 DEF Sound, n
    <3> QED
      BY <1>1, <3>1, <3>2
  <2> QED
    BY <2>1, <2>2
<1> QED
  BY <1>1, <1>2 DEF Sound, p

\* ... and handling the oldest event keeps that so.
LEMMA SoundPop ==
  ASSUME NEW q \in Seq(Event), q # <<>>, NEW W, Sound(q, W)
  PROVE  Sound(Tail(q), WindowsAfter(W, Head(q)))
<1> DEFINE p == Tail(q)
           n == Len(p)
           W1 == WindowsAfter(W, Head(q))
<1>1. /\ p \in Seq(Event) /\ n \in Nat /\ Len(q) = n + 1
      /\ \A i \in 1 .. n : p[i] = q[i + 1]
  OBVIOUS
<1>2. \A w \in Window, m \in 0 .. n : ManagedIn(p, W1, m, w) <=> ManagedIn(q, W, m + 1, w)
  BY PopQueue
<1> HIDE DEF p, W1
<1>3. ASSUME NEW i \in 1 .. n, p[i].kind = "Focused"
      PROVE  ManagedIn(p, W1, i - 1, p[i].window)
  <2>1. i - 1 \in 0 .. n /\ (i - 1) + 1 = (i + 1) - 1 /\ i + 1 \in 1 .. n + 1 /\ p[i] = q[i + 1]
    BY <1>1
  <2>2. p[i] \in Event
    BY <1>1
  <2>3. p[i].window \in Window
    BY <1>3, <2>2 DEF Event
  <2>4. ManagedIn(q, W, (i + 1) - 1, q[i + 1].window)
    BY <1>1, <1>3, <2>1 DEF Sound
  <2> QED
    BY <1>2, <2>1, <2>3, <2>4
<1> QED
  BY <1>3 DEF Sound, p, W1

\* Steps that keep queue, core and keyboard.
LEMMA QuietEvents ==
  ASSUME EventsInv, LifecycleKept, UNCHANGED <<events, keyboard>>,
         windows' = windows, focused'[active'] = focused[active]
  PROVE  EventsInv'
<1>1. \A w \in Window : /\ Expected(w)' <=> Expected(w)
                        /\ HasFocus(w)' <=> HasFocus(w)
                        /\ HasKeyboard(w)' <=> HasKeyboard(w)
  BY DEF Expected, HasFocus, HasKeyboard, WindowFor, LifecycleKept
<1>2. Sound(events, windows)'
  BY DEF EventsInv
<1> QED
  BY <1>1, <1>2 DEF EventsInv, LifecycleKept

\* The core handles the oldest event.
LEMMA PopEvents ==
  ASSUME EventsInv, events \in Seq(Event), events # <<>>, events' = Tail(events),
         UNCHANGED <<states, window_of, keyboard>>,
         windows' = WindowsAfter(windows, Head(events)),
         focused'[active'] = FocusAfter(focused[active], Head(events))
  PROVE  EventsInv'
<1>1. Len(events') \in 0 .. Len(events') /\ Len(events) = Len(events') + 1
  OBVIOUS
<1>2. ASSUME NEW w \in Window
      PROVE  /\ Expected(w)' <=> Expected(w)
             /\ HasFocus(w)' <=> HasFocus(w)
             /\ HasKeyboard(w)' <=> HasKeyboard(w)
  <2>1. ManagedIn(Tail(events), WindowsAfter(windows, Head(events)), Len(Tail(events)), w)
          <=> ManagedIn(events, windows, Len(Tail(events)) + 1, w)
    BY <1>1, PopQueue
  <2>2. FocusedIn(Tail(events), FocusAfter(focused[active], Head(events)), Len(Tail(events)), w)
          <=> FocusedIn(events, focused[active], Len(Tail(events)) + 1, w)
    BY PopQueue
  <2>3. HasKeyboard(w)' <=> HasKeyboard(w)
    BY DEF HasKeyboard, WindowFor
  <2> QED
    BY <1>1, <2>1, <2>2, <2>3 DEF Expected, HasFocus
<1>3. Sound(events, windows)'
  BY SoundPop DEF EventsInv
<1> QED
  BY <1>2, <1>3 DEF EventsInv

-----------------------------------------------------------------------------
(* The steps of the whole.                                                 *)

IInv == ServerInv /\ CoreInv /\ EventsInv /\ PhaseInv

\* Steps of the loop and of the host that only move the phase or the queue.
LEMMA LoopServer ==
  ASSUME ServerInv, outgoing = {}, events' \in Seq(Event), phase' \in Phase,
         keyboard' \in Surface \cup {NoSurface},
         UNCHANGED <<xdgVars, paintVars, clientVars, window_of, next_window, outgoing>>
  PROVE  ServerInv' /\ LifecycleKept
<1>1. ToplevelsInv' /\ HandshakeInv' /\ Xdg!XdgTypeOK' /\ LifecycleKept
  BY QuietServer DEF clientVars
<1>2. ServerTypeOK'
  BY <1>1 DEF ServerInv, ServerTypeOK, paintVars, clientVars
<1>3. SendInv'
  BY DEF SendInv
<1> QED
  BY <1>1, <1>2, <1>3 DEF ServerInv

\* Steps that only move the phase.
LEMMA PhaseStep ==
  ASSUME IInv, outgoing = {}, phase # "relayout", phase' \in Phase,
         UNCHANGED <<coreVars, xdgVars, paintVars, clientVars, window_of, next_window,
                     events, keyboard, outgoing>>,
         phase' \in {"services", "sync", "resize", "frame"} => events = <<>>,
         phase' = "input" => FALSE,
         phase' \in {"resize", "frame"} => phase = "resize"
  PROVE  IInv'
<1>1. ServerInv' /\ LifecycleKept
  BY LoopServer DEF IInv, ServerInv, ServerTypeOK
<1>2. CoreInv'
  BY QuietCore DEF IInv
<1>3. EventsInv'
  BY <1>1, QuietEvents DEF IInv, coreVars
<1>4. PhaseInv'
  BY DEF IInv, PhaseInv, coreVars, paintVars
<1> QED
  BY <1>1, <1>2, <1>3, <1>4 DEF IInv

\* The loop goes from one of its parts to the next.
LEMMA PhaseStepsPreserve ==
  ASSUME IInv, InputDone \/ RetryDone \/ EventsDone \/ ResizeDone
  PROVE  IInv'
<1>1. CASE InputDone
  <2>1. outgoing = {}
    BY <1>1 DEF InputDone, IInv, ServerInv, SendInv
  <2> QED
    BY <1>1, <2>1, PhaseStep DEF InputDone, Phase
<1>2. CASE RetryDone
  BY <1>2, PhaseStep DEF RetryDone, Phase
<1>3. CASE EventsDone
  <2>1. outgoing = {}
    BY <1>3 DEF EventsDone, IInv, ServerInv, SendInv
  <2> QED
    BY <1>3, <2>1, PhaseStep DEF EventsDone, Phase
<1>4. CASE ResizeDone
  <2>1. events = <<>>
    BY <1>4 DEF ResizeDone, IInv, PhaseInv
  <2> QED
    BY <1>4, <2>1, PhaseStep DEF ResizeDone, Phase
<1> QED
  BY <1>1, <1>2, <1>3, <1>4

\* A queue of host input and focus changes keeps what is managed.
LEMMA InputKeepsManaged ==
  ASSUME NEW q \in Seq(Event), NEW W, NEW w \in W,
         \A i \in 1 .. Len(q) : q[i].kind # "Unmapped"
  PROVE  ManagedIn(q, W, Len(q), w)
<1>1. /\ 0 \in 0 .. Len(q) /\ 0 \in Maps(q, W, w)
      /\ \A j \in 0 + 1 .. Len(q) : j \notin Unmaps(q, w)
  BY DEF Maps, Unmaps
<1> QED
  BY <1>1 DEF ManagedIn, Wins

\* One more event is queued: what it changes for each window.
LEMMA OneMore ==
  ASSUME events \in Seq(Event), NEW e \in Event, NEW w, events' = Append(events, e),
         windows' = windows, focused'[active'] = focused[active]
  PROVE  /\ events' \in Seq(Event)
         /\ Expected(w)' <=> \/ e.kind = "Mapped" /\ e.window = w
                             \/ Expected(w) /\ ~(e.kind = "Unmapped" /\ e.window = w)
         /\ HasFocus(w)' <=>
              \/ e.kind = "Focused" /\ e.window = w
              \/ HasFocus(w) /\ ~(\/ e.kind = "Focused" /\ e.window # w
                                  \/ e.kind = "Unmapped" /\ e.window = w)
<1>1. Len(events') = Len(events) + 1
  OBVIOUS
<1>2. ManagedIn(Append(events, e), windows, Len(events) + 1, w) <=>
        \/ e.kind = "Mapped" /\ e.window = w
        \/ Expected(w) /\ ~(e.kind = "Unmapped" /\ e.window = w)
  BY AppendQueue DEF Expected
<1>3. FocusedIn(Append(events, e), focused[active], Len(events) + 1, w) <=>
        \/ e.kind = "Focused" /\ e.window = w
        \/ HasFocus(w) /\ ~(\/ e.kind = "Focused" /\ e.window # w
                            \/ e.kind = "Unmapped" /\ e.window = w)
  BY AppendQueue DEF HasFocus
<1> QED
  BY <1>1, <1>2, <1>3 DEF Expected, HasFocus

\* update_output queues an event about no window.
LEMMA HostResizedPreserves ==
  ASSUME IInv, HostResized
  PROVE  IInv'
<1> DEFINE e == [kind |-> "OutputAdded", window |-> NoWindow]
<1>1. /\ phase = "input" /\ phase' = "input" /\ events = <<>>
      /\ UNCHANGED <<coreVars, xdgVars, paintVars, clientVars, window_of, next_window,
                     keyboard, outgoing>>
      /\ events' = Append(events, e)
  BY DEF HostResized, Queued
<1>2. e \in Event /\ events \in Seq(Event) /\ e.kind = "OutputAdded"
  BY DEF IInv, ServerInv, ServerTypeOK, Event
<1> HIDE DEF e
<1>3. outgoing = {}
  BY <1>1 DEF IInv, ServerInv, SendInv
<1>4. events' \in Seq(Event) /\ Len(events') = 1 /\ events'[1] = e
  BY <1>1, <1>2
<1>5. ServerInv' /\ LifecycleKept
  BY <1>1, <1>3, <1>4, LoopServer DEF IInv, ServerInv, ServerTypeOK, Phase
<1>6. CoreInv'
  BY <1>1, QuietCore DEF IInv
<1>7. EventsInv'
  <2>1. windows' = windows /\ focused'[active'] = focused[active]
    BY <1>1 DEF coreVars
  <2>2. \A w \in Window : /\ Expected(w)' <=> Expected(w)
                          /\ HasFocus(w)' <=> HasFocus(w)
                          /\ HasKeyboard(w)' <=> HasKeyboard(w)
    <3> SUFFICES ASSUME NEW w \in Window
                 PROVE  /\ Expected(w)' <=> Expected(w)
                        /\ HasFocus(w)' <=> HasFocus(w)
                        /\ HasKeyboard(w)' <=> HasKeyboard(w)
      OBVIOUS
    <3>1. HasKeyboard(w)' <=> HasKeyboard(w)
      BY <1>1 DEF HasKeyboard, WindowFor
    <3> QED
      BY <1>1, <1>2, <2>1, <3>1, OneMore
  <2>3. Sound(events, windows)'
    BY <1>1, <1>2, <2>1, SoundAppend DEF IInv, EventsInv
  <2>4. states' = states
    BY <1>1 DEF xdgVars
  <2> QED
    BY <2>2, <2>3, <2>4 DEF IInv, EventsInv
<1>8. PhaseInv'
  BY <1>1, <1>2, <1>4 DEF IInv, PhaseInv, coreVars, paintVars
<1> QED
  BY <1>5, <1>6, <1>7, <1>8 DEF IInv

\* A press moves keyboard and, through the queue, focus to the same window.
LEMMA PointerPressPreserves ==
  ASSUME IInv, NEW w \in Window, PointerPress(w)
  PROVE  IInv'
<1>0. PICK s \in Surface : WindowFor(s) = w /\ ToplevelOf(w) = s
  BY ToplevelOfIsLive DEF PointerPress, IInv, ServerInv
<1> DEFINE e == [kind |-> "Focused", window |-> w]
<1>1. /\ phase = "input" /\ phase' = "input" /\ Contains(window_order, w)
      /\ UNCHANGED <<coreVars, xdgVars, paintVars, clientVars, window_of, next_window,
                     outgoing>>
      /\ keyboard' = s
      /\ events' = Append(events, e)
  BY <1>0 DEF PointerPress, Queued
<1>2. e \in Event /\ events \in Seq(Event) /\ e.kind = "Focused" /\ e.window = w
  BY DEF IInv, ServerInv, ServerTypeOK, Event
<1> HIDE DEF e
<1>3. outgoing = {}
  BY <1>1 DEF IInv, ServerInv, SendInv
<1>4. /\ events' \in Seq(Event) /\ Len(events') = Len(events) + 1
      /\ events'[Len(events) + 1] = e
      /\ \A i \in 1 .. Len(events) : events'[i] = events[i]
  BY <1>1, <1>2
<1>5. ServerInv' /\ LifecycleKept
  BY <1>1, <1>3, <1>4, LoopServer DEF IInv, ServerInv, Phase
<1>6. CoreInv'
  BY <1>1, QuietCore DEF IInv
<1>7. Expected(w)
  <2>1. w \in windows
    <3>1. /\ window_order = scene[active].order
          /\ CoreT!PaintOrder(scene[active]) /\ Core!Placed(scene[active]) \subseteq windows
      BY <1>1, CoreFacts DEF IInv, PhaseInv, CoreInv
    <3> QED
      BY <1>1, <3>1, SameScene DEF CoreT!PaintOrder, CoreT!OrderIsMapped, Contains
  <2>2. \A i \in 1 .. Len(events) : events[i].kind # "Unmapped"
    BY <1>1, <1>2 DEF IInv, PhaseInv
  <2> QED
    BY <1>2, <2>1, <2>2, InputKeepsManaged DEF Expected
<1>8. EventsInv'
  <2>1. windows' = windows /\ focused'[active'] = focused[active]
    BY <1>1 DEF coreVars
  <2>2. ASSUME NEW v \in Window
        PROVE  /\ Expected(v)' <=> Expected(v)
               /\ HasFocus(v)' <=> v = w
               /\ HasKeyboard(v)' <=> v = w
    <3>1. HasKeyboard(v)' <=> v = w
      BY <1>0, <1>1, NestedAssumption DEF HasKeyboard, WindowFor
    <3> QED
      BY <1>1, <1>2, <2>1, <3>1, OneMore
  <2>3. Sound(events, windows)'
    BY <1>1, <1>2, <1>7, <2>1, SoundAppend DEF IInv, EventsInv, Expected
  <2>4. states' = states
    BY <1>1 DEF xdgVars
  <2> QED
    BY <2>2, <2>3, <2>4 DEF IInv, EventsInv
<1>9. PhaseInv'
  <2>1. \A i \in DOMAIN events' : events'[i].kind \in {"Focused", "OutputAdded"}
    <3>1. \A i \in DOMAIN events' : i \in 1 .. Len(events) \/ i = Len(events) + 1
      BY <1>2, <1>4
    <3> QED
      BY <1>1, <1>2, <1>4, <3>1 DEF IInv, PhaseInv
  <2> QED
    BY <1>1, <2>1 DEF IInv, PhaseInv, coreVars, paintVars
<1> QED
  BY <1>5, <1>6, <1>8, <1>9 DEF IInv

\* Steps of the clients, of a dispatch's end and of configures on their way
\* neither reach the coordinator nor what is painted in a frame.
LEMMA ClientStep ==
  ASSUME IInv, ServerInv', EventsInv', UNCHANGED coreVars,
         phase = "clients" \/ UNCHANGED <<paintVars, events>>,
         phase' = phase \/ phase' = "retry", phase # "relayout"
  PROVE  IInv'
<1>1. CoreInv'
  BY QuietCore DEF IInv
<1>2. PhaseInv'
  BY DEF IInv, PhaseInv, coreVars, paintVars
<1> QED
  BY <1>1, <1>2 DEF IInv

\* new_toplevel: a window the queue says nothing of yet.
LEMMA NewToplevelPreserves ==
  ASSUME DistinctIds, IInv, NEW s \in Surface, NewToplevel(s)
  PROVE  IInv'
<1> DEFINE w == next_window
<1>1. /\ ServerInv'
      /\ WindowFor(s) = NoWindow /\ WindowFor(s)' = w
      /\ \A t \in Surface \ {s} : WindowFor(t)' = WindowFor(t)
      /\ w \in Window /\ states[w] = "None"
      /\ states' = [states EXCEPT ![w] = "AwaitingConfigure"]
  BY NewToplevelServer DEF IInv
<1>2. phase = "clients" /\ phase' = phase /\ UNCHANGED <<coreVars, events, keyboard>>
  BY DEF NewToplevel
<1>3. /\ states'[w] = "AwaitingConfigure"
      /\ \A v \in Window \ {w} : states'[v] = states[v]
  BY <1>1 DEF IInv, ServerInv, ServerTypeOK, Xdg!XdgTypeOK
<1>4. ASSUME NEW v \in Window
      PROVE  /\ Expected(v)' <=> Expected(v)
             /\ HasFocus(v)' <=> HasFocus(v)
             /\ v # w => (HasKeyboard(v)' <=> HasKeyboard(v))
  <2>1. (Expected(v)' <=> Expected(v)) /\ (HasFocus(v)' <=> HasFocus(v))
    BY <1>2 DEF Expected, HasFocus, coreVars
  <2>2. v # w => (HasKeyboard(v)' <=> HasKeyboard(v))
    BY <1>1, <1>2, NestedAssumption DEF HasKeyboard, IInv, ServerInv, ServerTypeOK
  <2> QED
    BY <2>1, <2>2
<1>5. ~Expected(w)
  BY <1>1 DEF IInv, EventsInv
<1>6. Sound(events, windows)'
  BY <1>2 DEF IInv, EventsInv, coreVars
<1>7. EventsInv'
  BY <1>3, <1>4, <1>5, <1>6 DEF IInv, EventsInv
<1> QED
  BY <1>1, <1>2, <1>7, ClientStep

\* ack_configure concerns client and ledger only.
LEMMA AckPreserves ==
  ASSUME IInv, NEW s \in Surface, NEW i \in DOMAIN inbox[s], Ack(s, i)
  PROVE  IInv'
<1>1. ServerInv' /\ LifecycleKept
  BY AckServer DEF IInv
<1>2. phase = "clients" /\ phase' = phase /\ UNCHANGED <<coreVars, events, keyboard>>
  BY DEF Ack
<1>3. EventsInv'
  BY <1>1, <1>2, QuietEvents DEF IInv, coreVars
<1> QED
  BY <1>1, <1>2, <1>3, ClientStep

\* A toplevel that maps is announced, focused, and given the keyboard.
LEMMA CommitBufferPreserves ==
  ASSUME IInv, NEW s \in Surface, CommitBuffer(s)
  PROVE  IInv'
<1>0. PICK w \in Window : w = WindowFor(s) /\ w # NoWindow
                         /\ \A t \in Surface \ {s} : WindowFor(t) # w
  BY LiveWindow DEF CommitBuffer, IInv
<1>1. /\ phase = "clients" /\ phase' = phase /\ UNCHANGED <<coreVars, window_of>>
      /\ IF states[w] = "ReadyToCommit"
           THEN Xdg!Commit(w) /\ keyboard' = s /\ events' = events \o AnnounceMap(w)
           ELSE UNCHANGED <<xdgVars, keyboard, events>>
  BY <1>0 DEF CommitBuffer
<1>2. ServerInv'
  BY CommitBufferServer DEF IInv
<1>3. windows' = windows /\ focused'[active'] = focused[active]
  BY <1>1 DEF coreVars
<1>4. EventsInv'
  <2>1. CASE states[w] # "ReadyToCommit"
    <3>1. LifecycleKept /\ UNCHANGED <<events, keyboard>>
      BY <1>1, <2>1 DEF LifecycleKept, xdgVars
    <3> QED
      BY <1>3, <3>1, QuietEvents DEF IInv
  <2>2. CASE states[w] = "ReadyToCommit"
    <3> DEFINE m == [kind |-> "Mapped", window |-> w]
               f == [kind |-> "Focused", window |-> w]
               q == Append(events, m)
               n == Len(events)
               now == focused[active]
    <3>1. /\ events \in Seq(Event) /\ n \in Nat /\ m \in Event /\ f \in Event
          /\ m.kind = "Mapped" /\ m.window = w /\ f.kind = "Focused" /\ f.window = w
          /\ q \in Seq(Event) /\ Len(q) = n + 1
      BY DEF IInv, ServerInv, ServerTypeOK, Event
    <3>2. events' = Append(q, f) /\ keyboard' = s
      <4>1. events \o AnnounceMap(w) = Append(q, f)
        BY <3>1 DEF AnnounceMap, Queued
      <4> QED
        BY <1>1, <2>2, <4>1
    <3>3. states'[w] = "Mapped" /\ \A v \in Window \ {w} : states'[v] = states[v]
      BY <1>1, <2>2 DEF Xdg!Commit, IInv, ServerInv, ServerTypeOK, Xdg!XdgTypeOK
    <3> HIDE DEF m, f, now
    <3>4. ASSUME NEW v \in Window
          PROVE  /\ ManagedIn(q, windows, n + 1, v) <=> v = w \/ Expected(v)
                 /\ Expected(v)' <=> v = w \/ Expected(v)
                 /\ HasFocus(v)' <=> v = w
      <4>1. ManagedIn(q, windows, n + 1, v) <=> v = w \/ Expected(v)
        BY <3>1, AppendQueue DEF Expected
      <4> HIDE DEF q, n
      <4>2. /\ Len(Append(q, f)) = Len(q) + 1
            /\ ManagedIn(Append(q, f), windows, Len(q) + 1, v) <=> ManagedIn(q, windows, Len(q), v)
        BY <3>1, AppendQueue
      <4>3. FocusedIn(Append(q, f), now, Len(q) + 1, v) <=>
              \/ f.kind = "Focused" /\ f.window = v
              \/ FocusedIn(q, now, Len(q), v) /\ ~(\/ f.kind = "Focused" /\ f.window # v
                                                   \/ f.kind = "Unmapped" /\ f.window = v)
        BY <3>1, AppendQueue, ZenonT(30)
      <4>4. FocusedIn(Append(q, f), now, Len(q) + 1, v) <=> v = w
        BY <3>1, <4>3
      <4>5. Len(q) = n + 1
        BY <3>1
      <4>6. /\ Expected(v)' <=> ManagedIn(Append(q, f), windows, Len(q) + 1, v)
            /\ HasFocus(v)' <=> FocusedIn(Append(q, f), now, Len(q) + 1, v)
        BY <1>3, <3>2, <4>2 DEF Expected, HasFocus, now
      <4> QED
        BY <4>1, <4>2, <4>4, <4>5, <4>6
    <3>5. Sound(events, windows)'
      <4>1. Sound(q, windows)
        BY <3>1, SoundAppend DEF IInv, EventsInv
      <4>2. ManagedIn(q, windows, Len(q), f.window)
        BY <3>1, <3>4
      <4>3. Sound(Append(q, f), windows)
        <5> HIDE DEF q
        <5> QED
          BY <3>1, <4>1, <4>2, SoundAppend
      <4> QED
        BY <1>3, <3>2, <4>3
    <3>6. \A v \in Window : HasKeyboard(v)' <=> v = w
      BY <1>0, <1>1, <3>2, NestedAssumption DEF HasKeyboard, WindowFor
    <3> QED
      BY <3>3, <3>4, <3>5, <3>6 DEF IInv, EventsInv
  <2> QED
    BY <2>1, <2>2
<1> QED
  BY <1>1, <1>2, <1>4, ClientStep

\* A window that is announced as gone loses focus and keyboard alike.
LEMMA GoneEvents ==
  ASSUME IInv, NEW w \in Window, events' = events \o Queued("Unmapped", w), UNCHANGED coreVars,
         states'[w] # "Mapped",
         \A v \in Window \ {w} : states'[v] = states[v] /\ (HasKeyboard(v)' <=> HasKeyboard(v))
  PROVE  EventsInv'
<1> DEFINE e == [kind |-> "Unmapped", window |-> w]
<1>1. /\ e \in Event /\ e.kind = "Unmapped" /\ e.window = w /\ events \in Seq(Event)
      /\ events' = Append(events, e)
  BY DEF IInv, ServerInv, ServerTypeOK, Event, Queued
<1>2. windows' = windows /\ focused'[active'] = focused[active]
  BY DEF coreVars
<1> HIDE DEF e
<1>3. \A v \in Window : /\ Expected(v)' <=> Expected(v) /\ v # w
                        /\ HasFocus(v)' <=> HasFocus(v) /\ v # w
  BY <1>1, <1>2, OneMore
<1>4. Sound(events, windows)'
  BY <1>1, <1>2, SoundAppend DEF IInv, EventsInv
<1> QED
  BY <1>3, <1>4 DEF IInv, EventsInv

\* A toplevel that loses its buffer is announced as unmapped and gives the
\* keyboard up with the focus.
LEMMA CommitNullPreserves ==
  ASSUME IInv, NEW s \in Surface, CommitNull(s)
  PROVE  IInv'
<1>1. ServerInv' /\ LifecycleKept
  BY CommitNullServer DEF IInv
<1>2. phase = "clients" /\ phase' = phase /\ UNCHANGED <<coreVars, window_of>>
      /\ Contains(toplevels, s)
  BY DEF CommitNull
<1> DEFINE w == WindowFor(s)
<1>3. w \in Window /\ w # NoWindow
  BY <1>2, LiveWindow DEF IInv
<1>4. EventsInv'
  <2>1. CASE states[w] = "Mapped"
    <3>1. /\ keyboard' = IF keyboard # NoSurface /\ WindowFor(keyboard) = w
                           THEN NoSurface ELSE keyboard
          /\ events' = events \o Queued("Unmapped", w)
          /\ states' = [states EXCEPT ![w] = "AwaitingConfigure"]
      BY <1>3, <2>1 DEF CommitNull, Xdg!Track
    <3>2. states'[w] # "Mapped" /\ \A v \in Window \ {w} : states'[v] = states[v]
      BY <1>3, <3>1 DEF IInv, ServerInv, ServerTypeOK, Xdg!XdgTypeOK
    <3>3. \A v \in Window \ {w} : HasKeyboard(v)' <=> HasKeyboard(v)
      BY <1>2, <3>1 DEF HasKeyboard, WindowFor
    <3> HIDE DEF w
    <3> QED
      BY <1>2, <1>3, <3>1, <3>2, <3>3, GoneEvents
  <2>2. CASE states[w] # "Mapped"
    <3>1. UNCHANGED <<events, keyboard>>
      BY <2>2 DEF CommitNull
    <3> QED
      BY <1>1, <1>2, <3>1, QuietEvents DEF IInv, coreVars
  <2> QED
    BY <2>1, <2>2
<1> QED
  BY <1>1, <1>2, <1>4, ClientStep

\* A destroyed toplevel keeps the keyboard on its surface, which is no window's
\* any more.
LEMMA DestroyPreserves ==
  ASSUME DistinctIds, IInv, NEW s \in Surface, DestroyToplevel(s)
  PROVE  IInv'
<1>0. PICK w \in Window : w = WindowFor(s) /\ w # NoWindow
                         /\ \A t \in Surface \ {s} : WindowFor(t) # w
  BY LiveWindow DEF DestroyToplevel, IInv
<1>1. /\ ServerInv'
      /\ WindowFor(s)' = NoWindow
      /\ \A t \in Surface \ {s} : WindowFor(t)' = WindowFor(t)
      /\ states' = [states EXCEPT ![w] = "None"]
  BY <1>0, DestroyServer DEF IInv
<1>2. /\ phase = "clients" /\ phase' = phase /\ UNCHANGED <<coreVars, keyboard>>
      /\ events' = events \o Queued("Unmapped", w)
  BY <1>0 DEF DestroyToplevel, AnnounceDestroy
<1>3. states'[w] = "None" /\ \A v \in Window \ {w} : states'[v] = states[v]
  BY <1>1 DEF IInv, ServerInv, ServerTypeOK, Xdg!XdgTypeOK
<1>4. \A v \in Window \ {w} : HasKeyboard(v)' <=> HasKeyboard(v)
  BY <1>0, <1>1, <1>2, NestedAssumption DEF HasKeyboard, IInv, ServerInv, ServerTypeOK
<1>5. EventsInv'
  BY <1>2, <1>3, <1>4, GoneEvents
<1> QED
  BY <1>1, <1>2, <1>5, ClientStep

\* Requests expire between dispatch and retry.
LEMMA DispatchDonePreserves ==
  ASSUME IInv, DispatchDone
  PROVE  IInv'
<1>1. ServerInv' /\ LifecycleKept
  BY DispatchServer DEF IInv
<1>2. phase = "clients" /\ phase' = "retry" /\ UNCHANGED <<coreVars, events, keyboard>>
  BY DEF DispatchDone
<1>3. EventsInv'
  BY <1>1, <1>2, QuietEvents DEF IInv, coreVars
<1> QED
  BY <1>1, <1>2, <1>3, ClientStep

\* A configure is sent again, or to a window the layout moved.
LEMMA SendPreserves ==
  ASSUME IInv, Retry \/ Reconfigure
  PROVE  IInv'
<1>1. PICK send \in outgoing, allowed \in BOOLEAN :
        /\ SendNext(send, allowed)
        /\ \/ phase = "retry" /\ allowed
           \/ phase = "resize" /\ (allowed <=> states[send.window] = "Mapped")
  <2>1. CASE Retry
    BY <2>1 DEF Retry
  <2>2. CASE Reconfigure
    <3>1. PICK send \in outgoing : SendNext(send, states[send.window] = "Mapped")
      BY <2>2 DEF Reconfigure
    <3>2. CASE states[send.window] = "Mapped"
      <4>1. SendNext(send, TRUE)
        BY <3>1, <3>2 DEF SendNext
      <4> QED
        BY <2>2, <3>2, <4>1 DEF Reconfigure
    <3>3. CASE states[send.window] # "Mapped"
      <4>1. SendNext(send, FALSE)
        BY <3>1, <3>3 DEF SendNext
      <4> QED
        BY <2>2, <3>3, <4>1 DEF Reconfigure
    <3> QED
      BY <3>2, <3>3
  <2> QED
    BY <2>1, <2>2
<1>2. ServerInv' /\ LifecycleKept
  BY <1>1, SendServer DEF IInv
<1>3. phase' = phase /\ phase # "relayout" /\ UNCHANGED <<coreVars, paintVars, events, keyboard>>
  BY <1>1 DEF SendNext
<1>4. EventsInv'
  BY <1>2, <1>3, QuietEvents DEF IInv, coreVars
<1> QED
  BY <1>2, <1>3, <1>4, ClientStep

\* One event is handled: server and painted windows wait.
LEMMA HandlePreserves ==
  ASSUME IInv, NEW kind, Handle(kind), phase' = phase \/ phase' = "relayout", CoreInv',
         windows' = WindowsAfter(windows, Head(events)),
         focused'[active'] = FocusAfter(focused[active], Head(events))
  PROVE  IInv'
<1>1. /\ phase = "events" /\ phase' \in {"events", "relayout"}
      /\ events # <<>> /\ events' = Tail(events)
      /\ UNCHANGED <<xdgVars, paintVars, clientVars, window_of, next_window, keyboard, outgoing>>
  BY DEF Handle
<1>2. events \in Seq(Event) /\ keyboard \in Surface \cup {NoSurface}
  BY DEF IInv, ServerInv, ServerTypeOK
<1>3. events' \in Seq(Event)
  BY <1>1, <1>2
<1>4. outgoing = {}
  BY <1>1 DEF IInv, ServerInv, SendInv
<1>5. ServerInv'
  BY <1>1, <1>2, <1>3, <1>4, LoopServer DEF IInv, Phase
<1>6. EventsInv'
  BY <1>1, <1>2, PopEvents DEF IInv, xdgVars
<1>7. PhaseInv'
  BY <1>1 DEF PhaseInv
<1> QED
  BY <1>5, <1>6, <1>7 DEF IInv

\* The event that is handled, and its window.
LEMMA HeadIsEvent ==
  ASSUME IInv, NEW kind, Handle(kind)
  PROVE  /\ phase = "events" /\ Head(events).kind = kind /\ Head(events) \in Event
         /\ events # <<>> /\ events \in Seq(Event)
         /\ kind # "OutputAdded" => Head(events).window \in Window /\ Head(events).window # NoWindow
<1>1. /\ phase = "events" /\ events # <<>> /\ Head(events).kind = kind /\ events \in Seq(Event)
  BY DEF Handle, IInv, ServerInv, ServerTypeOK
<1>2. Head(events) \in Event
  BY <1>1
<1> QED
  BY <1>1, <1>2, NestedAssumption DEF Event

\* WindowMapped: window_mapped or AlreadyMapped, either way managed after it.
LEMMA HandleMappedPreserves ==
  ASSUME IInv, HandleMapped
  PROVE  IInv'
<1> DEFINE e == Head(events)
           w == e.window
<1>1. Handle("Mapped")
  BY DEF HandleMapped
<1>2. /\ phase = "events" /\ e.kind = "Mapped" /\ w \in Window
  BY <1>1, HeadIsEvent, "Mapped" # "OutputAdded"
<1>3. FocusAfter(focused[active], e) = focused[active] /\ WindowsAfter(windows, e) = windows \cup {w}
  BY <1>2 DEF FocusAfter, WindowsAfter
<1>4. CASE w \in windows
  <2>1. UNCHANGED <<coreVars, phase>>
    BY <1>4 DEF HandleMapped
  <2>2. CoreInv'
    BY <1>2, <2>1, QuietCore DEF IInv
  <2>3. windows' = windows /\ focused'[active'] = focused[active] /\ windows \cup {w} = windows
    BY <1>4, <2>1 DEF coreVars
  <2> QED
    BY <1>1, <1>3, <2>1, <2>2, <2>3, HandlePreserves
<1>5. CASE w \notin windows
  <2>1. Core!WindowMapped(w) /\ phase' = "relayout"
    BY <1>5 DEF HandleMapped
  <2> HIDE DEF w
  <2>2. CoreInv' /\ windows' = windows \cup {w} /\ active' = active /\ focused' = focused
    BY <1>2, <2>1, MappedCore DEF IInv
  <2> QED
    BY <1>1, <1>3, <2>1, <2>2, HandlePreserves
<1> QED
  BY <1>4, <1>5

\* WindowFocused: always of a managed window.
LEMMA HandleFocusedPreserves ==
  ASSUME IInv, HandleFocused
  PROVE  IInv'
<1> DEFINE e == Head(events)
           w == e.window
<1>1. Handle("Focused") /\ UNCHANGED phase
  BY DEF HandleFocused
<1>2. /\ phase = "events" /\ e.kind = "Focused" /\ w \in Window
      /\ events # <<>> /\ events \in Seq(Event)
  BY <1>1, HeadIsEvent, "Focused" # "OutputAdded"
<1>3. FocusAfter(focused[active], e) = w /\ WindowsAfter(windows, e) = windows
  BY <1>2 DEF FocusAfter, WindowsAfter
<1>4. w \in windows
  BY <1>2, FirstIsManaged DEF IInv, EventsInv
<1>5. Core!WindowFocused(w)
  BY <1>4 DEF HandleFocused
<1> HIDE DEF w
<1>6. CoreInv' /\ windows' = windows /\ active' = active /\ focused'[active'] = w
  BY <1>2, <1>5, FocusedCore DEF IInv
<1> QED
  BY <1>1, <1>3, <1>6, HandlePreserves

\* WindowUnmapped: also of a window that never was mapped.
LEMMA HandleUnmappedPreserves ==
  ASSUME IInv, HandleUnmapped
  PROVE  IInv'
<1> DEFINE e == Head(events)
           w == e.window
<1>1. Handle("Unmapped") /\ UNCHANGED phase
  BY DEF HandleUnmapped
<1>2. /\ phase = "events" /\ e.kind = "Unmapped" /\ w \in Window /\ w # NoWindow
  BY <1>1, HeadIsEvent, "Unmapped" # "OutputAdded"
<1>3. /\ FocusAfter(focused[active], e) = IF focused[active] = w THEN NoWindow ELSE focused[active]
      /\ WindowsAfter(windows, e) = windows \ {w}
  BY <1>2 DEF FocusAfter, WindowsAfter
<1>4. CASE w \in windows
  <2>1. Core!WindowUnmapped(w)
    BY <1>4 DEF HandleUnmapped
  <2> HIDE DEF w
  <2>2. /\ CoreInv' /\ windows' = windows \ {w} /\ active' = active
        /\ focused'[active'] = IF focused[active] = w THEN NoWindow ELSE focused[active]
    BY <1>2, <2>1, UnmappedCore DEF IInv
  <2> QED
    BY <1>1, <1>3, <2>2, HandlePreserves
<1>5. CASE w \notin windows
  <2>1. UNCHANGED coreVars
    BY <1>5 DEF HandleUnmapped
  <2>2. CoreInv'
    BY <1>2, <2>1, QuietCore DEF IInv
  <2>3. focused[active] # w
    BY <1>2, <1>5, CoreFacts DEF IInv, CoreInv
  <2>4. windows' = windows \ {w} /\ focused'[active'] = focused[active]
    BY <1>5, <2>1 DEF coreVars
  <2> QED
    BY <1>1, <1>3, <2>2, <2>3, <2>4, HandlePreserves
<1> QED
  BY <1>4, <1>5

\* OutputAdded: the layout runs again.
LEMMA HandleOutputAddedPreserves ==
  ASSUME IInv, HandleOutputAdded
  PROVE  IInv'
<1> DEFINE e == Head(events)
<1>1. Handle("OutputAdded") /\ phase' = "relayout" /\ UNCHANGED coreVars
  BY DEF HandleOutputAdded
<1>2. phase = "events" /\ e.kind = "OutputAdded"
  BY <1>1, HeadIsEvent
<1>3. FocusAfter(focused[active], e) = focused[active] /\ WindowsAfter(windows, e) = windows
  BY <1>2 DEF FocusAfter, WindowsAfter
<1>4. CoreInv'
  BY <1>1, <1>2, QuietCore DEF IInv
<1>5. windows' = windows /\ focused'[active'] = focused[active]
  BY <1>1 DEF coreVars
<1> QED
  BY <1>1, <1>3, <1>4, <1>5, HandlePreserves

\* A layout run moves windows and nothing else.
LEMMA RunsPreserve ==
  ASSUME IInv, Relayout \/ Services
  PROVE  IInv'
<1>1. /\ \/ phase = "relayout" /\ phase' = "events"
         \/ phase = "services" /\ phase' = "sync"
      /\ UNCHANGED <<xdgVars, paintVars, clientVars, window_of, next_window, events,
                     keyboard, outgoing>>
  BY DEF Relayout, Services
<1>2. CoreInv' /\ windows' = windows /\ active' = active /\ focused' = focused
  <2>1. CASE Core!RunProvider(TheLayout) \/ Core!RunRecovery(TheLayout)
    BY <2>1, RunCore DEF IInv
  <2>2. CASE phase = "services" /\ UNCHANGED coreVars
    <3>1. CoreInv'
      BY <2>2, QuietCore DEF IInv
    <3> QED
      BY <2>2, <3>1 DEF coreVars
  <2> QED
    BY <2>1, <2>2 DEF Relayout, Services
<1>3. outgoing = {}
  BY <1>1 DEF IInv, ServerInv, SendInv
<1>4. ServerInv' /\ LifecycleKept
  BY <1>1, <1>3, LoopServer DEF IInv, ServerInv, ServerTypeOK, Phase
<1>5. EventsInv'
  BY <1>1, <1>2, <1>4, QuietEvents DEF IInv
<1>6. PhaseInv'
  BY <1>1 DEF IInv, PhaseInv
<1> QED
  BY <1>2, <1>4, <1>5, <1>6 DEF IInv

\* The scene is copied: it places exactly the managed windows.
LEMMA SynchronizePreserves ==
  ASSUME IInv, Synchronize
  PROVE  IInv'
<1> DEFINE here == scene[active]
<1>1. /\ phase = "sync" /\ phase' = "resize"
      /\ window_geometry' = here.rects /\ window_order' = here.order
      /\ focused_window' = focused[active]
      /\ outgoing' = {[window |-> w, geometry |-> here.rects[w]] :
                        w \in {v \in ToSet(here.order) : window_geometry[v] # here.rects[v]}}
      /\ UNCHANGED <<coreVars, xdgVars, clientVars, window_of, next_window, events, keyboard>>
  BY DEF Synchronize
<1>2. /\ here.rects \in [Window -> Rect \cup {NoRect}] /\ here.order \in Seq(Window)
      /\ focused[active] \in Window \cup {NoWindow}
      /\ \A w \in ToSet(here.order) : w \in Window /\ here.rects[w] \in Rect
  <2>1. /\ here \in CoreT!SceneState /\ CoreT!PaintOrder(here)
        /\ focused[active] \in Window \cup {NoWindow}
    BY CoreFacts DEF IInv, CoreInv
  <2>2. here.rects \in [Window -> Rect \cup {NoRect}] /\ here.order \in Seq(Window)
    BY <2>1 DEF CoreT!SceneState
  <2>3. ASSUME NEW w \in ToSet(here.order) PROVE w \in Window /\ here.rects[w] \in Rect
    <3>1. PICK i \in DOMAIN here.order : w = here.order[i]
      BY DEF ToSet
    <3>2. w \in CoreT!Placed(here)
      BY <2>1, <3>1 DEF CoreT!PaintOrder, CoreT!OrderIsMapped
    <3> QED
      BY <2>2, <3>2 DEF CoreT!Placed
  <2> QED
    BY <2>1, <2>2, <2>3
<1> HIDE DEF here
<1>3. ToplevelsInv' /\ HandshakeInv' /\ Xdg!XdgTypeOK' /\ LifecycleKept
  BY <1>1, QuietServer DEF IInv, clientVars
<1>4. ServerTypeOK'
  <2>1. outgoing' \subseteq Send
    BY <1>1, <1>2 DEF Send
  <2> QED
    BY <1>1, <1>2, <1>3, <2>1 DEF IInv, ServerInv, ServerTypeOK, clientVars, Phase
<1>5. SendInv'
  BY <1>1 DEF SendInv
<1>6. CoreInv'
  BY <1>1, QuietCore DEF IInv
<1>7. EventsInv'
  BY <1>1, <1>3, QuietEvents DEF IInv, coreVars
<1>8. PhaseInv'
  BY <1>1 DEF IInv, PhaseInv, coreVars, here
<1> QED
  BY <1>3, <1>4, <1>5, <1>6, <1>7, <1>8 DEF IInv, ServerInv

\* The frame is painted, and time passes.
LEMMA FramePreserves ==
  ASSUME IInv, Frame
  PROVE  IInv'
<1>1. ServerInv' /\ LifecycleKept
  BY FrameServer DEF IInv
<1>2. /\ phase = "frame" /\ phase' = "input"
      /\ UNCHANGED <<coreVars, paintVars, events, keyboard>>
  BY DEF Frame
<1>3. CoreInv'
  BY <1>2, QuietCore DEF IInv
<1>4. EventsInv'
  BY <1>1, <1>2, QuietEvents DEF IInv, coreVars
<1>5. PhaseInv'
  BY <1>2 DEF IInv, PhaseInv, coreVars, paintVars
<1> QED
  BY <1>1, <1>3, <1>4, <1>5 DEF IInv

\* Before the first iteration there are no toplevels and no windows.
LEMMA InitEstablishes == Init => IInv
<1> SUFFICES ASSUME Init PROVE IInv
  OBVIOUS
<1>1. /\ states = [w \in Window |-> "None"] /\ pending = [w \in Window |-> NoRequest]
      /\ window_of = [k \in {SurfaceKey(s) : s \in Surface} |-> NoWindow]
      /\ window_geometry = [w \in Window |-> NoRect]
      /\ window_order = <<>> /\ focused_window = NoWindow /\ next_window = 1
      /\ toplevels = <<>> /\ keyboard = NoSurface /\ buffered = {}
      /\ inbox = [s \in Surface |-> <<>>] /\ unflushed = {}
      /\ phase = "input" /\ outgoing = {}
      /\ Core!Init
  BY DEF Init
<1> DEFINE e == [kind |-> "OutputAdded", window |-> NoWindow]
<1>2. events = <<e>> /\ e \in Event /\ e.kind = "OutputAdded" /\ e.window = NoWindow
  BY DEF Init, Queued, Event
<1> HIDE DEF e
<1>3. events \in Seq(Event) /\ Len(events) = 1 /\ events[1] = e
  BY <1>2
<1>4. MaxSerial \in Nat
  BY NestedAssumption, FS_CardinalityType DEF MaxSerial
<1>5. \A s \in Surface : WindowFor(s) = NoWindow
  BY <1>1 DEF WindowFor
<1>6. ServerTypeOK
  <2>1. Xdg!XdgTypeOK
    BY <1>1, <1>4 DEF Xdg!XdgTypeOK, Xdg!State
  <2> QED
    BY <1>1, <1>3, <2>1 DEF ServerTypeOK, Phase
<1>7. ToplevelsInv
  BY <1>1, <1>5, NestedAssumption DEF ToplevelsInv, Contains
<1>8. HandshakeInv
  BY <1>1, <1>5, NestedAssumption DEF HandshakeInv
<1>9. SendInv
  BY <1>1 DEF SendInv
<1>10. windows = {} /\ active = TheWorkspace /\ focused[active] = NoWindow
       /\ scene[active] = Core!EmptyScene
  BY <1>1 DEF Core!Init
<1>11. CoreInv
  <2>1. CoreT!IInv
    BY <1>1, SameSteps, CoreConstants, CoreT!InitEstablishes
  <2>2. Core!Placed(scene[active]) = {}
    BY <1>10 DEF Core!Placed, Core!EmptyScene
  <2> QED
    BY <1>10, <2>1, <2>2 DEF CoreInv
<1>12. EventsInv
  <2>1. ASSUME NEW w \in Window PROVE ~Expected(w)
    <3>1. \A i \in 0 .. 1 : i \notin Maps(events, windows, w)
      BY <1>2, <1>3, <1>10 DEF Maps
    <3> QED
      BY <1>3, <3>1 DEF Expected, ManagedIn, Wins
  <2>2. Sound(events, windows)
    BY <1>2, <1>3 DEF Sound
  <2> QED
    BY <1>1, <2>1, <2>2 DEF EventsInv
<1>13. PhaseInv
  <2>1. scene[active].order = <<>>
    BY <1>10 DEF Core!EmptyScene
  <2> QED
    BY <1>1, <1>2, <1>3, <1>10, <2>1 DEF PhaseInv
<1> QED
  BY <1>6, <1>7, <1>8, <1>9, <1>11, <1>12, <1>13 DEF IInv, ServerInv

\* One case per action of NestedSession.
LEMMA StepPreserves ==
  ASSUME DistinctIds, IInv, [Next]_vars
  PROVE  IInv'
<1>1. CASE UNCHANGED vars
  <2>1. /\ UNCHANGED <<coreVars, xdgVars, paintVars, clientVars, window_of, next_window, events,
                       keyboard, phase, outgoing>>
    BY <1>1 DEF vars
  <2>2. ToplevelsInv' /\ HandshakeInv' /\ Xdg!XdgTypeOK' /\ LifecycleKept
    BY <2>1, QuietServer DEF IInv, clientVars
  <2>3. ServerInv'
    BY <2>1, <2>2 DEF IInv, ServerInv, ServerTypeOK, SendInv, WindowFor, paintVars, clientVars,
                      xdgVars
  <2>4. EventsInv'
    BY <2>1, <2>2, QuietEvents DEF IInv, coreVars
  <2>5. CoreInv'
    <3>1. CASE phase # "relayout"
      BY <2>1, <3>1, QuietCore DEF IInv
    <3>2. CASE phase = "relayout"
      BY <2>1, <3>2 DEF IInv, CoreInv, coreVars, CoreT!IInv, CoreT!TypeOK, CoreT!ActiveExists,
                        CoreT!ScenesAreOrdered, CoreT!OnlyMappedWindows,
                        CoreT!SceneIsSavedGeometry
    <3> QED
      BY <3>1, <3>2
  <2>6. PhaseInv'
    BY <2>1 DEF IInv, PhaseInv, coreVars, paintVars
  <2> QED
    BY <2>3, <2>4, <2>5, <2>6 DEF IInv
<1>2. CASE HostInput
  BY <1>2, HostResizedPreserves, PointerPressPreserves DEF HostInput
<1>3. CASE ClientRequest
  BY <1>3, NewToplevelPreserves, AckPreserves, CommitBufferPreserves, CommitNullPreserves,
     DestroyPreserves DEF ClientRequest
<1>4. CASE Loop
  BY <1>4, PhaseStepsPreserve, DispatchDonePreserves, SendPreserves, HandleMappedPreserves,
     HandleFocusedPreserves, HandleUnmappedPreserves, HandleOutputAddedPreserves,
     RunsPreserve, SynchronizePreserves, FramePreserves DEF Loop
<1> QED
  BY <1>1, <1>2, <1>3, <1>4 DEF Next

-----------------------------------------------------------------------------
(* The theorems.                                                           *)

\* The server's and the coordinator's invariant holds in every state, whatever
\* clients do and however many there are, as long as no two surfaces share a
\* protocol id.
THEOREM Invariance == ASSUME DistinctIds PROVE Spec => []IInv
<1>1. Init => IInv
  BY InitEstablishes
<1>2. IInv /\ [Next]_vars => IInv'
  BY StepPreserves
<1> QED
  BY <1>1, <1>2, PTL DEF Spec

\* Server, coordinator, queues and ledger keep their types: no configure leaves
\* the serials there are, no event names a window there is not.
THEOREM TypeCorrect == ASSUME DistinctIds PROVE Spec => []TypeOK
<1>1. IInv => TypeOK
  BY CoreFacts DEF IInv, CoreInv, ServerInv, TypeOK
<1> QED
  BY <1>1, Invariance, PTL

\* The core lags behind the toplevels by exactly the queued events: once they are
\* applied, every mapped toplevel is managed and nothing destroyed is
\* (NestedState's handlers against run_nested's callback).
THEOREM QueueAccounts == ASSUME DistinctIds PROVE Spec => []CoreFollowsToplevels
<1>1. IInv => CoreFollowsToplevels
  BY ExpectedIsManaged DEF IInv, ServerInv, ServerTypeOK, EventsInv, CoreFollowsToplevels
<1> QED
  BY <1>1, Invariance, PTL

\* Every painted frame shows the core's paint order, only windows that still have
\* a toplevel, and the focus border on one of them or nowhere
\* (synchronize_window_geometry after the queue was drained).
THEOREM FramesShowLive == ASSUME DistinctIds PROVE Spec => []FrameShowsLiveWindows
<1>1. ASSUME IInv, phase = "frame"
      PROVE  /\ window_order = scene[active].order
             /\ \A i \in DOMAIN window_order : HasToplevel(window_order[i])
             /\ focused_window # NoWindow => Contains(window_order, focused_window)
  <2>1. /\ window_order = scene[active].order /\ focused_window = focused[active]
        /\ events = <<>>
    BY <1>1 DEF IInv, PhaseInv
  <2>2. /\ windows \subseteq Window /\ CoreT!PaintOrder(scene[active])
        /\ Core!Placed(scene[active]) = windows
        /\ focused[active] # NoWindow => focused[active] \in windows
    BY <1>1, CoreFacts DEF IInv, CoreInv
  <2>3. \A w : w \in windows <=> \E i \in DOMAIN window_order : window_order[i] = w
    <3>1. CoreT!Placed(scene[active]) = windows
      BY <2>2, SameScene
    <3>2. \A i \in DOMAIN window_order : window_order[i] \in windows
      BY <2>1, <2>2, <3>1 DEF CoreT!PaintOrder, CoreT!OrderIsMapped
    <3>3. \A w \in windows : \E i \in DOMAIN window_order : window_order[i] = w
      BY <2>1, <2>2, <3>1 DEF CoreT!PaintOrder, CoreT!OrderIsComplete, CoreT!Listed
    <3> QED
      BY <3>2, <3>3
  <2>4. ASSUME NEW w \in windows PROVE HasToplevel(w)
    <3>0. EventsInv /\ ServerTypeOK /\ ToplevelsInv
      BY <1>1 DEF IInv, ServerInv
    <3>1. w \in Window /\ states[w] # "None"
      <4>1. w \in Window
        BY <2>2
      <4>2. Expected(w)
        BY <2>1, <4>1, NothingQueued
      <4> QED
        BY <3>0, <4>1, <4>2 DEF EventsInv
    <3>2. \E s \in Surface : WindowFor(s) = w
      BY <3>0, <3>1 DEF ToplevelsInv
    <3> QED
      BY <3>0, <3>1, <3>2, ToplevelOfFinds
  <2>5. \A i \in DOMAIN window_order : HasToplevel(window_order[i])
    BY <2>3, <2>4
  <2>6. ASSUME focused_window # NoWindow PROVE Contains(window_order, focused_window)
    <3>1. DOMAIN window_order = 1 .. Len(window_order)
      BY <1>1 DEF IInv, ServerInv, ServerTypeOK
    <3>2. \E i \in DOMAIN window_order : window_order[i] = focused_window
      BY <2>1, <2>2, <2>3, <2>6
    <3> QED
      BY <3>1, <3>2 DEF Contains
  <2> QED
    BY <2>1, <2>5, <2>6
<1>2. IInv => FrameShowsLiveWindows
  BY <1>1 DEF FrameShowsLiveWindows
<1> QED
  BY <1>2, Invariance, PTL

\* In every painted frame the window with the focus border is the one whose
\* client has the keyboard, although server and core keep the two apart and
\* move them in different parts of an iteration.
THEOREM FocusIsShared == ASSUME DistinctIds PROVE Spec => []KeyboardFollowsFocus
<1>1. ASSUME IInv, phase = "frame", NEW w \in windows
      PROVE  focused_window = w <=> keyboard # NoSurface /\ WindowFor(keyboard) = w
  <2>1. events = <<>> /\ focused_window = focused[active]
    BY <1>1 DEF IInv, PhaseInv
  <2>2. w \in Window
    BY <1>1, CoreFacts DEF IInv, CoreInv
  <2>3. Expected(w) /\ (HasFocus(w) <=> focused[active] = w)
    BY <1>1, <2>1, <2>2, NothingQueued
  <2>4. HasFocus(w) <=> HasKeyboard(w)
    BY <1>1, <2>2, <2>3 DEF IInv, EventsInv
  <2> QED
    BY <2>1, <2>3, <2>4 DEF HasKeyboard
<1>2. IInv => KeyboardFollowsFocus
  BY <1>1 DEF KeyboardFollowsFocus
<1> QED
  BY <1>2, Invariance, PTL

\* The ledger waits for the newest configure the client has received, never for
\* one that a later one has made unanswerable (new_toplevel, commit,
\* retry_expired_configures and reconfigure_mapped_toplevel together).
THEOREM NewestIsPending == ASSUME DistinctIds PROVE Spec => []PendingIsNewest
<1>1. ASSUME IInv, NEW w \in Window, pending[w] # NoRequest
      PROVE  /\ HasToplevel(w)
             /\ inbox[ToplevelOf(w)] # <<>>
             /\ Last(inbox[ToplevelOf(w)]).serial = pending[w].serial
  <2>1. states[w] # "None"
    BY <1>1 DEF IInv, ServerInv, HandshakeInv
  <2>2. PICK s \in Surface : WindowFor(s) = w
    BY <1>1, <2>1 DEF IInv, ServerInv, ToplevelsInv
  <2>3. HasToplevel(w) /\ ToplevelOf(w) = s
    BY <1>1, <2>2, ToplevelOfFinds DEF IInv, ServerInv
  <2>4. QueueInv(s, w)
    BY <1>1, <2>2 DEF IInv, ServerInv, HandshakeInv
  <2> QED
    BY <1>1, <2>3, <2>4 DEF QueueInv
<1>2. IInv => PendingIsNewest
  BY <1>1 DEF PendingIsNewest
<1> QED
  BY <1>2, Invariance, PTL

\* Only creating and destroying a toplevel touches the table of windows, and only
\* at its own surface's id.
LEMMA StepKeepsWindows ==
  ASSUME DistinctIds, IInv, IInv', [Next]_vars,
         NEW s \in ToSet(toplevels) \cap ToSet(toplevels')
  PROVE  WindowFor(s)' = WindowFor(s)
<1>1. s \in Surface /\ Contains(toplevels, s) /\ Contains(toplevels', s)
  <2>1. toplevels \in Seq(Surface) /\ toplevels' \in Seq(Surface)
    BY DEF IInv, ServerInv, ServerTypeOK
  <2>2. \A q \in Seq(Surface) : s \in ToSet(q) => s \in Surface /\ Contains(q, s)
    <3> SUFFICES ASSUME NEW q \in Seq(Surface), s \in ToSet(q) PROVE s \in Surface /\ Contains(q, s)
      OBVIOUS
    <3>1. PICK i \in DOMAIN q : q[i] = s
      BY DEF ToSet
    <3> QED
      BY <3>1 DEF Contains
  <2> QED
    BY <2>1, <2>2
<1>2. WindowFor(s) # NoWindow /\ WindowFor(s)' # NoWindow
  BY <1>1 DEF IInv, ServerInv, ToplevelsInv
<1>3. ASSUME window_of' = window_of PROVE WindowFor(s)' = WindowFor(s)
  BY <1>3 DEF WindowFor
<1>4. CASE UNCHANGED vars
  BY <1>3, <1>4 DEF vars
<1>5. CASE HostInput
  BY <1>3, <1>5 DEF HostInput, HostResized, PointerPress
<1>6. ASSUME NEW t \in Surface, NewToplevel(t) PROVE WindowFor(s)' = WindowFor(s)
  BY <1>1, <1>2, <1>6, NewToplevelServer DEF IInv
<1>7. ASSUME NEW t \in Surface, DestroyToplevel(t) PROVE WindowFor(s)' = WindowFor(s)
  BY <1>1, <1>2, <1>7, DestroyServer DEF IInv
<1>8. ASSUME NEW t \in Surface,
             (\E i \in DOMAIN inbox[t] : Ack(t, i)) \/ CommitBuffer(t) \/ CommitNull(t)
      PROVE  WindowFor(s)' = WindowFor(s)
  BY <1>3, <1>8 DEF Ack, CommitBuffer, CommitNull
<1>9. CASE Loop
  <2>1. CASE InputDone \/ DispatchDone \/ RetryDone \/ ResizeDone \/ EventsDone
    BY <1>3, <2>1 DEF InputDone, DispatchDone, RetryDone, ResizeDone, EventsDone
  <2>2. CASE Retry \/ Reconfigure
    BY <1>3, <2>2 DEF Retry, Reconfigure, SendNext
  <2>3. CASE HandleMapped \/ HandleFocused \/ HandleUnmapped \/ HandleOutputAdded
    BY <1>3, <2>3 DEF HandleMapped, HandleFocused, HandleUnmapped, HandleOutputAdded, Handle
  <2>4. CASE Relayout \/ Services \/ Synchronize \/ Frame
    BY <1>3, <2>4 DEF Relayout, Services, Synchronize, Frame
  <2> QED
    BY <1>9, <2>1, <2>2, <2>3, <2>4 DEF Loop
<1> QED
  BY <1>4, <1>5, <1>6, <1>7, <1>8, <1>9 DEF Next, ClientRequest

\* A toplevel keeps its window from creation to destruction, whatever other
\* clients do, as long as no two surfaces share a protocol id: the run
\* NestedSharedKey shows that without this it does not.
THEOREM WindowsAreStable == ASSUME DistinctIds PROVE Spec => WindowIsStable
<1>1. IInv /\ IInv' /\ [Next]_vars
        => [\A s \in ToSet(toplevels) \cap ToSet(toplevels') : WindowFor(s)' = WindowFor(s)]_vars
  BY StepKeepsWindows
<1> QED
  BY <1>1, Invariance, PTL DEF Spec, WindowIsStable
-----------------------------------------------------------------------------
(* The handshake, as the clients see it.  A toplevel that awaits an answer *)
(* has its request in the ledger and so in its client's queue; one that is *)
(* past it has a client that owes none.  The abstract variables then       *)
(* depend on the lifecycle states alone.                                   *)

RequestStands == \A w \in Window : states[w] = "AwaitingConfigure" => pending[w] # NoRequest

Wanted(state) == [w \in Window |-> IF state[w] \in {"None", "New"} THEN 0 ELSE 1]

AgreedTo(state) == [w \in Window |-> IF state[w] \in {"ReadyToCommit", "Mapped"} THEN 1 ELSE 0]

SettledByStates == Settled = AgreedTo(states)

LEMMA SettledMeans ==
  ASSUME ServerInv, RequestStands
  PROVE  SettledByStates
<1> SUFFICES ASSUME NEW w \in Window
             PROVE  (Asked[w] = 1 /\ HasToplevel(w) /\ inbox[ToplevelOf(w)] = <<>>)
                      <=> states[w] \in {"ReadyToCommit", "Mapped"}
  BY DEF SettledByStates, Settled, AgreedTo
<1>1. states[w] \in {"None", "New", "AwaitingConfigure", "ReadyToCommit", "Mapped"}
  BY DEF ServerInv, ServerTypeOK, Xdg!XdgTypeOK, Xdg!State
<1>2. CASE states[w] \in {"None", "New"}
  BY <1>2 DEF Asked
<1>3. CASE states[w] \in {"AwaitingConfigure", "ReadyToCommit", "Mapped"}
  <2>1. PICK s \in Surface : WindowFor(s) = w
    BY <1>3 DEF ServerInv, ToplevelsInv
  <2>2. HasToplevel(w) /\ ToplevelOf(w) = s
    BY <2>1, ToplevelOfFinds DEF ServerInv
  <2>3. QueueInv(s, w)
    BY <2>1 DEF ServerInv, HandshakeInv
  <2>4. inbox[s] = <<>> <=> states[w] \in {"ReadyToCommit", "Mapped"}
    BY <1>3, <2>3 DEF QueueInv, RequestStands
  <2> QED
    BY <1>3, <2>2, <2>4 DEF Asked
<1> QED
  BY <1>1, <1>2, <1>3

\* What a step does to the lifecycle states.
StatesStep ==
  \/ states' = states
  \/ \E w \in Window, state \in {"None", "AwaitingConfigure"} :
       /\ states' = [states EXCEPT ![w] = state]
       /\ state = "AwaitingConfigure" => states[w] # "ReadyToCommit"
  \/ \E w \in Window :
       states[w] = "AwaitingConfigure" /\ states' = [states EXCEPT ![w] = "ReadyToCommit"]
  \/ \E w \in Window :
       states[w] = "ReadyToCommit" /\ states' = [states EXCEPT ![w] = "Mapped"]
  \/ \E S \in SUBSET {w \in Window : states[w] = "AwaitingConfigure"} :
       states' = [w \in Window |-> IF w \in S THEN "New" ELSE states[w]]

\* Every step changes states and ledger as one method of the lifecycle does.
LEMMA StepKeepsRequests ==
  ASSUME ServerInv, RequestStands, [Next]_vars
  PROVE  RequestStands' /\ StatesStep
<1>1. /\ states \in [Window -> Xdg!State]
      /\ pending \in [Window -> Xdg!Request \cup {NoRequest}]
      /\ NoRequest \notin Xdg!Request
  BY NestedAssumption DEF ServerInv, ServerTypeOK, Xdg!XdgTypeOK
<1>2. ASSUME UNCHANGED xdgVars PROVE RequestStands' /\ StatesStep
  BY <1>2 DEF xdgVars, RequestStands, StatesStep
<1>3. ASSUME NEW w \in Window, NEW g \in Rect, NEW s \in Surface,
             Xdg!Track(w, g, FreshSerial), states[w] # "ReadyToCommit"
      PROVE  RequestStands' /\ StatesStep
  <2>1. FreshSerial \in 1 .. MaxSerial /\ MaxSerial \in Nat
    BY FreshSerialIsFree DEF ServerInv
  <2>2. [serial |-> FreshSerial, geometry |-> g, age |-> 0] # NoRequest
    BY <1>1, <2>1 DEF Xdg!Request, Xdg!Serial
  <2>3. \A v \in Window \ {w} : states'[v] = states[v] /\ pending'[v] = pending[v]
    BY <1>1, <1>3 DEF Xdg!Track
  <2>4. pending'[w] # NoRequest
    BY <1>1, <1>3, <2>2 DEF Xdg!Track
  <2>5. RequestStands'
    BY <2>3, <2>4 DEF RequestStands
  <2>6. StatesStep
    BY <1>3 DEF Xdg!Track, StatesStep
  <2> QED
    BY <2>5, <2>6
<1>4. ASSUME NEW w \in Window, NEW state,
             states' = [states EXCEPT ![w] = state], state # "AwaitingConfigure",
             \A v \in Window \ {w} : pending'[v] = pending[v]
      PROVE  RequestStands'
  BY <1>1, <1>4 DEF RequestStands
<1>5. CASE HostInput
  BY <1>2, <1>5 DEF HostInput, HostResized, PointerPress
<1>6. ASSUME NEW s \in Surface, NewToplevel(s) PROVE RequestStands' /\ StatesStep
  <2>1. next_window \in Window /\ Xdg!Track(next_window, InitialRect, FreshSerial)
    BY <1>6 DEF NewToplevel
  <2>2. states[next_window] # "ReadyToCommit"
    <3> SUFFICES ASSUME states[next_window] = "ReadyToCommit" PROVE FALSE
      OBVIOUS
    <3>1. PICK t \in Surface : WindowFor(t) = next_window
      BY <2>1 DEF ServerInv, ToplevelsInv
    <3>2. next_window # NoWindow /\ next_window \in Nat
      BY <2>1, NestedAssumption
    <3> QED
      BY <3>1, <3>2 DEF ServerInv, ToplevelsInv
  <2> QED
    BY <1>3, <2>1, <2>2, NestedAssumption
<1>7. ASSUME NEW s \in Surface, WindowFor(s) # NoWindow PROVE WindowFor(s) \in Window
  BY <1>7 DEF ServerInv, ServerTypeOK, WindowFor
<1>8. ASSUME NEW s \in Surface, NEW i \in DOMAIN inbox[s], Ack(s, i)
      PROVE  RequestStands' /\ StatesStep
  <2> DEFINE w == WindowFor(s)
  <2>1. CASE w # NoWindow /\ Xdg!Accepts(w, inbox[s][i].serial)
    <3>1. /\ w \in Window /\ states[w] = "AwaitingConfigure"
          /\ states' = [states EXCEPT ![w] = "ReadyToCommit"]
          /\ pending' = [pending EXCEPT ![w] = NoRequest]
      BY <1>7, <1>8, <2>1 DEF Ack, Xdg!Accepts, Xdg!AcknowledgeSerial, Xdg!Answered
    <3> HIDE DEF w
    <3>2. RequestStands'
      BY <1>1, <1>4, <3>1
    <3>3. StatesStep
      BY <3>1 DEF StatesStep
    <3> QED
      BY <3>2, <3>3
  <2>2. CASE ~(w # NoWindow /\ Xdg!Accepts(w, inbox[s][i].serial))
    BY <1>2, <1>8, <2>2 DEF Ack
  <2> QED
    BY <2>1, <2>2
<1>9. ASSUME NEW s \in Surface, CommitBuffer(s) PROVE RequestStands' /\ StatesStep
  <2> DEFINE w == WindowFor(s)
  <2>1. CASE w # NoWindow /\ states[w] = "ReadyToCommit"
    <3>1. /\ w \in Window /\ states' = [states EXCEPT ![w] = "Mapped"]
          /\ pending' = pending
      BY <1>7, <1>9, <2>1 DEF CommitBuffer, Xdg!Commit
    <3> HIDE DEF w
    <3>2. RequestStands'
      BY <1>1, <1>4, <3>1
    <3>3. StatesStep
      BY <2>1, <3>1 DEF StatesStep
    <3> QED
      BY <3>2, <3>3
  <2>2. CASE ~(w # NoWindow /\ states[w] = "ReadyToCommit")
    BY <1>2, <1>9, <2>2 DEF CommitBuffer
  <2> QED
    BY <2>1, <2>2
<1>10. ASSUME NEW s \in Surface, CommitNull(s) PROVE RequestStands' /\ StatesStep
  <2> DEFINE w == WindowFor(s)
  <2>1. CASE w # NoWindow /\ states[w] = "Mapped"
    <3>1. w \in Window /\ SizeAfterUnmap(w) \in Rect
      BY <1>7, <2>1, NestedAssumption DEF SizeAfterUnmap, ServerInv, ServerTypeOK
    <3>2. Xdg!Track(w, SizeAfterUnmap(w), FreshSerial)
      BY <1>10, <2>1 DEF CommitNull
    <3> HIDE DEF w
    <3> QED
      BY <1>3, <2>1, <3>1, <3>2
  <2>2. CASE ~(w # NoWindow /\ states[w] = "Mapped")
    BY <1>2, <1>10, <2>2 DEF CommitNull
  <2> QED
    BY <2>1, <2>2
<1>11. ASSUME NEW s \in Surface, DestroyToplevel(s) PROVE RequestStands' /\ StatesStep
  <2> DEFINE w == WindowFor(s)
  <2>1. CASE w # NoWindow
    <3>1. /\ w \in Window /\ states' = [states EXCEPT ![w] = "None"]
          /\ pending' = [pending EXCEPT ![w] = NoRequest]
      BY <1>7, <1>11, <2>1 DEF DestroyToplevel, Xdg!Destroy
    <3> HIDE DEF w
    <3>2. RequestStands'
      BY <1>1, <1>4, <3>1
    <3>3. StatesStep
      BY <3>1 DEF StatesStep
    <3> QED
      BY <3>2, <3>3
  <2>2. CASE w = NoWindow
    BY <1>2, <1>11, <2>2 DEF DestroyToplevel
  <2> QED
    BY <2>1, <2>2
<1>12. CASE DispatchDone
  <2> DEFINE S == Xdg!Overdue
  <2>1. S \in SUBSET {w \in Window : states[w] = "AwaitingConfigure"}
    BY DEF Xdg!Overdue, ServerInv, HandshakeInv
  <2>2. /\ states' = [w \in Window |-> IF w \in S THEN "New" ELSE states[w]]
        /\ \A w \in Window : w \notin S => pending'[w] = pending[w]
    BY <1>12, <2>1 DEF DispatchDone, Xdg!Expire
  <2> HIDE DEF S
  <2>3. RequestStands'
    BY <2>2 DEF RequestStands
  <2>4. StatesStep
    BY <2>1, <2>2 DEF StatesStep
  <2> QED
    BY <2>3, <2>4
<1>13. ASSUME NEW send \in outgoing, NEW allowed \in BOOLEAN, SendNext(send, allowed)
       PROVE  RequestStands' /\ StatesStep
  <2> DEFINE w == send.window
             g == send.geometry
  <2>1. w \in Window /\ g \in Rect
    BY DEF ServerInv, ServerTypeOK, Send
  <2>2. CASE allowed /\ HasToplevel(w) /\ Xdg!CanConfigure(w)
    <3>1. ToplevelOf(w) \in Surface
      BY <2>1, <2>2, ToplevelOfIsLive DEF ServerInv
    <3>2. Xdg!Track(w, g, FreshSerial) /\ states[w] # "ReadyToCommit"
      BY <1>13, <2>2 DEF SendNext, Xdg!ConfigureWithSerial, Xdg!CanConfigure
    <3> HIDE DEF w, g
    <3> QED
      BY <1>3, <2>1, <3>1, <3>2
  <2>3. CASE ~(allowed /\ HasToplevel(w) /\ Xdg!CanConfigure(w))
    BY <1>2, <1>13, <2>3 DEF SendNext
  <2> QED
    BY <2>2, <2>3
<1>14. CASE Frame
  <2>1. CASE UNCHANGED xdgVars
    BY <1>2, <2>1
  <2>2. CASE Xdg!Elapse
    <3>1. states' = states
      BY <2>2 DEF Xdg!Elapse
    <3>2. ASSUME NEW w \in Window, pending[w] # NoRequest PROVE pending'[w] # NoRequest
      <4>1. CASE pending[w].age = 1
        BY <2>2, <3>2, <4>1 DEF Xdg!Elapse
      <4>2. CASE pending[w].age # 1
        <5>1. pending[w] \in Xdg!Request
          BY <1>1, <3>2
        <5>2. [pending[w] EXCEPT !.age = pending[w].age + 1] \in Xdg!Request
          BY <4>2, <5>1 DEF Xdg!Request
        <5> QED
          BY <1>1, <2>2, <3>2, <4>2, <5>2 DEF Xdg!Elapse
      <4> QED
        BY <4>1, <4>2
    <3> QED
      BY <3>1, <3>2 DEF RequestStands, StatesStep
  <2> QED
    BY <1>14, <2>1, <2>2 DEF Frame
<1>15. CASE Loop
  <2>1. CASE InputDone \/ RetryDone \/ ResizeDone \/ EventsDone
    BY <1>2, <2>1 DEF InputDone, RetryDone, ResizeDone, EventsDone
  <2>2. CASE Retry \/ Reconfigure
    BY <1>13, <2>2 DEF Retry, Reconfigure
  <2>3. CASE HandleMapped \/ HandleFocused \/ HandleUnmapped \/ HandleOutputAdded
    BY <1>2, <2>3 DEF HandleMapped, HandleFocused, HandleUnmapped, HandleOutputAdded, Handle
  <2>4. CASE Relayout \/ Services \/ Synchronize
    BY <1>2, <2>4 DEF Relayout, Services, Synchronize
  <2> QED
    BY <1>12, <1>14, <1>15, <2>1, <2>2, <2>3, <2>4 DEF Loop
<1>16. CASE UNCHANGED vars
  BY <1>2, <1>16 DEF vars
<1> QED
  BY <1>5, <1>6, <1>8, <1>9, <1>10, <1>11, <1>15, <1>16 DEF Next, ClientRequest

\* Every step of the server is a step of the handshake, or none.
LEMMA StepRefines ==
  ASSUME ServerInv, SettledByStates, SettledByStates', StatesStep
  PROVE  [Handshake!Next]_(Handshake!vars)
<1>1. /\ Asked = Wanted(states) /\ Asked' = Wanted(states')
      /\ Settled = AgreedTo(states) /\ Settled' = AgreedTo(states')
  BY DEF SettledByStates, Asked, Wanted
<1>2. states \in [Window -> {"None", "New", "AwaitingConfigure", "ReadyToCommit", "Mapped"}]
  BY DEF ServerInv, ServerTypeOK, Xdg!XdgTypeOK, Xdg!State
<1> HIDE DEF Asked, Settled
<1>3. CASE states' = states
  BY <1>1, <1>3 DEF Handshake!vars
<1>4. ASSUME NEW w \in Window, states' = [states EXCEPT ![w] = "None"] PROVE Handshake!Vanish(w)
  BY <1>1, <1>2, <1>4 DEF Handshake!Vanish, Wanted, AgreedTo
<1>5. ASSUME NEW w \in Window, states' = [states EXCEPT ![w] = "AwaitingConfigure"],
             states[w] = "None"
      PROVE  Handshake!Appear(w, 1)
  BY <1>1, <1>2, <1>5 DEF Handshake!Appear, Wanted, AgreedTo
<1>6. ASSUME NEW w \in Window, states' = [states EXCEPT ![w] = "AwaitingConfigure"],
             states[w] \in {"New", "AwaitingConfigure", "Mapped"}
      PROVE  Handshake!Propose(w, 1)
  BY <1>1, <1>2, <1>6 DEF Handshake!Propose, Wanted, AgreedTo
<1>7. ASSUME NEW w \in Window, states[w] = "AwaitingConfigure",
             states' = [states EXCEPT ![w] = "ReadyToCommit"]
      PROVE  Handshake!Agree(w)
  BY <1>1, <1>2, <1>7 DEF Handshake!Agree, Wanted, AgreedTo
<1>8. ASSUME NEW w \in Window, states[w] = "ReadyToCommit",
             states' = [states EXCEPT ![w] = "Mapped"]
      PROVE  Handshake!Show(w)
  BY <1>1, <1>2, <1>8 DEF Handshake!Show, Wanted, AgreedTo
<1>9. ASSUME NEW S \in SUBSET {w \in Window : states[w] = "AwaitingConfigure"},
             states' = [w \in Window |-> IF w \in S THEN "New" ELSE states[w]]
      PROVE  S \in SUBSET Window /\ Handshake!Withdraw(S)
  BY <1>1, <1>2, <1>9 DEF Handshake!Withdraw, Wanted, AgreedTo
<1> QED
  BY <1>2, <1>3, <1>4, <1>5, <1>6, <1>7, <1>8, <1>9 DEF StatesStep, Handshake!Next

\* A toplevel is mapped only when its client has answered every configure sent
\* to it: NestedState's handlers, its retries and its synchronisation use the
\* lifecycle guard so that its promise holds between server and client.
THEOREM ServerImplementsHandshake == ASSUME DistinctIds PROVE Spec => ImplementsHandshake
<1>1. Init => RequestStands /\ Handshake!Init
  <2> SUFFICES ASSUME Init PROVE RequestStands /\ Handshake!Init
    OBVIOUS
  <2>1. states = [w \in Window |-> "None"]
    BY DEF Init
  <2> QED
    BY <2>1 DEF RequestStands, Handshake!Init, Asked, Settled
<1>2. IInv => ServerInv
  BY DEF IInv
<1>3. ServerInv /\ RequestStands /\ [Next]_vars => RequestStands' /\ StatesStep
  BY StepKeepsRequests
<1>4. ServerInv /\ RequestStands => SettledByStates
  BY SettledMeans
<1>5. ServerInv /\ SettledByStates /\ SettledByStates' /\ StatesStep
        => [Handshake!Next]_(Handshake!vars)
  BY StepRefines
<1> QED
  BY <1>1, <1>2, <1>3, <1>4, <1>5, Invariance, PTL DEF Spec, ImplementsHandshake, Handshake!Spec
\* In particular the client of a mapped toplevel has answered everything: a retry
\* or a relayout that sends it a configure has taken it out of Mapped first
\* (retry_expired_configures, reconfigure_mapped_toplevel).
THEOREM MappedClientsOweNothing ==
  ASSUME DistinctIds
  PROVE  Spec => [](\A w \in Window :
                      states[w] = "Mapped" => HasToplevel(w) /\ inbox[ToplevelOf(w)] = <<>>)
<1>1. ASSUME IInv, NEW w \in Window, states[w] = "Mapped"
      PROVE  HasToplevel(w) /\ inbox[ToplevelOf(w)] = <<>>
  <2>1. PICK s \in Surface : WindowFor(s) = w
    BY <1>1 DEF IInv, ServerInv, ToplevelsInv
  <2>2. HasToplevel(w) /\ ToplevelOf(w) = s
    BY <1>1, <2>1, ToplevelOfFinds DEF IInv, ServerInv
  <2>3. QueueInv(s, w)
    BY <1>1, <2>1 DEF IInv, ServerInv, HandshakeInv
  <2> QED
    BY <1>1, <2>2, <2>3 DEF QueueInv
<1>2. IInv => \A w \in Window :
                states[w] = "Mapped" => HasToplevel(w) /\ inbox[ToplevelOf(w)] = <<>>
  BY <1>1
<1> QED
  BY <1>2, Invariance, PTL
-----------------------------------------------------------------------------
(* The coordinator.  The server drives it through its own methods only, so *)
(* that it is a CoreState whatever clients do, with shared protocol ids as *)
(* well.  For that the queue must name windows only.                       *)

QueueTyped ==
  /\ events \in Seq(Event)
  /\ toplevels \in Seq(Surface)
  /\ window_of \in [{SurfaceKey(s) : s \in Surface} -> Window \cup {NoWindow}]

\* A pressed window is the one of the toplevel that is found for it.
LEMMA FoundToplevel ==
  ASSUME QueueTyped, NEW w \in Window, HasToplevel(w)
  PROVE  WindowFor(ToplevelOf(w)) = w
<1> DEFINE found == {i \in DOMAIN toplevels : WindowFor(toplevels[i]) = w}
<1>1. found \in SUBSET Nat /\ found # {} /\ DOMAIN toplevels = 1 .. Len(toplevels)
  BY DEF QueueTyped, HasToplevel
<1> HIDE DEF found
<1>2. PICK i \in found : \A j \in found : i <= j
  BY <1>1, LeastNatural
<1>3. i \in DOMAIN toplevels /\ WindowFor(toplevels[i]) = w
  BY <1>2 DEF found
<1>4. ASSUME NEW j \in 1 .. i - 1 PROVE WindowFor(toplevels[j]) # w
  <2>1. j \in DOMAIN toplevels /\ j \in Nat /\ i \in Nat /\ ~(i <= j)
    BY <1>1, <1>3
  <2> QED
    BY <1>2, <2>1 DEF found
<1> QED
  BY <1>3, <1>4 DEF ToplevelOf

\* A method of the coordinator, as the server calls it.
CoreStep ==
  \/ UNCHANGED coreVars
  \/ \E w \in Window : Core!WindowMapped(w) \/ Core!WindowFocused(w) \/ Core!WindowUnmapped(w)
  \/ Core!RunProvider(TheLayout) \/ Core!RunRecovery(TheLayout)

LEMMA StepKeepsQueue ==
  ASSUME QueueTyped, [Next]_vars
  PROVE  QueueTyped' /\ CoreStep
<1>1. ASSUME NEW s \in Surface, WindowFor(s) # NoWindow PROVE WindowFor(s) \in Window
  BY <1>1 DEF QueueTyped, WindowFor
<1>2. ASSUME UNCHANGED <<events, toplevels, window_of>> PROVE QueueTyped'
  BY <1>2 DEF QueueTyped
<1>3. ASSUME UNCHANGED coreVars PROVE CoreStep
  BY <1>3 DEF CoreStep
<1>4. CASE HostInput
  <2>1. CASE HostResized
    <3>1. [kind |-> "OutputAdded", window |-> NoWindow] \in Event
      BY DEF Event
    <3>2. Queued("OutputAdded", NoWindow) \in Seq(Event)
      BY <3>1 DEF Queued
    <3>3. events' \in Seq(Event)
      BY <2>1, <3>2 DEF HostResized, QueueTyped
    <3> QED
      BY <1>3, <2>1, <3>3 DEF HostResized, QueueTyped, clientVars
  <2>2. ASSUME NEW w \in Window, PointerPress(w) PROVE QueueTyped' /\ CoreStep
    <3>1. WindowFor(ToplevelOf(w)) = w
      BY <2>2, FoundToplevel DEF PointerPress
    <3>2. events' = events \o Queued("Focused", w)
      BY <2>2, <3>1 DEF PointerPress
    <3>3. events' \in Seq(Event)
      BY <3>2, QueuedTyped DEF QueueTyped
    <3> QED
      BY <1>3, <2>2, <3>3 DEF PointerPress, QueueTyped, clientVars
  <2> QED
    BY <1>4, <2>1, <2>2 DEF HostInput
<1>5. ASSUME NEW s \in Surface, NewToplevel(s) PROVE QueueTyped' /\ CoreStep
  <2>1. /\ next_window \in Window
        /\ toplevels' = Append(toplevels, s)
        /\ window_of' = [window_of EXCEPT ![SurfaceKey(s)] = next_window]
        /\ UNCHANGED <<coreVars, events>>
    BY <1>5 DEF NewToplevel
  <2> QED
    BY <1>3, <2>1 DEF QueueTyped
<1>6. ASSUME NEW s \in Surface, NEW i \in DOMAIN inbox[s], Ack(s, i)
      PROVE  QueueTyped' /\ CoreStep
  BY <1>2, <1>3, <1>6 DEF Ack
<1>7. ASSUME NEW s \in Surface, CommitBuffer(s) PROVE QueueTyped' /\ CoreStep
  <2>1. events' \in Seq(Event)
    <3>1. CASE WindowFor(s) # NoWindow /\ states[WindowFor(s)] = "ReadyToCommit"
      BY <1>1, <1>7, <3>1, QueuedTyped DEF CommitBuffer, QueueTyped
    <3>2. CASE ~(WindowFor(s) # NoWindow /\ states[WindowFor(s)] = "ReadyToCommit")
      BY <1>7, <3>2 DEF CommitBuffer, QueueTyped
    <3> QED
      BY <3>1, <3>2
  <2> QED
    BY <1>3, <1>7, <2>1 DEF CommitBuffer, QueueTyped
<1>8. ASSUME NEW s \in Surface, CommitNull(s) PROVE QueueTyped' /\ CoreStep
  <2>1. events' \in Seq(Event)
    <3>1. CASE WindowFor(s) # NoWindow /\ states[WindowFor(s)] = "Mapped"
      BY <1>1, <1>8, <3>1, QueuedTyped DEF CommitNull, QueueTyped
    <3>2. CASE ~(WindowFor(s) # NoWindow /\ states[WindowFor(s)] = "Mapped")
      BY <1>8, <3>2 DEF CommitNull, QueueTyped
    <3> QED
      BY <3>1, <3>2
  <2> QED
    BY <1>3, <1>8, <2>1 DEF CommitNull, QueueTyped
<1>9. ASSUME NEW s \in Surface, DestroyToplevel(s) PROVE QueueTyped' /\ CoreStep
  <2>1. toplevels' \in Seq(Surface) /\ UNCHANGED coreVars
    BY <1>9, DroppedFacts DEF DestroyToplevel, QueueTyped
  <2>2. CASE WindowFor(s) # NoWindow
    <3>1. /\ events' = events \o AnnounceDestroy(WindowFor(s))
          /\ window_of' = [window_of EXCEPT ![SurfaceKey(s)] = NoWindow]
      BY <1>9, <2>2 DEF DestroyToplevel
    <3>2. events' \in Seq(Event)
      BY <1>1, <2>2, <3>1, QueuedTyped DEF QueueTyped
    <3> QED
      BY <1>3, <2>1, <3>1, <3>2 DEF QueueTyped
  <2>3. CASE WindowFor(s) = NoWindow
    BY <1>3, <1>9, <2>1, <2>3 DEF DestroyToplevel, QueueTyped
  <2> QED
    BY <2>2, <2>3
<1>10. ASSUME NEW kind, Handle(kind)
       PROVE  /\ QueueTyped'
              /\ kind # "OutputAdded" => Head(events).window \in Window
  <2>1. /\ Head(events) \in Event /\ Head(events).kind = kind
        /\ events' \in Seq(Event) /\ UNCHANGED <<toplevels, window_of>>
    BY <1>10 DEF Handle, QueueTyped, clientVars
  <2> QED
    BY <2>1 DEF QueueTyped, Event
<1>11. CASE HandleMapped \/ HandleFocused \/ HandleUnmapped \/ HandleOutputAdded
  <2>1. CASE HandleMapped
    BY <1>3, <1>10, <2>1 DEF HandleMapped, CoreStep, coreVars
  <2>2. CASE HandleFocused
    BY <1>3, <1>10, <2>2 DEF HandleFocused, CoreStep
  <2>3. CASE HandleUnmapped
    BY <1>3, <1>10, <2>3 DEF HandleUnmapped, CoreStep
  <2>4. CASE HandleOutputAdded
    BY <1>3, <1>10, <2>4 DEF HandleOutputAdded
  <2> QED
    BY <1>11, <2>1, <2>2, <2>3, <2>4
<1>12. CASE Relayout \/ Services
  BY <1>2, <1>12 DEF Relayout, Services, CoreStep, clientVars
<1>13. CASE InputDone \/ DispatchDone \/ RetryDone \/ EventsDone \/ Synchronize \/ ResizeDone \/ Frame
  BY <1>2, <1>3, <1>13
  DEF InputDone, DispatchDone, RetryDone, EventsDone, Synchronize, ResizeDone, Frame, clientVars
<1>14. CASE Retry \/ Reconfigure
  BY <1>2, <1>3, <1>14 DEF Retry, Reconfigure, SendNext
<1>15. CASE UNCHANGED vars
  BY <1>2, <1>3, <1>15 DEF vars, clientVars
<1> QED
  BY <1>4, <1>5, <1>6, <1>7, <1>8, <1>9, <1>11, <1>12, <1>13, <1>14, <1>15
  DEF Next, ClientRequest, Loop

\* The events are of windows from the start.
LEMMA InitialQueue == Init => QueueTyped
<1> SUFFICES ASSUME Init PROVE QueueTyped
  OBVIOUS
<1>1. [kind |-> "OutputAdded", window |-> NoWindow] \in Event
  BY DEF Event
<1> QED
  BY <1>1 DEF Init, Queued, QueueTyped

\* Whatever clients, host and services do, and even if surfaces share a protocol
\* id, the coordinator takes only steps of its own: run_nested's callback never
\* hands it a window there is not, and nothing else changes its state.
THEOREM ServerImplementsCore == Spec => Core!Spec
<1>1. Init => Core!Init
  BY DEF Init
<1>2. CoreStep => [Core!Next]_(Core!vars)
  BY DEF CoreStep, coreVars, Core!Next, Core!vars
<1>3. QueueTyped /\ [Next]_vars => QueueTyped' /\ CoreStep
  BY StepKeepsQueue
<1> QED
  BY <1>1, <1>2, <1>3, InitialQueue, PTL DEF Spec, Core!Spec

\* What CoreStateTheorems proves of the coordinator alone holds of it inside the
\* server: exact paint orders, no memory of unmapped windows, scenes as they are
\* saved, and layout runs whose order set_order accepts.
THEOREM ServerKeepsCore ==
  Spec => [](/\ Core!ScenesAreOrdered
             /\ Core!OnlyMappedWindows
             /\ Core!SceneIsSavedGeometry
             /\ Core!ProviderOrderIsAccepted)
<1>1. Init => CoreT!Init
  BY SameSteps DEF Init
<1>2. CoreStep => [CoreT!Next]_(CoreT!vars)
  <2>1. CoreStep => \/ UNCHANGED coreVars
                    \/ \E w \in Window : \/ CoreT!WindowMapped(w) \/ CoreT!WindowFocused(w)
                                         \/ CoreT!WindowUnmapped(w)
                    \/ CoreT!RunProvider(TheLayout) \/ CoreT!RunRecovery(TheLayout)
    BY SameSteps DEF CoreStep
  <2> QED
    BY <2>1 DEF coreVars, CoreT!Next, CoreT!vars
<1>3. QueueTyped /\ [Next]_vars => QueueTyped' /\ CoreStep
  BY StepKeepsQueue
<1>4. Spec => CoreT!Spec
  BY <1>1, <1>2, <1>3, InitialQueue, PTL DEF Spec, CoreT!Spec
<1>5. CoreT!Spec => [](CoreT!IInv /\ CoreT!ProviderOrderIsAccepted)
  <2>1. CoreT!Spec => []CoreT!IInv
    BY CoreConstants, CoreT!Invariance
  <2>2. CoreT!Spec => []CoreT!ProviderOrderIsAccepted
    BY CoreConstants, CoreT!ProviderOrderNeverRefused
  <2> QED
    BY <2>1, <2>2, PTL
<1>6. CoreT!IInv => Core!ScenesAreOrdered /\ Core!OnlyMappedWindows /\ Core!SceneIsSavedGeometry
  <2> SUFFICES ASSUME CoreT!IInv
               PROVE  Core!ScenesAreOrdered /\ Core!OnlyMappedWindows /\ Core!SceneIsSavedGeometry
    OBVIOUS
  <2>1. CoreT!ScenesAreOrdered /\ CoreT!OnlyMappedWindows /\ CoreT!SceneIsSavedGeometry
    BY DEF CoreT!IInv
  <2>2. Core!ScenesAreOrdered
    <3>1. ASSUME NEW s, CoreT!PaintOrder(s) PROVE Core!PaintOrder(s)
      BY <3>1, SameScene
      DEF Core!PaintOrder, CoreT!PaintOrder, Core!OrderIsMapped, CoreT!OrderIsMapped,
          Core!OrderIsComplete, CoreT!OrderIsComplete, Core!OrderHasNoRepeats,
          CoreT!OrderHasNoRepeats, Core!Listed, CoreT!Listed
    <3> QED
      BY <2>1, <3>1 DEF Core!ScenesAreOrdered, CoreT!ScenesAreOrdered
  <2>3. Core!OnlyMappedWindows
    BY <2>1, SameScene DEF Core!OnlyMappedWindows, CoreT!OnlyMappedWindows
  <2>4. Core!SceneIsSavedGeometry
    BY <2>1 DEF Core!SceneIsSavedGeometry, CoreT!SceneIsSavedGeometry
  <2> QED
    BY <2>2, <2>3, <2>4
<1>7. CoreT!ProviderOrderIsAccepted => Core!ProviderOrderIsAccepted
  BY SameScene, SameOrders
  DEF Core!ProviderOrderIsAccepted, CoreT!ProviderOrderIsAccepted, Core!AcceptsOrder, CoreT!AcceptsOrder
<1> QED
  BY <1>4, <1>5, <1>6, <1>7, PTL
=============================================================================
