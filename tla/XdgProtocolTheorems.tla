------------------------ MODULE XdgProtocolTheorems ------------------------
(***************************************************************************)
(* The lifecycle guard implements the handshake, for every set of windows, *)
(* geometries and serials.  The inductive invariant adds to the agreement  *)
(* of ledger and states what the history variables say in each state: no   *)
(* proposal before a configure, one not yet agreed to while its answer is  *)
(* awaited, and the one agreed to from then on.                            *)
(***************************************************************************)
EXTENDS XdgProtocol, TLAPS

HistoryMatchesStates ==
  \A w \in Window :
    /\ states[w] \in {"None", "New"} => latest[w] = 0 /\ accepted[w] = 0
    /\ states[w] = "AwaitingConfigure" => accepted[w] = 0
    /\ states[w] \in {"ReadyToCommit", "Mapped"} =>
         accepted[w] = latest[w] /\ latest[w] # 0

IInv == TypeOK /\ LedgerMatchesStates /\ HistoryMatchesStates

\* Nothing is registered initially.
LEMMA InitEstablishes == Init => IInv
BY XdgAssumption DEF Init, XdgInit, IInv, TypeOK, XdgTypeOK, LedgerMatchesStates,
   HistoryMatchesStates, State

\* Registering a toplevel, again or for the first time, starts its history over.
LEMMA RegisterPreserves ==
  ASSUME IInv, NEW w \in Window, Register(w), Restart({w})
  PROVE  IInv'
BY XdgAssumption
DEF IInv, TypeOK, XdgTypeOK, LedgerMatchesStates, HistoryMatchesStates, State,
   Register, Restart, Forgotten, IsPending

\* Both kinds of configure track one new request and forget the accepted one.
LEMMA TrackPreserves ==
  ASSUME IInv, NEW w \in Window, NEW g \in Geometry, NEW serial \in Serial,
         next_serial' \in 0 .. MaxSerial, Track(w, g, serial), Ask(w, serial)
  PROVE  IInv'
<1>1. [serial |-> serial, geometry |-> g, age |-> 0] \in Request
  BY XdgAssumption DEF Request
<1>2. TypeOK'
  BY <1>1, XdgAssumption DEF IInv, TypeOK, XdgTypeOK, State, Track, Ask, Serial
<1>3. LedgerMatchesStates'
  BY <1>1, XdgAssumption
  DEF IInv, TypeOK, XdgTypeOK, LedgerMatchesStates, Track, Ask, IsPending
<1>4. HistoryMatchesStates'
  BY DEF IInv, TypeOK, XdgTypeOK, HistoryMatchesStates, Track, Ask
<1> QED
  BY <1>2, <1>3, <1>4 DEF IInv

\* An accepted acknowledgement names the request that stands.
LEMMA AnsweredPreserves ==
  ASSUME IInv, NEW w \in Window, NEW serial \in Serial, states[w] = "AwaitingConfigure",
         IsPending(w, serial), Answered(w), Accept(w, serial)
  PROVE  IInv' /\ accepted[w] = 0 /\ latest[w] = serial
BY DEF IInv, TypeOK, XdgTypeOK, LedgerMatchesStates, HistoryMatchesStates, State, Serial,
   Answered, Accept, IsPending

\* The passing of time touches ages alone.
LEMMA ElapsePreserves ==
  ASSUME IInv, Elapse, UNCHANGED <<latest, accepted>>
  PROVE  IInv'
<1>1. ASSUME NEW w \in Window
      PROVE  /\ pending'[w] \in Request \cup {NoRequest}
             /\ pending'[w] # NoRequest <=> pending[w] # NoRequest
             /\ pending[w] # NoRequest => pending'[w].serial = pending[w].serial
  <2>1. CASE pending[w] = NoRequest \/ pending[w].age = Timeout
    BY <2>1 DEF IInv, TypeOK, XdgTypeOK, Elapse
  <2>2. CASE pending[w] # NoRequest /\ pending[w].age # Timeout
    <3>1. pending[w] \in Request
      BY <2>2 DEF IInv, TypeOK, XdgTypeOK
    <3>2. pending'[w] = [pending[w] EXCEPT !.age = @ + 1]
      BY <2>2 DEF Elapse
    <3>3. pending[w].age + 1 \in 0 .. Timeout
      BY <2>2, <3>1, XdgAssumption DEF Request
    <3>4. pending'[w] \in Request /\ pending'[w].serial = pending[w].serial
      BY <3>1, <3>2, <3>3 DEF Request
    <3> QED
      BY <2>2, <3>4, XdgAssumption
  <2> QED
    BY <2>1, <2>2
<1>2. TypeOK'
  BY <1>1 DEF IInv, TypeOK, XdgTypeOK, Elapse
<1>3. LedgerMatchesStates'
  BY <1>1 DEF IInv, LedgerMatchesStates, Elapse, IsPending
<1>4. HistoryMatchesStates'
  BY DEF IInv, HistoryMatchesStates, Elapse
<1> QED
  BY <1>2, <1>3, <1>4 DEF IInv

\* Expiry starts over exactly what was awaiting an answer.
LEMMA ExpirePreserves ==
  ASSUME IInv, Expire, Restart({w \in Overdue : states[w] = "AwaitingConfigure"})
  PROVE  IInv'
BY DEF IInv, TypeOK, XdgTypeOK, LedgerMatchesStates, HistoryMatchesStates, State,
   Expire, Overdue, Restart, Forgotten, IsPending

\* Commits, unmaps and destructions.
LEMMA EndPreserves ==
  ASSUME IInv, NEW w \in Window,
         \/ Commit(w) /\ UNCHANGED <<latest, accepted>>
         \/ Unmap(w) /\ Restart({w})
         \/ Destroy(w) /\ Restart({w})
  PROVE  IInv'
BY XdgAssumption
DEF IInv, TypeOK, XdgTypeOK, LedgerMatchesStates, HistoryMatchesStates, State,
   Commit, Unmap, Destroy, Restart, Forgotten, IsPending
-----------------------------------------------------------------------------
\* The serial a configure uses is a serial, and the ledger's maximum stays in
\* range.
LEMMA ConfigureTracks ==
  ASSUME IInv, NEW w \in Window, NEW g \in Geometry
  PROVE  /\ Configure(w, g) =>
              /\ next_serial + 1 \in Serial
              /\ next_serial' \in 0 .. MaxSerial
              /\ Track(w, g, next_serial + 1)
         /\ \A serial \in 0 .. MaxSerial : ConfigureWithSerial(w, g, serial) =>
              /\ serial \in Serial
              /\ next_serial' \in 0 .. MaxSerial
              /\ Track(w, g, serial)
BY XdgAssumption DEF IInv, TypeOK, XdgTypeOK, Configure, ConfigureWithSerial, Serial

\* The invariant is inductive.
LEMMA StepPreserves == IInv /\ [Next]_vars => IInv'
<1> SUFFICES ASSUME IInv, [Next]_vars PROVE IInv'
  OBVIOUS
<1>1. CASE UNCHANGED vars
  BY <1>1 DEF IInv, TypeOK, XdgTypeOK, LedgerMatchesStates, HistoryMatchesStates,
              IsPending, vars
<1>2. CASE Next
  BY <1>2, RegisterPreserves, TrackPreserves, AnsweredPreserves, ElapsePreserves,
     ExpirePreserves, EndPreserves, ConfigureTracks
  DEF Next, Acknowledge, AcknowledgeSerial, Accepts
<1> QED
  BY <1>1, <1>2

\* The inductive invariant holds in every reachable state of the lifecycle.
THEOREM Invariance == Spec => []IInv
BY InitEstablishes, StepPreserves, PTL DEF Spec

\* The ledger and the state map never disagree: no toplevel waits for an answer
\* the ledger would not accept.
THEOREM LedgerAndStatesAgree == Spec => []LedgerMatchesStates
<1>1. IInv => LedgerMatchesStates
  BY DEF IInv
<1> QED
  BY <1>1, Invariance, PTL
-----------------------------------------------------------------------------
\* Every step of the lifecycle is a step of the handshake, or none.
LEMMA StepRefines == IInv /\ [Next]_vars => [Handshake!Next]_(Handshake!vars)
<1> SUFFICES ASSUME IInv, [Next]_vars PROVE [Handshake!Next]_(Handshake!vars)
  OBVIOUS
<1>0. /\ states \in [Window -> State]
      /\ latest \in [Window -> 0 .. MaxSerial]
      /\ accepted \in [Window -> 0 .. MaxSerial]
      /\ HistoryMatchesStates
  BY DEF IInv, TypeOK, XdgTypeOK
<1>1. CASE UNCHANGED vars
  BY <1>1 DEF vars, Handshake!vars
<1>2. ASSUME NEW w \in Window, Register(w), Restart({w})
      PROVE  Handshake!Appear(w, 0)
  BY <1>0, <1>2 DEF Register, Restart, Forgotten, Handshake!Appear, State
<1>3. ASSUME NEW w \in Window, NEW g \in Geometry, NEW serial \in Serial,
             CanConfigure(w), Track(w, g, serial), Ask(w, serial)
      PROVE  Handshake!Propose(w, serial)
  BY <1>0, <1>3
  DEF CanConfigure, Track, Ask, Handshake!Propose, State, HistoryMatchesStates
<1>4. ASSUME NEW w \in Window, NEW serial \in Serial, states[w] = "AwaitingConfigure",
             IsPending(w, serial), Answered(w), Accept(w, serial)
      PROVE  Handshake!Agree(w)
  <2>1. accepted[w] = 0 /\ latest[w] = serial /\ serial # 0
    BY <1>4, AnsweredPreserves DEF Serial
  <2> QED
    BY <1>0, <1>4, <2>1 DEF Answered, Accept, Handshake!Agree, State
<1>5. CASE Elapse /\ UNCHANGED <<latest, accepted>>
  BY <1>5 DEF Elapse, Handshake!vars
<1>6. CASE Expire /\ Restart({w \in Overdue : states[w] = "AwaitingConfigure"})
  <2> DEFINE S == {w \in Overdue : states[w] = "AwaitingConfigure"}
  <2>1. S \in SUBSET Window /\ \A w \in S : accepted[w] = 0
    BY <1>0 DEF Overdue, HistoryMatchesStates
  <2>2. accepted' = accepted
    BY <1>0, <1>6, <2>1 DEF Restart, Forgotten
  <2>3. \A w \in Window :
          /\ states'[w] # "None" <=> states[w] # "None"
          /\ states'[w] = "Mapped" <=> states[w] = "Mapped"
    BY <1>0, <1>6 DEF Expire
  <2>4. Handshake!Withdraw(S)
    BY <1>6, <2>1, <2>2, <2>3 DEF Restart, Forgotten, Handshake!Withdraw
  <2> QED
    BY <2>1, <2>4 DEF Handshake!Next
<1>7. ASSUME NEW w \in Window, Commit(w), UNCHANGED <<latest, accepted>>
      PROVE  Handshake!Show(w)
  BY <1>0, <1>7 DEF Commit, Handshake!Show, State, HistoryMatchesStates
<1>8. ASSUME NEW w \in Window, Unmap(w), Restart({w})
      PROVE  Handshake!Hide(w)
  BY <1>0, <1>8 DEF Unmap, Restart, Forgotten, Handshake!Hide, State
<1>9. ASSUME NEW w \in Window, Destroy(w), Restart({w})
      PROVE  Handshake!Vanish(w)
  BY <1>0, <1>9 DEF Destroy, Restart, Forgotten, Handshake!Vanish, State
<1>10. CASE Next
  BY <1>2, <1>3, <1>4, <1>5, <1>6, <1>7, <1>8, <1>9, <1>10, ConfigureTracks
  DEF Next, Handshake!Next, Accepts, Acknowledge, AcknowledgeSerial, Configure, ConfigureWithSerial
<1> QED
  BY <1>1, <1>10

\* Content is mapped only if it answers the latest configure: the lifecycle
\* guard with its ledger implements the abstract handshake.
THEOREM LifecycleImplementsHandshake == Spec => ImplementsHandshake
<1>1. Init => Handshake!Init
  BY DEF Init, XdgInit, Handshake!Init
<1> QED
  BY <1>1, Invariance, StepRefines, PTL DEF Spec, ImplementsHandshake, Handshake!Spec

\* So no toplevel is ever shown with content for a request that was superseded,
\* that expired, or that its client never acknowledged.
THEOREM MappedContentIsAgreed ==
  Spec => [](\A w \in Window :
               states[w] = "Mapped" => accepted[w] = latest[w] /\ latest[w] \in Serial)
<1>1. IInv => \A w \in Window :
                states[w] = "Mapped" => accepted[w] = latest[w] /\ latest[w] \in Serial
  BY DEF IInv, TypeOK, HistoryMatchesStates, Serial
<1> QED
  BY <1>1, Invariance, PTL

\* Tokens, serials, states and history keep their types, for every number of
\* windows and serials.
THEOREM TypeCorrect == Spec => []TypeOK
<1>1. IInv => TypeOK
  BY DEF IInv
<1> QED
  BY <1>1, Invariance, PTL
=============================================================================
