---------------------------- MODULE XdgLifecycle ----------------------------
(***************************************************************************)
(* The ordering guard of xdg toplevels: XdgLifecycle of                    *)
(* crates/wm-backend-wayland/src/lib.rs, with the ConfigureLedger of       *)
(* crates/wm-backend/src/lib.rs inside it.  One action per method, enabled *)
(* where the method changes something; where it returns an error it leaves *)
(* everything alone, except `register`, which resets the state of a window *)
(* it then reports as already registered.                                  *)
(*                                                                         *)
(* The module has no Next: XdgProtocol drives it with an arbitrary caller, *)
(* NestedSession with the handlers of the nested Wayland server.           *)
(***************************************************************************)
EXTENDS Naturals

CONSTANTS Window,     \* window identifiers
          Geometry,   \* geometries a configure may carry
          NoRequest,  \* no pending configure
          MaxSerial,  \* bound on serials
          Timeout     \* age at which an unanswered configure expires

VARIABLES states,       \* window -> XdgSurfaceState, "None" if not registered
          pending,      \* window -> its pending configure
          next_serial   \* the largest serial the ledger has seen

xdgVars == <<states, pending, next_serial>>

Serial == 1 .. MaxSerial

Request == [serial : Serial, geometry : Geometry, age : 0 .. Timeout]

State == {"None", "New", "AwaitingConfigure", "ReadyToCommit", "Mapped"}

XdgTypeOK ==
  /\ states \in [Window -> State]
  /\ pending \in [Window -> Request \cup {NoRequest}]
  /\ next_serial \in 0 .. MaxSerial

XdgInit ==
  /\ states = [w \in Window |-> "None"]
  /\ pending = [w \in Window |-> NoRequest]
  /\ next_serial = 0
-----------------------------------------------------------------------------
Register(w) ==
  /\ states' = [states EXCEPT ![w] = "New"]
  /\ UNCHANGED pending /\ next_serial' = next_serial

CanConfigure(w) == states[w] \in {"New", "AwaitingConfigure", "Mapped"}

\* A new request supersedes the pending one.
Track(w, g, serial) ==
  /\ states' = [states EXCEPT ![w] = "AwaitingConfigure"]
  /\ pending' = [pending EXCEPT ![w] = [serial |-> serial, geometry |-> g, age |-> 0]]

\* configure: the ledger numbers the request itself.
Configure(w, g) ==
  /\ CanConfigure(w)
  /\ next_serial < MaxSerial
  /\ next_serial' = next_serial + 1
  /\ Track(w, g, next_serial + 1)

\* Mutant: a zero serial is tracked like any other.
ConfigureWithAnySerial(w, g, serial) ==
  /\ CanConfigure(w)
  /\ next_serial' = IF serial > next_serial THEN serial ELSE next_serial
  /\ Track(w, g, serial)

\* configure_with_serial: the protocol numbered it; zero is refused.
ConfigureWithSerial(w, g, serial) ==
  /\ serial # 0
  /\ CanConfigure(w)
  /\ next_serial' = IF serial > next_serial THEN serial ELSE next_serial
  /\ Track(w, g, serial)

IsPending(w, serial) == pending[w] # NoRequest /\ pending[w].serial = serial

\* Mutant: any acknowledgement answers the pending request.
AcceptsAnySerial(w, serial) == states[w] = "AwaitingConfigure" /\ pending[w] # NoRequest

Accepts(w, serial) == states[w] = "AwaitingConfigure" /\ IsPending(w, serial)

Answered(w) ==
  /\ states' = [states EXCEPT ![w] = "ReadyToCommit"]
  /\ pending' = [pending EXCEPT ![w] = NoRequest]
  /\ next_serial' = next_serial

\* acknowledge: the whole transaction must be the pending one.
Acknowledge(w, serial, g) ==
  /\ Accepts(w, serial)
  /\ pending[w].geometry = g
  /\ Answered(w)

\* acknowledge_serial: xdg-shell returns the serial alone.
AcknowledgeSerial(w, serial) == Accepts(w, serial) /\ Answered(w)
-----------------------------------------------------------------------------
\* Time passes for every pending request; ages stop where they expire.
Elapse ==
  /\ pending' = [w \in Window |->
                   IF pending[w] = NoRequest \/ pending[w].age = Timeout
                     THEN pending[w]
                     ELSE [pending[w] EXCEPT !.age = @ + 1]]
  /\ UNCHANGED states /\ next_serial' = next_serial

Overdue == {w \in Window : pending[w] # NoRequest /\ pending[w].age = Timeout}

\* Mutant: the ledger drops what is overdue and the states stay.
ExpireLedgerOnly ==
  /\ pending' = [w \in Window |-> IF w \in Overdue THEN NoRequest ELSE pending[w]]
  /\ UNCHANGED states /\ next_serial' = next_serial

\* expire_configures: everything overdue leaves the ledger at once, and what
\* was awaiting an answer starts again.
Expire ==
  /\ pending' = [w \in Window |-> IF w \in Overdue THEN NoRequest ELSE pending[w]]
  /\ states' = [w \in Window |->
                  IF w \in Overdue /\ states[w] = "AwaitingConfigure"
                    THEN "New" ELSE states[w]]
  /\ next_serial' = next_serial

Commit(w) ==
  /\ states[w] = "ReadyToCommit"
  /\ states' = [states EXCEPT ![w] = "Mapped"]
  /\ UNCHANGED pending /\ next_serial' = next_serial

\* A null buffer takes a mapped toplevel back to its initial handshake.
Unmap(w) ==
  /\ states[w] = "Mapped"
  /\ states' = [states EXCEPT ![w] = "New"]
  /\ pending' = [pending EXCEPT ![w] = NoRequest]
  /\ next_serial' = next_serial

\* Mutant: the ledger keeps the request of a destroyed toplevel.
DestroyStateOnly(w) ==
  /\ states' = [states EXCEPT ![w] = "None"]
  /\ UNCHANGED pending /\ next_serial' = next_serial

Destroy(w) ==
  /\ states' = [states EXCEPT ![w] = "None"]
  /\ pending' = [pending EXCEPT ![w] = NoRequest]
  /\ next_serial' = next_serial
=============================================================================
