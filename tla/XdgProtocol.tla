----------------------------- MODULE XdgProtocol -----------------------------
(***************************************************************************)
(* XdgLifecycle under an arbitrary adapter and arbitrary clients: methods  *)
(* are called in any order, and acknowledgements name any serial, answered *)
(* or expired ones included.  Two history variables record what the method *)
(* arguments said, so that XdgHandshake can be the abstract specification. *)
(***************************************************************************)
EXTENDS XdgLifecycle

ASSUME XdgAssumption ==
  /\ MaxSerial \in Nat
  /\ Timeout \in Nat \ {0}
  /\ NoRequest \notin Request

VARIABLES latest,    \* window -> serial of the request that stands, or 0
          accepted   \* window -> serial the accepted acknowledgement named, or 0

vars == <<states, pending, next_serial, latest, accepted>>

\* The history of window w restarts whenever it is not in a handshake.
Forgotten(h, S) == [w \in Window |-> IF w \in S THEN 0 ELSE h[w]]

Init ==
  /\ XdgInit
  /\ latest = [w \in Window |-> 0]
  /\ accepted = [w \in Window |-> 0]

Restart(S) ==
  /\ latest' = Forgotten(latest, S)
  /\ accepted' = Forgotten(accepted, S)

Ask(w, serial) ==
  /\ latest' = [latest EXCEPT ![w] = serial]
  /\ accepted' = [accepted EXCEPT ![w] = 0]

Accept(w, serial) ==
  /\ accepted' = [accepted EXCEPT ![w] = serial]
  /\ UNCHANGED latest

\* Protocol serials only grow; 0 stands for an adapter that has none.
ProtocolSerial(serial) == serial = 0 \/ serial > next_serial

Next ==
  \/ \E w \in Window : Register(w) /\ Restart({w})
  \/ \E w \in Window, g \in Geometry : Configure(w, g) /\ Ask(w, next_serial + 1)
  \/ \E w \in Window, g \in Geometry, serial \in 0 .. MaxSerial :
       /\ ProtocolSerial(serial)
       /\ ConfigureWithSerial(w, g, serial)
       /\ Ask(w, serial)
  \/ \E w \in Window, serial \in Serial, g \in Geometry :
       Acknowledge(w, serial, g) /\ Accept(w, serial)
  \/ \E w \in Window, serial \in Serial :
       AcknowledgeSerial(w, serial) /\ Accept(w, serial)
  \/ Elapse /\ UNCHANGED <<latest, accepted>>
  \/ Expire /\ Restart({w \in Overdue : states[w] = "AwaitingConfigure"})
  \/ \E w \in Window : Commit(w) /\ UNCHANGED <<latest, accepted>>
  \/ \E w \in Window : Unmap(w) /\ Restart({w})
  \/ \E w \in Window : Destroy(w) /\ Restart({w})

Spec == Init /\ [][Next]_vars
-----------------------------------------------------------------------------
TypeOK ==
  /\ XdgTypeOK
  /\ latest \in [Window -> 0 .. MaxSerial]
  /\ accepted \in [Window -> 0 .. MaxSerial]

\* The two maps of the lifecycle agree: a toplevel awaits an answer only while
\* the ledger holds the request that stands, or no answer would be accepted
\* and no expiry would start it again; and a request left in the ledger can
\* answer nothing once its toplevel is past the handshake.
LedgerMatchesStates ==
  \A w \in Window :
    /\ states[w] = "AwaitingConfigure" => IsPending(w, latest[w])
    /\ pending[w] # NoRequest => states[w] \in {"New", "AwaitingConfigure"}

Handshake == INSTANCE XdgHandshake WITH
  Proposal <- Serial,
  None <- 0,
  live <- {w \in Window : states[w] # "None"},
  want <- latest,
  agreed <- accepted,
  shown <- {w \in Window : states[w] = "Mapped"}

\* The lifecycle implements the handshake: a toplevel is mapped only by content
\* that answers the latest configure, whatever is acknowledged late, twice or
\* out of order, and whatever expires, unmaps or is configured in between.
ImplementsHandshake == Handshake!Spec
=============================================================================
