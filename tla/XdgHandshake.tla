---------------------------- MODULE XdgHandshake ----------------------------
(***************************************************************************)
(* What the lifecycle guard promises a compositor about each toplevel: the *)
(* compositor proposes, the client agrees to a proposal, and only content  *)
(* that answers the latest proposal is shown.  No ledger, no timestamps,   *)
(* no surface states: only the last proposal and the one agreed to.        *)
(***************************************************************************)
EXTENDS Naturals

CONSTANTS Window, Proposal, None

VARIABLES live,     \* toplevels that exist
          want,     \* toplevel -> the proposal that stands, or None
          agreed,   \* toplevel -> the proposal its client agreed to, or None
          shown     \* toplevels whose content is shown

vars == <<live, want, agreed, shown>>

Init ==
  /\ live = {}
  /\ want = [w \in Window |-> None]
  /\ agreed = [w \in Window |-> None]
  /\ shown = {}

\* A toplevel appears, or starts over, with a first proposal or none yet.
Appear(w, p) ==
  /\ live' = live \cup {w}
  /\ want' = [want EXCEPT ![w] = p]
  /\ agreed' = [agreed EXCEPT ![w] = None]
  /\ shown' = shown \ {w}

\* A proposal stands until it is agreed to, withdrawn or replaced; what was
\* shown must be agreed to afresh.
Propose(w, p) ==
  /\ w \in live
  /\ agreed[w] = None \/ w \in shown
  /\ want' = [want EXCEPT ![w] = p]
  /\ agreed' = [agreed EXCEPT ![w] = None]
  /\ shown' = shown \ {w}
  /\ UNCHANGED live

\* A client can only agree to the proposal that stands.
Agree(w) ==
  /\ want[w] # None /\ agreed[w] = None
  /\ agreed' = [agreed EXCEPT ![w] = want[w]]
  /\ UNCHANGED <<live, want, shown>>

Withdraw(S) ==
  /\ \A w \in S : agreed[w] = None
  /\ want' = [w \in Window |-> IF w \in S THEN None ELSE want[w]]
  /\ UNCHANGED <<live, agreed, shown>>

Show(w) ==
  /\ agreed[w] # None /\ agreed[w] = want[w]
  /\ shown' = shown \cup {w}
  /\ UNCHANGED <<live, want, agreed>>

Hide(w) ==
  /\ w \in shown
  /\ want' = [want EXCEPT ![w] = None]
  /\ agreed' = [agreed EXCEPT ![w] = None]
  /\ shown' = shown \ {w}
  /\ UNCHANGED live

Vanish(w) ==
  /\ live' = live \ {w}
  /\ want' = [want EXCEPT ![w] = None]
  /\ agreed' = [agreed EXCEPT ![w] = None]
  /\ shown' = shown \ {w}

Next ==
  \/ \E w \in Window, p \in Proposal \cup {None} : Appear(w, p)
  \/ \E w \in Window : Agree(w) \/ Show(w) \/ Hide(w) \/ Vanish(w)
  \/ \E w \in Window, p \in Proposal : Propose(w, p)
  \/ \E S \in SUBSET Window : Withdraw(S)

Spec == Init /\ [][Next]_vars
=============================================================================
