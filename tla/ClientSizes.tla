---------------------------- MODULE ClientSizes ----------------------------
(***************************************************************************)
(* The nested session with the size each client draws at: the one carried  *)
(* by the last configure it acknowledged.                                  *)
(***************************************************************************)
EXTENDS NestedSession

VARIABLE size   \* surface -> the size of its last acknowledged configure

sizeVars == <<vars, size>>

\* An acknowledgement takes configures from the front of a client's queue.
Acknowledged(s) == Contains(toplevels', s) /\ Len(inbox'[s]) < Len(inbox[s])

SizedInit == Init /\ size = [s \in Surface |-> NoRect]

SizedNext ==
  /\ Next
  /\ size' = [s \in Surface |->
                IF Acknowledged(s)
                  THEN inbox[s][Len(inbox[s]) - Len(inbox'[s])].size
                  ELSE size[s]]

SizedSpec == SizedInit /\ [][SizedNext]_sizeVars
-----------------------------------------------------------------------------
\* A mapped toplevel with no configure under way is drawn at the size of the
\* rectangle it is painted in.
SettledSizeIsPainted ==
  phase = "frame" =>
    \A w \in Window :
      states[w] = "Mapped" /\ HasToplevel(w) /\ Contains(window_order, w)
        => size[ToplevelOf(w)] = window_geometry[w]
=============================================================================
