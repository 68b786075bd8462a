------------------------- MODULE MCSessionServices -------------------------
(* Bindings and rules of the instance: one chord asks for a launch and     *)
(* enters another mode, where it asks for a launch without an executable;  *)
(* one kind of window is sent to a layout and asks for a launch.           *)
EXTENDS SessionServices, TLC

CONSTANTS
  normal, spawning, chord, spatial, tiling, terminal, browser, editor, first, second

MCBinding ==
  (normal :> (chord :> [name |-> "spawn", argument |-> terminal, next_mode |-> spawning]))
    @@ (spawning :> (chord :> [name |-> "spawn", argument |-> Missing, next_mode |-> normal]))

MCRules ==
  <<[priority |-> 2, matches |-> {browser}, stop |-> FALSE,
     actions |-> <<[name |-> "spawn", argument |-> Invalid],
                   [name |-> "select_layout", argument |-> tiling]>>],
    [priority |-> 1, matches |-> {browser}, stop |-> FALSE,
     actions |-> <<[name |-> "spawn", argument |-> terminal]>>],
    [priority |-> 3, matches |-> {editor, browser}, stop |-> TRUE, actions |-> <<>>],
    [priority |-> 3, matches |-> {editor, browser}, stop |-> FALSE,
     actions |-> <<[name |-> "cancel_pending_spawn", argument |-> Missing]>>]>>

MCHook == {"on_startup", "on_workspace_change", "on_window_open", "on_reload"}

\* Up to four rules of two priorities, matching or not, stopping or not.
MCRule ==
  [priority : {1, 2}, matches : {{}, {browser}}, stop : BOOLEAN, actions : {<<>>}]

\* On all of these evaluate collects the actions of exactly the rules that no
\* earlier matching rule stops, in the order of their priorities.
ASSUME RulesEvaluateAsSpecified ==
  \A n \in 0 .. 4 : \A rules \in [1 .. n -> MCRule] : EvaluatesAsSpecified(rules, browser)

\* Bound: clients and windows become active with one process and an untouched
\* installation; everything else happens to a session that nobody uses.
Busy == shown # {} \/ events # <<>> \/ \E c \in Client : client[c] # "idle"

Scope ==
  Busy => /\ \A d \in Default : defaults[d] = "shipped"
          /\ step[second] = "off"
=============================================================================
