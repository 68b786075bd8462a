-------------------------- MODULE MCConfiguration --------------------------
(* Two layouts, two modes, two chords, and six texts for config.lua: three *)
(* good ones, one whose bindings and one whose default layout the runtime  *)
(* refuses, and one that does not load.                                    *)
EXTENDS Configuration, TLC

CONSTANTS spatial, tiling, normal, resize, c1, c2

Text(loads, default, bindings, layouts, modes) ==
  [loads |-> loads, default_ok |-> default, bindings_ok |-> bindings,
   layouts |-> layouts, modes |-> modes]

\* c1 enters a mode that c2 leaves; in the other text it enters one that does
\* not exist.
TwoModes == (normal :> (c1 :> resize)) @@ (resize :> (c2 :> normal))
OneMode == normal :> (c1 :> resize @@ c2 :> NoMode)
NoChords == normal :> (c2 :> NoMode)

MCScript ==
  {Text(TRUE, TRUE, TRUE, {spatial}, TwoModes),
   Text(TRUE, TRUE, TRUE, {spatial}, OneMode),
   Text(TRUE, TRUE, TRUE, {tiling}, NoChords),
   Text(TRUE, TRUE, FALSE, {tiling}, OneMode),
   Text(TRUE, FALSE, TRUE, {spatial}, NoChords),
   Text(FALSE, TRUE, TRUE, {}, NoChords)}
=============================================================================
