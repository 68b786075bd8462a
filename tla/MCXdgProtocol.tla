--------------------------- MODULE MCXdgProtocol ---------------------------
(* Two toplevels sharing six serials, so that a request can be superseded,*)
(* expired and acknowledged late while another window's is pending.        *)
EXTENDS XdgProtocol
=============================================================================
