---------------------------- MODULE MCRenderGate ----------------------------
(***************************************************************************)
(* An instance of RenderGate for TLC: three threads, three priorities.     *)
(***************************************************************************)
EXTENDS RenderGate

CONSTANTS c1, c2, c3

Thumbnail == 1
Viewer == 3
Interactive == 4

MCCallers == {c1, c2, c3}
MCPriorities == {Thumbnail, Viewer, Interactive}

=============================================================================
