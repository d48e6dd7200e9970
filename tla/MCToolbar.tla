------------------------------ MODULE MCToolbar ------------------------------
(* The instance of Toolbar, with the invariant of its proofs.                *)
EXTENDS ToolbarInv
=============================================================================
