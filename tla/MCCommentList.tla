---------------------------- MODULE MCCommentList ----------------------------
(* Two processes, and a buffer of four symbols: two symbols fit, the last    *)
(* symbol of three is cut off, six become two texts.  <<4>> is "switch ".    *)
EXTENDS CommentList

MCMachineText == <<4>>
MCFit  == <<1, 2>>
MCEdge == <<1, 2, 3>>
MCLong == MCEdge \o MCEdge
MCComments == {MCMachineText, MCFit, MCEdge, MCLong}
MCMachine == [k \in Kinds |-> IF k = 0 THEN {MCMachineText} ELSE {}]
MCDefault == <<MCFit>>

MCPrograms ==
  {[l \in Places |-> CASE l = <<1, 0>> -> MCMachineText [] l = <<1, 1>> -> MCEdge
                      [] l = <<2, 0>> -> MCLong [] l = <<2, 1>> -> MCEdge]}
MCSymmetry == Permutations(Procs)
=============================================================================
