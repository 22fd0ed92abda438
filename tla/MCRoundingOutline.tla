-------------------------- MODULE MCRoundingOutline --------------------------
(***************************************************************************)
(* The outline of the paths of GAOL, computed forward from the registers   *)
(* found, whose verification conditions TLC evaluates with each run.       *)
(***************************************************************************)
EXTENDS MCRounding, RoundingOutline

OutlineOf(p) ==
  LET point[n \in 1 .. Len(p) + 1] ==
        IF n = 1
        THEN [regs    |-> [f \in Regs |-> f],
              saved   |-> [f \in Regs |-> [k \in Slots |-> f]],
              pending |-> {}]
        ELSE LET i == p[n - 1]  b == point[n - 1] IN
             [regs    |-> [f \in Regs |-> RegsAfter(i, b.regs[f], b.saved[f])],
              saved   |-> [f \in Regs |-> SavedAfter(i, b.regs[f], b.saved[f])],
              pending |-> PendingAfter(i, b.pending)]
  IN point

MCOutline == [p \in MCPaths |-> OutlineOf(p)]
=============================================================================
