--------------------------- MODULE RoundingOutline ---------------------------
(***************************************************************************)
(* A proof outline of the paths of Rounding, in the manner of Floyd: what  *)
(* holds before each instruction of each path, as a function of the        *)
(* registers found.  The outline is a parameter, and its verification      *)
(* conditions are assumptions, local to one instruction each: TLC          *)
(* evaluates them on the paths of GAOL, and RoundingProof derives the      *)
(* properties of every behaviour from them.                                *)
(***************************************************************************)
EXTENDS Rounding

CONSTANT Outline

(* Before an instruction, for each direction found: the registers, what the *)
(* frames saved; and the results that may not be computed yet               *)
Points == [regs : [Regs -> Regs], saved : [Regs -> [Slots -> Regs]],
           pending : SUBSET SUBSET Dirs]

OutlineIsTyped(p) == Outline[p] \in [1 .. Len(p) + 1 -> Points]

StartsAsFound(p) ==
  \A f \in Regs : /\ Outline[p][1].regs[f] = f
                  /\ Outline[p][1].saved[f] = [k \in Slots |-> f]

(* Each instruction leads from its point to the next one *)
Follows(p) ==
  \A n \in 1 .. Len(p) :
    LET i == p[n]  b == Outline[p][n]  a == Outline[p][n + 1] IN
    /\ \A f \in Regs : /\ a.regs[f] = RegsAfter(i, b.regs[f], b.saved[f])
                       /\ a.saved[f] = SavedAfter(i, b.regs[f], b.saved[f])
    /\ a.pending = PendingAfter(i, b.pending)

(* A result is right computed where it is written, and everywhere the       *)
(* compiler may compute it                                                  *)
RightWhereComputed(p) ==
  /\ \A n \in 1 .. Len(p) : p[n].op = "now" =>
       \A f \in Regs : Outline[p][n].regs[f].sse \in p[n].good
  /\ \A n \in 1 .. Len(p) + 1 : \A g \in Outline[p][n].pending :
       \A f \in Regs : Outline[p][n].regs[f].sse \in g

EndsAsAllowed(p) ==
  \A f \in Regs : Outline[p][Len(p) + 1].regs[f] \in Allowed(f)

ASSUME OutlineAssumption ==
  \A p \in Paths :
    /\ OutlineIsTyped(p)
    /\ StartsAsFound(p)
    /\ Follows(p)
    /\ RightWhereComputed(p)
    /\ EndsAsAllowed(p)

-----------------------------------------------------------------------------
(* What the outline says of a state within an operation *)
AtItsPoint ==
  LET point == Outline[path][pc] IN
    /\ path \in Paths
    /\ pc \in 1 .. Len(path) + 1
    /\ regs = point.regs[found]
    /\ saved = point.saved[found]
    /\ pending \subseteq point.pending

(* The inductive invariant: between operations no result is left to compute, *)
(* within one the macros of the frames opened so far (gaol_fpu.h:82-122)    *)
(* have put the registers where the outline has them, and no result has     *)
(* been rounded the wrong way.                                              *)
IInv ==
  /\ TypeOK
  /\ IF Idle THEN path = << >> /\ pending = {} ELSE AtItsPoint
  /\ BoundsRoundedRight
=============================================================================
