---------------------------- MODULE RoundingProof ----------------------------
(***************************************************************************)
(* The properties of Rounding, for every set of paths that has an outline. *)
(* The invariant is that of the outline: the registers a state has are the *)
(* ones its point of the outline gives for the registers found.            *)
(***************************************************************************)
EXTENDS RoundingOutline, TLAPS

(* The point before an instruction has registers and saved directions of    *)
(* the right types: what GAOL_RND_LEAVE() restores is a direction.          *)
LEMMA PointsAreTyped ==
  ASSUME NEW p \in Paths, NEW n \in 1 .. Len(p) + 1, NEW f \in Regs
  PROVE  /\ Outline[p][n].regs[f] \in Regs
         /\ Outline[p][n].saved[f] \in [Slots -> Regs]
         /\ Outline[p][n].pending \subseteq SUBSET Dirs
<1>1. Outline[p][n] \in Points
  BY OutlineAssumption DEF OutlineIsTyped
<1> QED BY <1>1 DEF Points

(* An instruction of a path of the library is one of the macros, and its    *)
(* "good" a set of directions.                                              *)
LEMMA InstructionsAreTyped ==
  ASSUME NEW p \in Paths, NEW n \in 1 .. Len(p)
  PROVE  p[n] \in Instructions
<1>1. p \in Seq(Instructions)
  BY PathsAssumption
<1> QED BY <1>1

LEMMA LenIsNat ==
  ASSUME NEW p \in Paths
  PROVE  Len(p) \in Nat
<1>1. p \in Seq(Instructions)
  BY PathsAssumption
<1> QED BY <1>1

(* A macro takes a state at its point of the outline to the next point, and  *)
(* leaves no more results to compute than the next point expects.           *)
LEMMA StepFollows ==
  ASSUME NEW p \in Paths, NEW n \in 1 .. Len(p), NEW f \in Regs,
         NEW q \in SUBSET Outline[p][n].pending
  PROVE  LET b == Outline[p][n]  a == Outline[p][n + 1] IN
           /\ a.regs[f] = RegsAfter(p[n], b.regs[f], b.saved[f])
           /\ a.saved[f] = SavedAfter(p[n], b.regs[f], b.saved[f])
           /\ PendingAfter(p[n], q) \subseteq a.pending
<1>1. Follows(p)
  BY OutlineAssumption
<1>2. Outline[p][n + 1].pending = PendingAfter(p[n], Outline[p][n].pending)
  BY <1>1 DEF Follows
<1>3. PendingAfter(p[n], q) \subseteq PendingAfter(p[n], Outline[p][n].pending)
  BY DEF PendingAfter
<1> QED BY <1>1, <1>2, <1>3 DEF Follows

(* A result computed where it is written moves nothing.                     *)
LEMMA NowKeepsItsPoint ==
  ASSUME NEW p \in Paths, NEW n \in 1 .. Len(p), p[n].op = "now", NEW f \in Regs
  PROVE  LET b == Outline[p][n]  a == Outline[p][n + 1] IN
           /\ a.regs[f] = b.regs[f]
           /\ a.saved[f] = b.saved[f]
           /\ a.pending = b.pending
<1>1. Follows(p)
  BY OutlineAssumption
<1>2. /\ RegsAfter(p[n], Outline[p][n].regs[f], Outline[p][n].saved[f]) = Outline[p][n].regs[f]
      /\ SavedAfter(p[n], Outline[p][n].regs[f], Outline[p][n].saved[f]) = Outline[p][n].saved[f]
      /\ PendingAfter(p[n], Outline[p][n].pending) = Outline[p][n].pending
  BY DEF RegsAfter, SavedAfter, PendingAfter, Forces
<1> QED BY <1>1, <1>2 DEF Follows

-----------------------------------------------------------------------------
LEMMA InitEstablishesIInv == Init => IInv
<1> SUFFICES ASSUME Init PROVE IInv
  OBVIOUS
<1>1. Both("near") \in Regs
  BY DEF Both, Regs, Dirs
<1> QED BY <1>1 DEF Init, IInv, TypeOK, Idle, BoundsRoundedRight

LEMMA NextPreservesIInv == IInv /\ [Next]_vars => IInv'
<1> SUFFICES ASSUME IInv, [Next]_vars
             PROVE  IInv'
  OBVIOUS
<1>t. TypeOK /\ BoundsRoundedRight /\ (IF Idle THEN path = << >> /\ pending = {} ELSE AtItsPoint)
  BY DEF IInv
<1>a. pc \in 1 .. Len(path) => ~Idle
  BY DEF Idle
<1>1. CASE CallerSets
  <2>1. regs' \in Regs
    BY <1>1 DEF CallerSets, Regs
  <2> QED BY <1>1, <1>t, <2>1 DEF CallerSets, IInv, TypeOK, Idle, BoundsRoundedRight
<1>2. CASE \E p \in Paths : Call(p)
  <2> PICK p \in Paths : Call(p)
    BY <1>2
  <2>1. regs \in Regs /\ regs' = regs /\ path' = p /\ pc' = 1 /\ found' = regs
        /\ saved' = [k \in Slots |-> regs] /\ pending' = {} /\ results' = {}
    BY <1>t DEF Call, Idle, TypeOK
  <2>2. Len(p) \in Nat
    BY LenIsNat
  <2>3. StartsAsFound(p)
    BY OutlineAssumption
  <2>4. AtItsPoint'
    <3>1. /\ Outline[p][1].regs[regs] = regs
          /\ Outline[p][1].saved[regs] = [k \in Slots |-> regs]
      BY <2>1, <2>3 DEF StartsAsFound
    <3>2. 1 \in 1 .. Len(p) + 1
      BY <2>2
    <3>3. /\ regs' = Outline[path'][pc'].regs[found']
          /\ saved' = Outline[path'][pc'].saved[found']
      BY <2>1, <3>1
    <3>4. path' \in Paths /\ pc' \in 1 .. Len(path') + 1 /\ pending' = {}
      BY <2>1, <3>2
    <3> QED BY <3>3, <3>4 DEF AtItsPoint
  <2>5. TypeOK'
    BY <2>1 DEF TypeOK
  <2> QED BY <2>1, <2>4, <2>5 DEF IInv, Idle, BoundsRoundedRight
<1>3. CASE Execute
  <2>1. AtItsPoint
    BY <1>3, <1>a, <1>t DEF Execute
  <2>2. /\ path \in Paths /\ pc \in 1 .. Len(path) /\ found \in Regs
        /\ regs = Outline[path][pc].regs[found]
        /\ saved = Outline[path][pc].saved[found]
        /\ pending \in SUBSET Outline[path][pc].pending
    BY <2>1, <1>3, <1>t DEF AtItsPoint, Execute, TypeOK
  <2>3. /\ regs' = Outline[path][pc + 1].regs[found]
        /\ saved' = Outline[path][pc + 1].saved[found]
        /\ pending' \subseteq Outline[path][pc + 1].pending
    BY <1>3, <2>2, StepFollows DEF Execute, At
  <2>4. Len(path) \in Nat
    BY <2>2, LenIsNat
  <2>5. pc + 1 \in 1 .. Len(path) + 1 /\ pc + 1 # 0 /\ pc + 1 \in Nat
    BY <2>2, <2>4
  <2>6. /\ regs' \in Regs
        /\ saved' \in [Slots -> Regs]
        /\ pending' \subseteq SUBSET Dirs
    BY <2>2, <2>3, <2>5, PointsAreTyped
  <2>7. TypeOK'
    BY <1>3, <1>t, <2>5, <2>6 DEF Execute, TypeOK
  <2>8. AtItsPoint'
    BY <1>3, <2>2, <2>3, <2>5 DEF Execute, AtItsPoint
  <2> QED BY <1>3, <1>t, <2>5, <2>7, <2>8 DEF Execute, IInv, Idle, BoundsRoundedRight
<1>4. CASE ComputeNow
  <2>1. AtItsPoint
    BY <1>4, <1>a, <1>t DEF ComputeNow
  <2>2. /\ path \in Paths /\ pc \in 1 .. Len(path) /\ found \in Regs
        /\ regs = Outline[path][pc].regs[found]
        /\ saved = Outline[path][pc].saved[found]
        /\ pending \subseteq Outline[path][pc].pending
    BY <2>1, <1>4, <1>t DEF AtItsPoint, ComputeNow, TypeOK
  <2>3. /\ regs' = Outline[path][pc + 1].regs[found]
        /\ saved' = Outline[path][pc + 1].saved[found]
        /\ pending' \subseteq Outline[path][pc + 1].pending
    BY <1>4, <2>2, NowKeepsItsPoint DEF ComputeNow, At
  <2>4. Len(path) \in Nat
    BY <2>2, LenIsNat
  <2>5. pc + 1 \in 1 .. Len(path) + 1 /\ pc + 1 # 0 /\ pc + 1 \in Nat
    BY <2>2, <2>4
  <2>6. path[pc] \in Instructions
    BY <2>2, InstructionsAreTyped
  <2>7. [good |-> path[pc].good, at |-> regs.sse] \in Results
    BY <2>6, <1>t DEF Instructions, Results, TypeOK, Regs
  <2>8. TypeOK'
    BY <1>4, <1>t, <2>5, <2>7 DEF ComputeNow, TypeOK, At
  <2>9. regs.sse \in path[pc].good
    BY <1>4, <2>2, OutlineAssumption DEF RightWhereComputed, ComputeNow, At
  <2>10. BoundsRoundedRight'
    BY <1>4, <1>t, <2>9 DEF ComputeNow, BoundsRoundedRight, At
  <2>11. AtItsPoint'
    BY <1>4, <2>2, <2>3, <2>5 DEF ComputeNow, AtItsPoint
  <2> QED BY <1>4, <2>5, <2>8, <2>10, <2>11 DEF ComputeNow, IInv, Idle
<1>5. CASE \E g \in pending : ComputeLater(g)
  <2> PICK g \in pending : ComputeLater(g)
    BY <1>5
  <2>1. ~Idle /\ AtItsPoint
    BY <1>t
  <2>2. /\ path \in Paths /\ pc \in 1 .. Len(path) + 1 /\ found \in Regs
        /\ regs = Outline[path][pc].regs[found]
        /\ g \in Outline[path][pc].pending
    BY <2>1, <1>t DEF AtItsPoint, TypeOK
  <2>3. regs.sse \in g
    BY <2>2, OutlineAssumption DEF RightWhereComputed
  <2>4. [good |-> g, at |-> regs.sse] \in Results
    BY <1>t DEF Results, TypeOK, Regs
  <2>5. TypeOK'
    BY <1>t, <2>4 DEF ComputeLater, TypeOK
  <2>6. BoundsRoundedRight'
    BY <1>t, <2>3 DEF ComputeLater, BoundsRoundedRight
  <2>7. AtItsPoint' /\ ~Idle'
    BY <2>1 DEF ComputeLater, AtItsPoint, Idle
  <2> QED BY <2>5, <2>6, <2>7 DEF IInv
<1>6. CASE Return
  <2>1. TypeOK'
    BY <1>6, <1>t DEF Return, TypeOK
  <2> QED BY <1>6, <1>t, <2>1 DEF Return, IInv, Idle, BoundsRoundedRight
<1>7. CASE UNCHANGED vars
  BY <1>7, <1>t DEF vars, IInv, TypeOK, Idle, AtItsPoint, BoundsRoundedRight
<1> QED BY <1>1, <1>2, <1>3, <1>4, <1>5, <1>6, <1>7 DEF Next

-----------------------------------------------------------------------------
(* In every state within an operation, the registers are where the outline   *)
(* of its path has them: the macros nest as the frames of the calls do.      *)
THEOREM OutlineHolds == Spec => []IInv
<1> QED BY InitEstablishesIInv, NextPreservesIInv, PTL DEF Spec

(* The state has its type in every behaviour of every outlined set of paths: *)
(* what the macros save and restore are directions, in both registers.       *)
THEOREM TypeCorrect == Spec => []TypeOK
<1>1. IInv => TypeOK
  BY DEF IInv
<1> QED BY <1>1, OutlineHolds, PTL

(* No result is computed in a direction that makes it wrong, from any        *)
(* directions of the two registers, and wherever the compiler computes the   *)
(* results the source does not keep.                                         *)
THEOREM Soundness == Spec => []BoundsRoundedRight
<1>1. IInv => BoundsRoundedRight
  BY DEF IInv
<1> QED BY <1>1, OutlineHolds, PTL

LEMMA IInvKeepsContract == IInv => DirectionContract
<1> SUFFICES ASSUME IInv, pc = Len(path) + 1
             PROVE  regs \in Allowed(found)
  BY DEF DirectionContract
<1>1. ~Idle
  BY DEF IInv, Idle
<1>2. /\ path \in Paths /\ found \in Regs
      /\ regs = Outline[path][Len(path) + 1].regs[found]
  BY <1>1 DEF IInv, AtItsPoint, TypeOK
<1> QED BY <1>2, OutlineAssumption DEF EndsAsAllowed

(* Every operation that runs to its end leaves the registers as it found     *)
(* them, or upward unless the direction is preserved.                        *)
THEOREM DirectionRestored == Spec => []DirectionContract
<1> QED BY IInvKeepsContract, OutlineHolds, PTL

(* The machine of the macros implements the contract of doc/using.md: the    *)
(* calling code sees each operation as one step, at its return.              *)
THEOREM Implementation == Spec => ImplementsContract
<1>1. Init => C!Init
  <2> SUFFICES ASSUME Init PROVE C!Init
    OBVIOUS
  <2>1. Both("near") \in Regs
    BY DEF Both, Regs, Dirs
  <2> QED BY <2>1 DEF Init, C!Init, Idle, BoundsRoundedRight
<1>2. IInv /\ IInv' /\ [Next]_vars => [C!Next]_C!vars
  <2> SUFFICES ASSUME IInv, IInv', [Next]_vars
               PROVE  C!Next \/ UNCHANGED C!vars
    OBVIOUS
  <2>s. BoundsRoundedRight = TRUE /\ BoundsRoundedRight' = TRUE
    BY DEF IInv, BoundsRoundedRight
  <2>a. pc \in 1 .. Len(path) => ~Idle
    BY DEF Idle
  <2>1. CASE CallerSets
    <3>1. Idle /\ Idle' /\ regs' \in Regs
      BY <2>1 DEF CallerSets, Regs, Idle
    <3> QED BY <2>s, <3>1 DEF C!Next, C!CallerSets
  <2>2. CASE \E p \in Paths : Call(p)
    <3>1. Idle /\ ~Idle' /\ found' = regs
      BY <2>2 DEF Call, Idle
    <3> QED BY <2>s, <3>1 DEF C!vars
  <2>3. CASE Execute
    <3>1. ~Idle /\ pc \in Nat /\ pc' = pc + 1 /\ found' = found
      BY <2>3, <2>a DEF Execute, IInv, TypeOK
    <3>2. ~Idle'
      BY <3>1 DEF Idle
    <3> QED BY <2>s, <3>1, <3>2 DEF C!vars
  <2>4. CASE ComputeNow
    <3>1. ~Idle /\ pc \in Nat /\ pc' = pc + 1 /\ found' = found
      BY <2>4, <2>a DEF ComputeNow, IInv, TypeOK
    <3>2. ~Idle'
      BY <3>1 DEF Idle
    <3> QED BY <2>s, <3>1, <3>2 DEF C!vars
  <2>5. CASE \E g \in pending : ComputeLater(g)
    <3>1. UNCHANGED <<regs, pc, found>>
      BY <2>5 DEF ComputeLater
    <3> QED BY <2>s, <3>1 DEF C!vars, Idle
  <2>6. CASE Return
    <3>1. regs \in Allowed(found)
      BY <2>6, IInvKeepsContract DEF DirectionContract, Return
    <3>2. ~Idle /\ Idle' /\ regs' = regs
      BY <2>6 DEF Return, Idle, IInv
    <3> QED BY <2>s, <3>1, <3>2 DEF C!Next, C!Operation, Allowed
  <2>7. CASE UNCHANGED vars
    BY <2>s, <2>7 DEF vars, C!vars, Idle
  <2> QED BY <2>1, <2>2, <2>3, <2>4, <2>5, <2>6, <2>7 DEF Next
<1> QED BY <1>1, <1>2, OutlineHolds, PTL DEF Spec, ImplementsContract, C!Spec
=============================================================================
