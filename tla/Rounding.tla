------------------------------ MODULE Rounding ------------------------------
(***************************************************************************)
(* The rounding-direction discipline of GAOL (gaol/gaol_fpu.h).            *)
(*                                                                         *)
(* GAOL computes the bounds of its intervals in the upward rounding        *)
(* direction, calls the mathematical library in the direction to nearest,  *)
(* and runs inside programs that set the direction as they please.  On x86 *)
(* the direction is in two registers: the control word of the x87 unit,    *)
(* that fegetround() reads, and MXCSR, in which the doubles are rounded.   *)
(*                                                                         *)
(* An operation of the library is a straight-line path through the macros  *)
(* of gaol_fpu.h, the calls inlined, each frame of a nested call having a  *)
(* slot of its own for the direction it saves.  Module GaolRounding gives  *)
(* the paths of the code.  A result the source computes into a local       *)
(* variable may be computed later than written, after a change of          *)
(* direction: the compiler does not model the direction (gaol_fpu.h,       *)
(* lines 72-80), and only rnd_keep() forces the computation.               *)
(***************************************************************************)
EXTENDS Naturals, Sequences

CONSTANTS
  Preserve,   \* Built with GAOL_PRESERVE_ROUNDING
  Slots,      \* The variables _save_state... of the frames of a path
  Paths       \* The paths through the operations: sequences of instructions

Dirs == {"near", "down", "up", "zero"}

(* What fegetround() and _mm_getcsr() read: gaol::rounding_state *)
Regs == [x87 : Dirs, sse : Dirs]

Both(d) == [x87 |-> d, sse |-> d]

(* The macros and functions an instruction stands for.  "local" computes    *)
(* into a local variable, "now" into an object or through a function of the *)
(* C library, which the compiler keeps in place; "use" is a branch that     *)
(* depends on the results computed so far.                                  *)
Macros == {"ENTER", "LEAVE", "ENTER_SSE", "LEAVE_SSE", "PRESERVE", "RESTORE",
           "NEAREST_ENTER", "NEAREST_LEAVE", "KEEP",
           "round_upward", "round_downward", "round_nearest",
           "rnd_keep", "local", "now", "use"}

(* k: the slot of a frame; good: the directions that make a result right *)
Instructions == [op : Macros, k : Slots, good : SUBSET Dirs]

ASSUME PreserveAssumption == Preserve \in BOOLEAN
ASSUME PathsAssumption == Paths \subseteq Seq(Instructions)

-----------------------------------------------------------------------------
(***************************************************************************)
(* The effect of an instruction on the registers r, s being the saved      *)
(* directions.                                                             *)
(***************************************************************************)

(* 1 + 2^-60 is above 1 only where the doubles are rounded upward *)
round_upward_if_needed(r) == IF r.sse = "up" THEN r ELSE Both("up")

(* set_rounding(): fesetround(), then the rounding bits of MXCSR *)
set_rounding(s) == [x87 |-> s.x87, sse |-> s.sse]

RegsAfter(i, r, s) ==
  CASE i.op = "ENTER"          -> round_upward_if_needed(r)
    [] i.op = "ENTER_SSE"      -> IF Preserve THEN [r EXCEPT !.sse = "up"]
                                              ELSE round_upward_if_needed(r)
    [] i.op = "LEAVE"          -> IF Preserve THEN set_rounding(s[i.k]) ELSE r
    [] i.op = "LEAVE_SSE"      -> IF Preserve THEN [r EXCEPT !.sse = s[i.k].sse]
                                              ELSE r
    [] i.op = "RESTORE"        -> IF Preserve THEN set_rounding(s[i.k]) ELSE Both("up")
    [] i.op = "NEAREST_ENTER"  -> Both("near")
    [] i.op = "NEAREST_LEAVE"  -> IF Preserve THEN set_rounding(s[i.k]) ELSE Both("up")
    [] i.op = "round_upward"   -> Both("up")
    [] i.op = "round_downward" -> Both("down")
    [] i.op = "round_nearest"  -> Both("near")
    [] OTHER                   -> r

(* get_rounding() into the slot of the frame that opens *)
SavedAfter(i, r, s) ==
  IF Preserve /\ i.op \in {"ENTER", "ENTER_SSE", "PRESERVE", "NEAREST_ENTER"}
  THEN [s EXCEPT ![i.k] = r]
  ELSE s

(* The results that are computed at i at the latest: GAOL_RND_KEEP() is      *)
(* rnd_keep() when the direction is preserved, and nothing otherwise.       *)
Forces(i) == i.op \in {"rnd_keep", "use"} \/ (i.op = "KEEP" /\ Preserve)

PendingAfter(i, p) ==
  IF Forces(i) THEN {}
  ELSE IF i.op = "local" THEN p \union {i.good}
  ELSE p

(***************************************************************************)
(* What an operation may leave: the direction it found, or the upward one  *)
(* unless the direction is preserved.                                      *)
(***************************************************************************)
Allowed(f) == IF Preserve THEN {f} ELSE {f, Both("up")}

-----------------------------------------------------------------------------
VARIABLES
  regs,      \* The two control registers
  path,      \* The path of the operation running, << >> between operations
  pc,        \* The instruction it is at
  found,     \* The registers it was called with
  saved,     \* What its frames saved
  pending,   \* Results written in the source, not computed yet: their "good"
  results    \* The results computed: the directions wanted and the actual one

vars == <<regs, path, pc, found, saved, pending, results>>

Results == [good : SUBSET Dirs, at : Dirs]

TypeOK ==
  /\ regs \in Regs
  /\ path \in Paths \union {<< >>}
  /\ pc \in Nat
  /\ found \in Regs
  /\ saved \in [Slots -> Regs]
  /\ pending \subseteq SUBSET Dirs
  /\ results \subseteq Results

Init ==
  /\ regs = Both("near")
  /\ path = << >>
  /\ pc = 0
  /\ found = regs
  /\ saved = [k \in Slots |-> regs]
  /\ pending = {}
  /\ results = {}

Idle == pc = 0

(* The calling code: fesetround(d), then d2 into MXCSR, before an operation *)
CallerSets ==
  /\ Idle
  /\ \E d, d2 \in Dirs : regs' = [x87 |-> d, sse |-> d2]
  /\ UNCHANGED <<path, pc, found, saved, pending, results>>

Call(p) ==
  /\ Idle
  /\ path' = p
  /\ pc' = 1
  /\ found' = regs
  /\ saved' = [k \in Slots |-> regs]
  /\ results' = {}
  /\ UNCHANGED <<regs, pending>>

At == path[pc]

(* Mutant: rnd_keep() lets the result wait *)
ExecuteUnforced ==
  /\ pc \in 1 .. Len(path)
  /\ At.op # "now"
  /\ regs' = RegsAfter(At, regs, saved)
  /\ saved' = SavedAfter(At, regs, saved)
  /\ pending' = IF Forces(At) THEN pending ELSE PendingAfter(At, pending)
  /\ pc' = pc + 1
  /\ UNCHANGED <<path, found, results>>

(* Mutant: the direction saved once changed *)
ExecuteSavesLate ==
  /\ pc \in 1 .. Len(path)
  /\ At.op # "now"
  /\ Forces(At) => pending = {}
  /\ regs' = RegsAfter(At, regs, saved)
  /\ saved' = SavedAfter(At, regs', saved)
  /\ pending' = PendingAfter(At, pending)
  /\ pc' = pc + 1
  /\ UNCHANGED <<path, found, results>>

(* The macros, and the functions that set the direction *)
Execute ==
  /\ pc \in 1 .. Len(path)
  /\ At.op # "now"
  /\ Forces(At) => pending = {}
  /\ regs' = RegsAfter(At, regs, saved)
  /\ saved' = SavedAfter(At, regs, saved)
  /\ pending' = PendingAfter(At, pending)
  /\ pc' = pc + 1
  /\ UNCHANGED <<path, found, results>>

(* A result computed where it is written *)
ComputeNow ==
  /\ pc \in 1 .. Len(path)
  /\ At.op = "now"
  /\ results' = results \union {[good |-> At.good, at |-> regs.sse]}
  /\ pc' = pc + 1
  /\ UNCHANGED <<regs, path, found, saved, pending>>

(* The compiler computes a local result at any point until it is needed *)
ComputeLater(g) ==
  /\ pending' = pending \ {g}
  /\ results' = results \union {[good |-> g, at |-> regs.sse]}
  /\ UNCHANGED <<regs, path, pc, found, saved>>

(* The caller takes the results *)
Return ==
  /\ pc = Len(path) + 1
  /\ pending = {}
  /\ path' = << >>
  /\ pc' = 0
  /\ UNCHANGED <<regs, found, saved, pending, results>>

Next ==
  \/ CallerSets
  \/ \E p \in Paths : Call(p)
  \/ Execute
  \/ ComputeNow
  \/ \E g \in pending : ComputeLater(g)
  \/ Return

Spec == Init /\ [][Next]_vars

-----------------------------------------------------------------------------
(* Every result is computed in a direction that makes it right, whatever    *)
(* direction the caller left in either register, in the frames of nested    *)
(* operations, and however late the compiler computes it (gaol_fpu.h:54-80, *)
(* and the test rounding_direction: "Whatever the direction, it has to give *)
(* the same result").                                                       *)
BoundsRoundedRight == \A r \in results : r.at \in r.good

(* An operation that has run to its end, by any of its returns, leaves the  *)
(* direction it found, or upward in both registers; with                    *)
(* GAOL_PRESERVE_ROUNDING, what it found (doc/using.md:81-91).              *)
DirectionContract == pc = Len(path) + 1 => regs \in Allowed(found)

-----------------------------------------------------------------------------
(* The calling code sees the direction between operations, and the results  *)
C == INSTANCE RoundingContract WITH
       Directions <- Regs,
       Upward     <- Both("up"),
       direction  <- IF Idle THEN regs ELSE found,
       sound      <- BoundsRoundedRight

(* Rounding implements the contract: seen from the calling code, every      *)
(* operation is a step that leaves the direction as found or upward, and    *)
(* never rounds a result the wrong way (doc/using.md:81-91)                 *)
ImplementsContract == C!Spec
=============================================================================
