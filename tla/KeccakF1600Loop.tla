--------------------------- MODULE KeccakF1600Loop ---------------------------
(***************************************************************************)
(* The call KeccakF1600(s) of sha3.c, loop by loop.  One action per        *)
(* statement of the round loop: theta (with the set-up of the walk that    *)
(* follows it), one iteration of the rho-pi walk, chi, and iota (its seven *)
(* LFSR steps).  The locals of the C function (i, R, x, y, r, D, j) are    *)
(* variables because their values are carried from step to step.          *)
(*                                                                         *)
(* perm is the call interface shared with the sponge (Sponge): the caller  *)
(* sets it to "call"; Enter initialises the locals; Return hands the state *)
(* s back by setting it to "idle".                                         *)
(***************************************************************************)
EXTENDS KeccakF1600

VARIABLES
    s,       \* u8 s[200], bit by bit (KeccakF1600.tla)
    perm,    \* "idle", "call" (requested by the caller) or "busy"
    phase,   \* the statement of the round body to execute next
    i,       \* round counter of for(i=0; i<24; i++)
    R,       \* u8 R, the iota LFSR, seeded to 0x01 on entry
    x, y, r, D, j,   \* the rho-pi walk's locals
    sRound   \* history: s at the start of the current round

loopVars == << s, perm, phase, i, R, x, y, r, D, j, sRound >>

Phases == {"theta", "rhopi", "chi", "iota"}

\* ui r,x,y,i,j,Y; u8 R=0x01; ... for(i=0; ...
Enter ==
    /\ perm = "call"
    /\ perm' = "busy"
    /\ i' = 0
    /\ R' = 1
    /\ phase' = "theta"
    /\ UNCHANGED << s, x, y, r, D, j, sRound >>

\* theta, then x=1; y=r=0; D=rL(x,y); of the walk.
ThetaStep ==
    /\ perm = "busy" /\ phase = "theta" /\ i < NumRounds
    /\ LET w == RhoPiStart(Theta(s))
       IN  /\ s' = w.s
           /\ x' = w.x /\ y' = w.y /\ r' = w.r /\ D' = w.D /\ j' = w.j
    /\ sRound' = s
    /\ phase' = "rhopi"
    /\ UNCHANGED << perm, i, R >>

\* One iteration of FOR(j,24); v is the value the build gives ROL(D, r%64).
RhoPi ==
    /\ perm = "busy" /\ phase = "rhopi" /\ j < WalkSteps
    /\ LET w == [s |-> s, x |-> x, y |-> y, r |-> r, D |-> D, j |-> j]
       IN  \E v \in ROLOutcomes(D, WalkRot(w)) :
             LET n == RhoPiStep(w, v)
             IN  /\ s' = n.s
                 /\ x' = n.x /\ y' = n.y /\ r' = n.r /\ D' = n.D /\ j' = n.j
    /\ UNCHANGED << perm, phase, i, R, sRound >>

\* chi, once the walk has left FOR(j,24).
ChiStep ==
    /\ perm = "busy" /\ phase = "rhopi" /\ j = WalkSteps
    /\ s' = Chi(s)
    /\ phase' = "iota"
    /\ UNCHANGED << perm, i, R, x, y, r, D, j, sRound >>

\* iota: seven LFSR86540 steps; then i++ of the round loop.
IotaStep ==
    /\ perm = "busy" /\ phase = "iota"
    /\ s' = Iota(s, R)
    /\ R' = LFSRAfter(R, IotaSteps)
    /\ i' = i + 1
    /\ phase' = "theta"
    /\ UNCHANGED << perm, x, y, r, D, j, sRound >>

\* i == 24: the loop exits and KeccakF1600 returns to its caller.
Return ==
    /\ perm = "busy" /\ phase = "theta" /\ i = NumRounds
    /\ perm' = "idle"
    /\ UNCHANGED << s, phase, i, R, x, y, r, D, j, sRound >>

LoopNext == Enter \/ ThetaStep \/ RhoPi \/ ChiStep \/ IotaStep \/ Return

-----------------------------------------------------------------------------
Ref == INSTANCE FIPS202

LoopTypeOK ==
    /\ s \in [StateBits -> {0, 1}]
    /\ sRound \in [StateBits -> {0, 1}]
    /\ perm \in {"idle", "call", "busy"}
    /\ phase \in Phases
    /\ i \in 0..NumRounds
    /\ R \in 0..255
    /\ x \in Idx5 /\ y \in Idx5 /\ j \in 0..WalkSteps
    /\ r \in 0..((WalkSteps * (WalkSteps + 1)) \div 2)
    /\ D \in [Z -> {0, 1}]

(***************************************************************************)
(* Each round KeccakF1600 executes - theta on the lane view, the in-place  *)
(* rho-pi walk with its triangular offsets accumulated in r, chi on a      *)
(* copied row, iota driven by the byte LFSR R carried across rounds - maps *)
(* the state it started from to the standard's Rnd(A, ir): the             *)
(* composition of theta, rho (Table 2 offsets), pi, chi and iota with      *)
(* RC[ir].  Checked after every round of every call.                       *)
(***************************************************************************)
RoundMatchesFIPS ==
    (perm = "busy" /\ phase = "theta" /\ i > 0) => s = Ref!Rnd(sRound, i - 1)

(***************************************************************************)
(* The rotation ROL(D, r%64) the walk executes next shifts by 1..63: the   *)
(* shift a >> (64-o) of the ROL macro is undefined behaviour for o = 0.    *)
(***************************************************************************)
RotationDefined ==
    (perm = "busy" /\ phase = "rhopi" /\ j < WalkSteps)
        => WalkRot([r |-> r, j |-> j]) \in 1..63

=============================================================================
