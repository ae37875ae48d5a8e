------------------------------ MODULE PonsLaunch ------------------------------
(***************************************************************************)
(* The PONS factory as the launch watcher and the keeper use it: a chain   *)
(* of blocks, in some of which a token is launched, and the lifecycle of   *)
(* the launch that is followed.  A block has at most one launch, so that a *)
(* token is named by its block; what is recorded of it is the manifest it  *)
(* was launched by (owner, fee collector, pair and tax).  A block is also  *)
(* the unit of time.                                                       *)
(***************************************************************************)
EXTENDS Integers, Sequences

CONSTANTS
  Manifest,    \* prelaunch manifests
  None,
  MaxBlock,    \* bound: blocks
  MaxLaunches  \* bound: launches

VARIABLES
  blocks,      \* per block the manifest its launch fits, None without a launch
  phase,       \* of the followed launch: curve, ready, migration, v4, rescued
  curveFees,   \* quoteFeeBalance and creatorTaxBalance of its curve
  escrow       \* what the fee escrow holds for its collector

chainVars == <<blocks, phase>>
ponsFees == <<curveFees, escrow>>
ponsVars == <<chainVars, ponsFees>>

NoToken == 0
HeadBlock == Len(blocks)
Token == 1..MaxBlock
Launched(token) == token \in 1..HeadBlock /\ blocks[token] # None

PonsInit == blocks = <<>> /\ phase = "curve" /\ curveFees = 0 /\ escrow = 0

Mine(launch) ==
  /\ HeadBlock < MaxBlock
  /\ launch # None => Len(SelectSeq(blocks, LAMBDA b : b # None)) < MaxLaunches
  /\ blocks' = Append(blocks, launch)
  /\ UNCHANGED <<phase, ponsFees>>

PhaseMoves(from, to) == phase = from /\ phase' = to /\ UNCHANGED blocks

\* The last token of the curve is sold, or PONS rescues a stuck migration.
SellOut == PhaseMoves("curve", "ready") /\ UNCHANGED ponsFees
Rescue == PhaseMoves("migration", "rescued") /\ UNCHANGED ponsFees

\* graduate and createGraduatedPool, open to anyone.  The keeper asks the curve
\* for nothing after graduation: the factory settles its fees into the escrow.
Graduate ==
  /\ PhaseMoves("ready", "migration")
  /\ escrow' = escrow + curveFees /\ curveFees' = 0
CreateGraduatedPool == PhaseMoves("migration", "v4") /\ UNCHANGED ponsFees

\* Trades pay the curve, later the escrow.
OnCurve == phase \in {"curve", "ready"}
Trade(amount) ==
  /\ IF OnCurve THEN curveFees' = curveFees + amount /\ UNCHANGED escrow
                ELSE escrow' = escrow + amount /\ UNCHANGED curveFees
  /\ UNCHANGED chainVars

=============================================================================
