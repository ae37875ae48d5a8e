----------------------------- MODULE FeeCustody -----------------------------
(***************************************************************************)
(* What creator-fee settlement promises: collected MSTRx is held in the    *)
(* creator account as one amount apart from the owner's own MSTRx, and     *)
(* leaves custody once and whole, either split 60/40 between holder        *)
(* inventory and reserve, or back to the owner.                            *)
(***************************************************************************)
EXTENDS FeeSplit

CONSTANT SameWallet  \* the owner recovers into the creator account itself

VARIABLES
  held,       \* collected and not yet paid out
  own,        \* the creator account's other MSTRx
  holder,     \* holder payout inventory received
  reserve,    \* strategic reserve received
  recovered   \* paid to a separate recovery wallet

custodyVars == <<held, own, holder, reserve, recovered>>

Init == held = 0 /\ own = 0 /\ holder = 0 /\ reserve = 0 /\ recovered = 0

Collect ==
  /\ held = 0
  /\ held' \in Nat \ {0}
  /\ UNCHANGED <<own, holder, reserve, recovered>>

Route ==
  /\ held' = 0
  /\ holder' = holder + HolderRaw(held)
  /\ reserve' = reserve + ReserveRaw(held)
  /\ UNCHANGED <<own, recovered>>

Recover ==
  /\ held' = 0
  /\ IF SameWallet
     THEN own' = own + held /\ UNCHANGED recovered
     ELSE recovered' = recovered + held /\ UNCHANGED own
  /\ UNCHANGED <<holder, reserve>>

\* The owner and strangers move MSTRx that was never collected.
OwnMoves ==
  /\ own' \in Int
  /\ UNCHANGED <<held, holder, reserve, recovered>>

Next == Collect \/ Route \/ Recover \/ OwnMoves

Spec == Init /\ [][Next]_custodyVars

=============================================================================
