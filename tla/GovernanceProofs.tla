-------------------------- MODULE GovernanceProofs --------------------------
(***************************************************************************)
(* Proofs about Governance, for all holders, ballots, menus, durations and *)
(* deposits: the five safety invariants of the run.                        *)
(*                                                                         *)
(* They are one inductive invariant (GovernanceInv) with three parts more: *)
(* what a proposal's fields are to each other and that an id not proposed  *)
(* is empty (ProposalFits); that what touched the reserve was decided by a *)
(* vote that has ended (DecisionsFinal), so that no later vote changes its *)
(* count; and that no more than the active proposal is undecided, unless   *)
(* an id was executed before it was proposed (OneUndecided), so that       *)
(* nothing else spends what its options were frozen at.                    *)
(***************************************************************************)
EXTENDS Governance, SumTheorems

-----------------------------------------------------------------------------
(* The loop of _winner                                                     *)

\* The results of the rounds of the loop, after 0, 1, ... n options.
AreRounds(g, votes, n) ==
  g = [i \in 0..n |-> IF i = 0 THEN [winner |-> 0, weight |-> 0, tied |-> FALSE]
                      ELSE Count(g[i - 1], votes[i], i)]
Rounds(votes, n) == CHOOSE g : AreRounds(g, votes, n)

\* The rounds are well defined: the function the model reads them from exists.
LEMMA RoundsExist ==
  ASSUME NEW votes, NEW n \in Nat
  PROVE  AreRounds(Rounds(votes, n), votes, n)
<1> DEFINE Bad == {m \in Nat : ~ \E g : AreRounds(g, votes, m)}
<1> SUFFICES ASSUME Bad # {} PROVE FALSE
  BY DEF Rounds
<1>1. PICK m \in Bad : \A k \in Bad : m <= k
  <2>1. Bad \in SUBSET Nat
    OBVIOUS
  <2> HIDE DEF Bad
  <2> QED
    BY <2>1, LeastNumber
<1> DEFINE start == [winner |-> 0, weight |-> 0, tied |-> FALSE]
<1>2. CASE m = 0
  <2> DEFINE g == [i \in 0..m |-> start]
  <2>1. AreRounds(g, votes, m)
    BY <1>2 DEF AreRounds
  <2> QED
    BY <2>1
<1>3. CASE m # 0
  <2>1. m - 1 \in Nat /\ m - 1 \notin Bad
    BY <1>1, <1>3
  <2>2. PICK h : AreRounds(h, votes, m - 1)
    BY <2>1
  <2> DEFINE g == [i \in 0..m |-> IF i = m THEN Count(h[m - 1], votes[m], m) ELSE h[i]]
  <2>3. ASSUME NEW i \in 0..m
        PROVE  g[i] = IF i = 0 THEN start ELSE Count(g[i - 1], votes[i], i)
    <3>1. CASE i = m
      BY <1>3, <3>1
    <3>2. CASE i # m
      <4>1. i \in 0..(m - 1) /\ (i # 0 => i - 1 \in 0..m /\ i - 1 # m)
        BY <3>2
      <4>2. h[i] = IF i = 0 THEN start ELSE Count(h[i - 1], votes[i], i)
        BY <2>2, <4>1 DEF AreRounds
      <4>3. g[i] = h[i] /\ (i # 0 => g[i - 1] = h[i - 1])
        BY <3>2, <4>1
      <4> QED
        BY <4>2, <4>3
    <3> QED
      BY <3>1, <3>2
  <2>4. AreRounds(g, votes, m)
    BY <2>3 DEF AreRounds
  <2> QED
    BY <2>4
<1> QED
  BY <1>2, <1>3

\* After i options: the winner is one of them, or none with nothing counted;
\* none has more, and, unless tied, no other has as much.
Leads(r, votes, i) ==
  /\ r.winner \in 0..i /\ r.weight \in Nat
  /\ r.winner = 0 => r.weight = 0
  /\ r.winner # 0 => r.weight = votes[r.winner]
  /\ \A j \in 1..i : votes[j] <= r.weight
  /\ ~r.tied => \A j \in (1..i) \ {r.winner} : votes[j] < r.weight

\* One round keeps the leader.
LEMMA CountLeads ==
  ASSUME NEW votes, NEW i \in Nat, NEW r, Leads(r, votes, i), votes[i + 1] \in Nat,
         \A j \in 1..i : votes[j] \in Nat,
         r \in [winner : Nat, weight : Nat, tied : BOOLEAN]
  PROVE  /\ Leads(Count(r, votes[i + 1], i + 1), votes, i + 1)
         /\ Count(r, votes[i + 1], i + 1) \in [winner : Nat, weight : Nat, tied : BOOLEAN]
<1> DEFINE v == votes[i + 1]
           next == Count(r, v, i + 1)
           Result == [winner : Nat, weight : Nat, tied : BOOLEAN]
<1>0. /\ r.winner \in 0..i /\ r.weight \in Nat
      /\ \A j \in 1..(i + 1) : j = i + 1 \/ j \in 1..i
  BY DEF Leads
<1>1. CASE v > r.weight
  <2>1. next = [winner |-> i + 1, weight |-> v, tied |-> FALSE]
    BY <1>1 DEF Count
  <2> HIDE DEF next
  <2>2. next \in Result /\ next.winner = i + 1 /\ next.weight = v /\ next.tied = FALSE
    <3>1. i + 1 \in Nat /\ v \in Nat
      OBVIOUS
    <3> HIDE DEF v
    <3> QED
      BY <2>1, <3>1
  <2>3. \A j \in 1..i : votes[j] < v
    BY <1>0, <1>1 DEF Leads
  <2>4. \A j \in 1..(i + 1) : votes[j] <= v /\ (j # i + 1 => votes[j] < v)
    BY <1>0, <2>3
  <2>5. i + 1 \in 0..(i + 1) /\ i + 1 # 0 /\ v \in Nat /\ v = votes[i + 1]
    OBVIOUS
  <2>6. Leads(next, votes, i + 1)
    BY <2>2, <2>4, <2>5 DEF Leads
  <2> QED
    BY <2>2, <2>6 DEF next
<1>2. CASE v = r.weight
  <2>1. next = [r EXCEPT !.tied = TRUE]
    BY <1>2 DEF Count
  <2>2. /\ next \in Result
        /\ next.winner = r.winner /\ next.weight = r.weight /\ next.tied = TRUE
    BY <2>1
  <2> HIDE DEF next
  <2>3. \A j \in 1..(i + 1) : votes[j] <= v
    BY <1>0, <1>2 DEF Leads
  <2>4. /\ r.winner \in 0..(i + 1)
        /\ r.winner = 0 => r.weight = 0
        /\ r.winner # 0 => r.weight = votes[r.winner]
    BY <1>0 DEF Leads
  <2>5. Leads(next, votes, i + 1)
    BY <1>0, <1>2, <2>2, <2>3, <2>4 DEF Leads
  <2> QED
    BY <2>2, <2>5 DEF next
<1>3. CASE v < r.weight
  <2>1. Count(r, v, i + 1) = r
    BY <1>3 DEF Count
  <2> QED
    BY <1>3, <2>1 DEF Leads
<1> QED
  BY <1>1, <1>2, <1>3

\* The loop's result leads.
LEMMA WinnerLeads ==
  ASSUME NEW votes \in Seq(Nat)
  PROVE  /\ Leads(Winner(votes), votes, Len(votes))
         /\ Winner(votes) \in [winner : Nat, weight : Nat, tied : BOOLEAN]
         /\ votes = <<>> => ~Winner(votes).tied
<1> DEFINE n == Len(votes)
           g == Rounds(votes, n)
           Result == [winner : Nat, weight : Nat, tied : BOOLEAN]
           Bad == {i \in 0..n : ~(Leads(g[i], votes, i) /\ g[i] \in Result)}
           start == [winner |-> 0, weight |-> 0, tied |-> FALSE]
<1>1. n \in Nat /\ \A i \in 1..n : votes[i] \in Nat
  OBVIOUS
<1>2. Winner(votes) = g[n]
  BY DEF Winner, Rounds, AreRounds
<1>3. AreRounds(g, votes, n)
  BY <1>1, RoundsExist
<1>4. g[0] = start
  BY <1>1, <1>3 DEF AreRounds
<1>5. ASSUME NEW i \in 0..n, i # 0 PROVE g[i] = Count(g[i - 1], votes[i], i)
  BY <1>3, <1>5 DEF AreRounds
<1> HIDE DEF g
<1>6. Bad = {}
  <2> SUFFICES ASSUME Bad # {} PROVE FALSE
    OBVIOUS
  <2>1. PICK i \in Bad : \A k \in Bad : i <= k
    <3>1. Bad \in SUBSET Nat
      BY <1>1
    <3> HIDE DEF Bad
    <3> QED
      BY <3>1, LeastNumber
  <2>2. i # 0
    <3>1. start \in Result /\ Leads(start, votes, 0)
      BY DEF Leads
    <3>2. 0 \notin Bad
      BY <1>4, <3>1
    <3> QED
      BY <3>2
  <2>3. i - 1 \in 0..n /\ i - 1 \in Nat /\ i - 1 \notin Bad
    <3>1. i \in 0..n /\ i \in Nat /\ n \in Nat
      BY <1>1
    <3>2. ~ (i <= i - 1) /\ i - 1 \in 0..n /\ i - 1 \in Nat
      BY <2>2, <3>1
    <3> HIDE DEF Bad
    <3> QED
      BY <2>1, <3>2
  <2>4. Leads(g[i - 1], votes, i - 1) /\ g[i - 1] \in Result
    BY <2>3
  <2>5. i = (i - 1) + 1 /\ votes[i] \in Nat /\ \A j \in 1..(i - 1) : votes[j] \in Nat
    BY <1>1, <2>2
  <2> DEFINE k == i - 1
  <2>6. k \in Nat /\ i = k + 1
    BY <2>3, <2>5
  <2>7. Leads(g[k], votes, k) /\ g[k] \in Result
    BY <2>4
  <2>8. votes[k + 1] \in Nat /\ \A j \in 1..k : votes[j] \in Nat
    BY <2>5, <2>6
  <2> HIDE DEF k
  <2>9. /\ Leads(Count(g[k], votes[k + 1], k + 1), votes, k + 1)
        /\ Count(g[k], votes[k + 1], k + 1) \in Result
    BY <2>6, <2>7, <2>8, CountLeads
  <2>10. g[i] = Count(g[k], votes[k + 1], k + 1)
    BY <1>5, <2>2, <2>6 DEF k
  <2> QED
    BY <2>6, <2>9, <2>10
<1>7. n \in 0..n
  BY <1>1
<1>8. votes = <<>> => n = 0
  OBVIOUS
<1> QED
  BY <1>2, <1>4, <1>6, <1>7, <1>8

\* A share of an amount is a natural number no more than the amount.
LEMMA ShareFits ==
  ASSUME NEW a \in Nat, NEW b \in Nat, NEW c \in Nat \ {0}
  PROVE  /\ (a * b) \div c \in Nat
         /\ b <= c => (a * b) \div c <= a
<1>1. a * b \in Nat
  OBVIOUS
<1>2. (a * b) \div c \in Nat
  BY <1>1
<1>3. c * ((a * b) \div c) <= a * b
  BY <1>1
<1>4. ASSUME b <= c PROVE (a * b) \div c <= a
  <2>1. a * b <= a * c
    BY <1>4
  <2> DEFINE q == (a * b) \div c
  <2>2. c * q <= c * a
    BY <1>1, <1>2, <1>3, <2>1
  <2> HIDE DEF q
  <2>3. q <= a
    BY <1>2, <2>2 DEF q
  <2> QED
    BY <2>3 DEF q
<1> QED
  BY <1>2, <1>4

-----------------------------------------------------------------------------
(* The reserve vault                                                       *)

\* What each tranche locks at a time; the vault's tranches.
Locked(locks, t) ==
  [i \in DOMAIN locks |-> IF locks[i].unlockAt > t THEN locks[i].amount ELSE 0]

Tranches == Seq([amount : Nat, unlockAt : Nat])

\* The two amounts the vault compares, as sums over the tranches.
LEMMA LockedIsSum ==
  /\ LockedBalance = SumFunctionOnSet(Locked(reserveLocks, now), DOMAIN reserveLocks)
  /\ LockedBalance' = SumFunctionOnSet(Locked(reserveLocks', now'), DOMAIN reserveLocks')
<1>1. \A locks, t : DOMAIN Locked(locks, t) = DOMAIN locks
  BY DEF Locked
<1>2. /\ LockedBalance = SumFunction(Locked(reserveLocks, now))
      /\ LockedBalance' = SumFunction(Locked(reserveLocks', now'))
  BY DEF LockedBalance, Locked
<1>3. \A f, S : DOMAIN f = S => SumFunction(f) = SumFunctionOnSet(f, S)
  BY DEF SumFunction
<1> QED
  BY <1>1, <1>2, <1>3

\* They are natural numbers.
LEMMA LockedNat ==
  ASSUME NEW locks \in Tranches, NEW t \in Nat
  PROVE  /\ IsFiniteSet(DOMAIN locks)
         /\ \A i \in DOMAIN locks : Locked(locks, t)[i] \in Nat
         /\ SumFunctionOnSet(Locked(locks, t), DOMAIN locks) \in Nat
<1>1. IsFiniteSet(DOMAIN locks)
  <2>1. Len(locks) \in Nat /\ DOMAIN locks = 1..Len(locks)
    BY DEF Tranches
  <2> QED
    BY <2>1, FS_Interval
<1>2. \A i \in DOMAIN locks : locks[i].amount \in Nat
  <2>1. \A i \in DOMAIN locks : locks[i] \in [amount : Nat, unlockAt : Nat]
    BY ElementsOf DEF Tranches
  <2> QED
    BY <2>1
<1>3. \A i \in DOMAIN locks : Locked(locks, t)[i] \in Nat
  BY <1>2 DEF Locked
<1> QED
  BY <1>1, <1>3, SumNat

\* What is locked only expires with time.
LEMMA LockedExpires ==
  ASSUME NEW locks \in Tranches, NEW t \in Nat
  PROVE  SumFunctionOnSet(Locked(locks, t + 1), DOMAIN locks)
           <= SumFunctionOnSet(Locked(locks, t), DOMAIN locks)
<1>1. /\ IsFiniteSet(DOMAIN locks)
      /\ \A i \in DOMAIN locks : Locked(locks, t)[i] \in Nat /\ Locked(locks, t + 1)[i] \in Nat
  BY LockedNat
<1>2. \A i \in DOMAIN locks : Locked(locks, t + 1)[i] <= Locked(locks, t)[i]
  <2>1. \A i \in DOMAIN locks : locks[i] \in [amount : Nat, unlockAt : Nat]
    BY ElementsOf DEF Tranches
  <2>2. \A i \in DOMAIN locks : locks[i].amount \in Nat /\ locks[i].unlockAt \in Nat
    BY <2>1
  <2> QED
    BY <2>2 DEF Locked
<1> QED
  BY <1>1, <1>2, SumMonotonic

\* A new tranche locks no more than its amount.
LEMMA LockedAppend ==
  ASSUME NEW locks \in Tranches, NEW t \in Nat, NEW lock \in [amount : Nat, unlockAt : Nat]
  PROVE  /\ Append(locks, lock) \in Tranches
         /\ SumFunctionOnSet(Locked(Append(locks, lock), t), DOMAIN Append(locks, lock))
              <= SumFunctionOnSet(Locked(locks, t), DOMAIN locks) + lock.amount
<1> DEFINE more == Append(locks, lock)
           n == Len(locks)
           f == Locked(locks, t)
           g == Locked(more, t)
<1>1. /\ n \in Nat /\ DOMAIN locks = 1..n
      /\ more \in Tranches /\ DOMAIN more = 1..(n + 1)
      /\ more[n + 1] = lock /\ \A i \in 1..n : more[i] = locks[i]
  BY DEF Tranches
<1>2. /\ \A i \in 1..n : f[i] \in Nat
      /\ \A i \in 1..(n + 1) : g[i] \in Nat
  BY <1>1, LockedNat
<1> HIDE DEF more, n
<1>3. DOMAIN f = 1..n /\ DOMAIN g = 1..(n + 1)
  BY <1>1 DEF Locked
<1>4. \A i \in 1..n : g[i] = f[i]
  BY <1>1 DEF Locked
<1>5. g[n + 1] <= lock.amount
  BY <1>1 DEF Locked
<1> HIDE DEF f, g
<1>6. SumFunction(g) = SumFunction(f) + g[n + 1]
  BY <1>1, <1>2, <1>3, <1>4, SumExtend
<1>7. SumFunction(g) = SumFunctionOnSet(g, DOMAIN more) /\ SumFunction(f) = SumFunctionOnSet(f, DOMAIN locks)
  BY <1>1, <1>3 DEF SumFunction
<1>8. SumFunctionOnSet(f, DOMAIN locks) \in Nat /\ g[n + 1] \in Nat
  <2>1. SumFunctionOnSet(f, DOMAIN locks) \in Nat
    BY LockedNat DEF f
  <2> QED
    BY <1>1, <1>2, <2>1
<1>9. SumFunctionOnSet(g, DOMAIN more) <= SumFunctionOnSet(f, DOMAIN locks) + lock.amount
  BY <1>5, <1>6, <1>7, <1>8
<1> QED
  BY <1>1, <1>9 DEF more, f, g

\* What the reserve vault promises.
ReserveInv == ReserveTypeOK /\ LockedStays

\* What is available is a natural number: the subtraction does not underflow.
LEMMA AvailableNat ==
  ASSUME ReserveInv, now \in Nat
  PROVE  /\ AvailableBalance \in Nat
         /\ LockedBalance \in Nat /\ reserve \in Nat /\ reserve = AvailableBalance + LockedBalance
<1>1. reserveLocks \in Tranches /\ reserve \in Nat /\ reserve >= LockedBalance
  BY DEF ReserveInv, ReserveTypeOK, LockedStays, Tranches
<1>2. LockedBalance \in Nat
  BY <1>1, LockedIsSum, LockedNat
<1> QED
  BY <1>1, <1>2 DEF AvailableBalance

\* A lock takes no more than is available.
LEMMA LockMstrKeeps ==
  ASSUME ReserveInv, now \in Nat, UNCHANGED now,
         NEW amount \in Nat, NEW duration, LockMstr(amount, duration)
  PROVE  ReserveInv'
<1>1. UnlockAt(duration) \in Nat
  BY TimeAssumption DEF LockMstr, AllowedDuration, UnlockAt, Forever
<1> DEFINE lock == [amount |-> amount, unlockAt |-> UnlockAt(duration)]
<1>2. /\ reserveLocks \in Tranches /\ lock \in [amount : Nat, unlockAt : Nat]
      /\ lock.amount = amount
      /\ reserve' = reserve /\ reserveLocks' = Append(reserveLocks, lock)
      /\ amount <= AvailableBalance
  BY <1>1 DEF ReserveInv, ReserveTypeOK, Tranches, LockMstr
<1> HIDE DEF lock
<1>3. /\ reserveLocks' \in Tranches
      /\ SumFunctionOnSet(Locked(reserveLocks', now), DOMAIN reserveLocks') <= LockedBalance + amount
  BY <1>2, LockedAppend, LockedIsSum
<1>4. LockedBalance' <= LockedBalance + amount
  BY <1>3, LockedIsSum
<1>5. LockedBalance' \in Nat
  BY <1>3, LockedIsSum, LockedNat
<1> QED
  BY <1>2, <1>3, <1>4, <1>5, AvailableNat DEF ReserveInv, ReserveTypeOK, LockedStays, Tranches

\* A release takes no more than is available.
LEMMA ReleaseMstrKeeps ==
  ASSUME ReserveInv, now \in Nat, UNCHANGED now, NEW amount \in Nat, ReleaseMstr(amount)
  PROVE  ReserveInv'
<1>1. LockedBalance' = LockedBalance
  BY LockedIsSum DEF ReleaseMstr
<1> QED
  BY <1>1, AvailableNat DEF ReserveInv, ReserveTypeOK, LockedStays, ReleaseMstr

\* A deposit only adds to what is available.
LEMMA DepositKeeps ==
  ASSUME ReserveInv, now \in Nat, UNCHANGED now, NEW amount \in Nat, Deposit(amount)
  PROVE  ReserveInv' /\ AvailableBalance' >= AvailableBalance /\ AvailableBalance' \in Nat
<1>1. LockedBalance' = LockedBalance
  BY LockedIsSum DEF Deposit
<1> QED
  BY <1>1, AvailableNat DEF ReserveInv, ReserveTypeOK, LockedStays, Deposit, AvailableBalance

\* So does the passing of time.
LEMMA TickKeeps ==
  ASSUME ReserveInv, now \in Nat, Tick, UNCHANGED reserveVars
  PROVE  ReserveInv' /\ AvailableBalance' >= AvailableBalance /\ AvailableBalance' \in Nat
<1>1. /\ reserveLocks \in Tranches /\ reserve \in Nat /\ now' = now + 1
      /\ reserve' = reserve /\ reserveLocks' = reserveLocks
  BY DEF ReserveInv, ReserveTypeOK, Tranches, Tick, reserveVars
<1>2. LockedBalance' <= LockedBalance
  BY <1>1, LockedExpires, LockedIsSum
<1>3. LockedBalance' \in Nat
  BY <1>1, LockedIsSum, LockedNat
<1>4. /\ AvailableBalance = reserve - LockedBalance
      /\ AvailableBalance' = reserve' - LockedBalance'
  BY DEF AvailableBalance
<1>5. LockedBalance \in Nat /\ reserve >= LockedBalance
  BY AvailableNat DEF ReserveInv, LockedStays
<1>6. /\ AvailableBalance' \in Nat /\ AvailableBalance' >= AvailableBalance
      /\ reserve' >= LockedBalance'
  <2>1. ASSUME NEW a \in Nat, NEW b \in Nat, NEW r \in Nat, b <= a, r >= a
        PROVE  r - b \in Nat /\ r - b >= r - a /\ r >= b
    BY <2>1
  <2>2. LockedBalance' <= LockedBalance /\ reserve >= LockedBalance /\ reserve \in Nat
    BY <1>1, <1>2, <1>5
  <2>3. /\ reserve - LockedBalance' \in Nat
        /\ reserve - LockedBalance' >= reserve - LockedBalance /\ reserve >= LockedBalance'
    BY <1>3, <1>5, <2>1, <2>2
  <2> QED
    BY <1>1, <1>4, <2>3
<1> QED
  BY <1>1, <1>6 DEF ReserveInv, ReserveTypeOK, LockedStays, Tranches

\* What does not touch the vault changes nothing.
LEMMA ReserveSame ==
  ASSUME ReserveInv, now \in Nat, UNCHANGED now, UNCHANGED reserveVars
  PROVE  ReserveInv' /\ AvailableBalance' = AvailableBalance
<1>1. LockedBalance' = LockedBalance
  BY LockedIsSum DEF reserveVars
<1> QED
  BY <1>1 DEF ReserveInv, ReserveTypeOK, LockedStays, AvailableBalance, reserveVars

-----------------------------------------------------------------------------
(* The project-token lock vault                                            *)

\* The vault's tranches.
Lots == Seq([amount : Nat, unlockAt : Nat, released : BOOLEAN])

\* What each tranche not yet released is owed.
Owed(locks) == [i \in DOMAIN locks |-> IF locks[i].released THEN 0 ELSE locks[i].amount]

\* The fields of the tranches.
LEMMA LotFields ==
  ASSUME NEW locks \in Lots
  PROVE  /\ DOMAIN locks = 1..Len(locks) /\ Len(locks) \in Nat /\ IsFiniteSet(DOMAIN locks)
         /\ \A i \in DOMAIN locks :
              /\ locks[i] = [amount |-> locks[i].amount, unlockAt |-> locks[i].unlockAt,
                             released |-> locks[i].released]
              /\ locks[i].amount \in Nat /\ locks[i].unlockAt \in Nat
              /\ locks[i].released \in BOOLEAN
              /\ Owed(locks)[i] \in Nat
<1>1. DOMAIN locks = 1..Len(locks) /\ Len(locks) \in Nat
  BY DEF Lots
<1>2. IsFiniteSet(DOMAIN locks)
  BY <1>1, FS_Interval
<1>3. \A i \in DOMAIN locks : locks[i] \in [amount : Nat, unlockAt : Nat, released : BOOLEAN]
  BY ElementsOf DEF Lots
<1>4. \A i \in DOMAIN locks :
        /\ locks[i] = [amount |-> locks[i].amount, unlockAt |-> locks[i].unlockAt,
                       released |-> locks[i].released]
        /\ locks[i].amount \in Nat /\ locks[i].unlockAt \in Nat
        /\ locks[i].released \in BOOLEAN
  BY <1>3
<1>5. \A i \in DOMAIN locks : Owed(locks)[i] \in Nat
  BY <1>4 DEF Owed
<1> QED
  BY <1>1, <1>2, <1>4, <1>5

\* LocksBacked, with the sum over the tranches named.
LEMMA BackedIsSum ==
  /\ LocksBacked = (/\ accounted = SumFunctionOnSet(Owed(tokenLocks), DOMAIN tokenLocks)
                    /\ tokens = accounted + gifts)
  /\ LocksBacked' = (/\ accounted' = SumFunctionOnSet(Owed(tokenLocks'), DOMAIN tokenLocks')
                     /\ tokens' = accounted' + gifts')
<1>1. \A locks : DOMAIN Owed(locks) = DOMAIN locks
  BY DEF Owed
<1>2. \A f, S : DOMAIN f = S => SumFunction(f) = SumFunctionOnSet(f, S)
  BY DEF SumFunction
<1>3. /\ LocksBacked = (/\ accounted = SumFunction(Owed(tokenLocks))
                        /\ tokens = accounted + gifts)
      /\ LocksBacked' = (/\ accounted' = SumFunction(Owed(tokenLocks'))
                         /\ tokens' = accounted' + gifts')
  BY DEF LocksBacked, Owed
<1> QED
  BY <1>1, <1>2, <1>3, Zenon

\* A new tranche is owed its amount.
LEMMA OwedAppend ==
  ASSUME NEW locks \in Lots, NEW amount \in Nat, NEW unlockAt \in Nat, NEW lot,
         lot = [amount |-> amount, unlockAt |-> unlockAt, released |-> FALSE]
  PROVE  /\ Append(locks, lot) \in Lots
         /\ SumFunctionOnSet(Owed(Append(locks, lot)), DOMAIN Append(locks, lot))
              = SumFunctionOnSet(Owed(locks), DOMAIN locks) + amount
<1> DEFINE more == Append(locks, lot)
           n == Len(locks)
           f == Owed(locks)
           g == Owed(more)
<1>0. lot \in [amount : Nat, unlockAt : Nat, released : BOOLEAN] /\ ~lot.released /\ lot.amount = amount
  OBVIOUS
<1>1. /\ n \in Nat /\ DOMAIN locks = 1..n
      /\ more \in Lots /\ DOMAIN more = 1..(n + 1)
      /\ more[n + 1] = lot /\ \A i \in 1..n : more[i] = locks[i]
  BY <1>0 DEF Lots
<1>2. \A i \in 1..n : f[i] \in Nat
  BY <1>1, LotFields
<1> HIDE DEF more, n
<1>3. DOMAIN f = 1..n /\ DOMAIN g = 1..(n + 1)
  BY <1>1 DEF Owed
<1>4. \A i \in 1..n : g[i] = f[i]
  BY <1>1 DEF Owed
<1>5. g[n + 1] = amount
  <2>1. n + 1 \in DOMAIN more
    BY <1>1
  <2> QED
    BY <1>0, <1>1, <2>1 DEF Owed
<1> HIDE DEF f, g
<1>6. SumFunction(g) = SumFunction(f) + g[n + 1]
  BY <1>1, <1>2, <1>3, <1>4, <1>5, SumExtend
<1>7. SumFunction(g) = SumFunctionOnSet(g, DOMAIN more) /\ SumFunction(f) = SumFunctionOnSet(f, DOMAIN locks)
  BY <1>1, <1>3 DEF SumFunction
<1>8. SumFunctionOnSet(g, DOMAIN more) = SumFunctionOnSet(f, DOMAIN locks) + amount
  BY <1>5, <1>6, <1>7
<1> QED
  BY <1>1, <1>8 DEF more, f, g

\* A released tranche is no longer owed its amount, which was part of what was owed.
LEMMA OwedRelease ==
  ASSUME NEW locks \in Lots, NEW x \in DOMAIN locks, ~locks[x].released, NEW after,
         after = [locks EXCEPT ![x].released = TRUE]
  PROVE  /\ after \in Lots
         /\ SumFunctionOnSet(Owed(after), DOMAIN after)
              = SumFunctionOnSet(Owed(locks), DOMAIN locks) - locks[x].amount
         /\ locks[x].amount <= SumFunctionOnSet(Owed(locks), DOMAIN locks)
         /\ SumFunctionOnSet(Owed(locks), DOMAIN locks) \in Nat
<1> DEFINE Lot == [amount : Nat, unlockAt : Nat, released : BOOLEAN]
           n == Len(locks)
           lot == [locks[x] EXCEPT !.released = TRUE]
<1>1. lot \in Lot /\ lot.released /\ locks[x].amount \in Nat
  <2>1. locks[x] \in Lot
    BY ElementsOf DEF Lots
  <2> QED
    BY <2>1
<1>2. locks \in [1..n -> Lot] /\ n \in Nat
  <2>1. locks \in Seq(Lot)
    BY DEF Lots
  <2> HIDE DEF Lot
  <2> QED
    BY <2>1
<1>3. after = [locks EXCEPT ![x] = lot]
  OBVIOUS
<1> HIDE DEF lot, n, Lot
<1>4. after \in [1..n -> Lot] /\ after[x] = lot /\ \A i \in 1..n : i # x => after[i] = locks[i]
  BY <1>1, <1>2, <1>3
<1>5. after \in Seq(Lot) /\ DOMAIN after = DOMAIN locks
  BY <1>2, <1>4
<1>6. after \in Lots
  BY <1>5 DEF Lots, Lot
<1> DEFINE f == Owed(locks)
           g == Owed(after)
           S == DOMAIN locks
<1>7. IsFiniteSet(S) /\ \A i \in S : f[i] \in Nat /\ g[i] \in Nat
  BY <1>5, <1>6, LotFields
<1>8. f[x] = locks[x].amount /\ g[x] = 0 /\ \A i \in S \ {x} : g[i] = f[i]
  BY <1>1, <1>2, <1>4, <1>5 DEF Owed
<1> HIDE DEF f, g
<1>9. SumFunctionOnSet(g, S) = SumFunctionOnSet(f, S) - f[x] + g[x]
  BY <1>7, <1>8, SumChange
<1>10. SumFunctionOnSet(f, S) \in Nat /\ f[x] <= SumFunctionOnSet(f, S)
  BY <1>7, SumNat, SumTerm
<1>11. SumFunctionOnSet(g, S) = SumFunctionOnSet(f, S) - locks[x].amount
  BY <1>8, <1>9, <1>10, <1>1
<1> QED
  BY <1>5, <1>6, <1>8, <1>10, <1>11 DEF f, g

\* What the lock vault promises.
LotInv == LockTypeOK /\ LocksBacked

\* registerLock counts what the purchase brought.
LEMMA RegisterKeeps ==
  ASSUME LotInv, now \in Nat, NEW output \in Nat, NEW duration,
         tokens' = tokens + output, RegisterLock(output, duration), UNCHANGED <<held, gifts>>
  PROVE  LotInv'
<1>1. UnlockAt(duration) \in Nat
  BY TimeAssumption DEF RegisterLock, AllowedDuration, UnlockAt, Forever
<1> DEFINE lot == [amount |-> output, unlockAt |-> UnlockAt(duration), released |-> FALSE]
<1>2. /\ tokenLocks \in Lots /\ tokenLocks' = Append(tokenLocks, lot)
      /\ accounted' = accounted + output /\ accounted \in Nat /\ gifts \in Nat /\ held \in Nat
      /\ tokens \in Nat
  BY DEF LotInv, LockTypeOK, Lots, RegisterLock
<1>3. /\ accounted = SumFunctionOnSet(Owed(tokenLocks), DOMAIN tokenLocks)
      /\ tokens = accounted + gifts
  BY BackedIsSum DEF LotInv
<1>4. /\ tokenLocks' \in Lots
      /\ SumFunctionOnSet(Owed(tokenLocks'), DOMAIN tokenLocks') = accounted + output
  BY <1>1, <1>2, <1>3, OwedAppend
<1>5. LocksBacked'
  BY <1>2, <1>3, <1>4, BackedIsSum
<1> QED
  BY <1>2, <1>4, <1>5 DEF LotInv, LockTypeOK, Lots

\* A release pays a tranche with its own tokens.
LEMMA ReleaseKeeps ==
  ASSUME LotInv, now \in Nat, NEW lockId \in DOMAIN tokenLocks, Release(lockId)
  PROVE  LotInv'
<1> DEFINE amount == tokenLocks[lockId].amount
           owed == SumFunctionOnSet(Owed(tokenLocks), DOMAIN tokenLocks)
<1>2. /\ tokenLocks \in Lots /\ tokenLocks' = [tokenLocks EXCEPT ![lockId].released = TRUE]
      /\ ~tokenLocks[lockId].released
      /\ accounted' = accounted - amount /\ tokens' = tokens - amount /\ held' = held + amount
      /\ gifts' = gifts /\ gifts \in Nat /\ held \in Nat
  BY DEF LotInv, LockTypeOK, Lots, Release, Mature
<1>3. accounted = owed /\ tokens = accounted + gifts
  BY BackedIsSum DEF LotInv
<1>4. amount \in Nat
  BY <1>2, LotFields
<1>5. /\ tokenLocks' \in Lots
      /\ SumFunctionOnSet(Owed(tokenLocks'), DOMAIN tokenLocks') = owed - amount
      /\ amount <= owed /\ owed \in Nat
  BY <1>2, OwedRelease
<1> HIDE DEF amount, owed
<1>6. LocksBacked'
  BY <1>2, <1>3, <1>4, <1>5, BackedIsSum
<1>7. tokens' \in Nat /\ accounted' \in Nat /\ held' \in Nat
  BY <1>2, <1>3, <1>4, <1>5
<1> QED
  BY <1>2, <1>5, <1>6, <1>7 DEF LotInv, LockTypeOK, Lots

\* Tokens sent by others are counted apart.
LEMMA GiftKeeps ==
  ASSUME LotInv, Gift
  PROVE  LotInv'
<1>1. /\ accounted = SumFunctionOnSet(Owed(tokenLocks), DOMAIN tokenLocks)
      /\ tokens = accounted + gifts
      /\ accounted \in Nat /\ gifts \in Nat /\ tokens \in Nat
  BY BackedIsSum DEF LotInv, LockTypeOK
<1>2. /\ accounted' = SumFunctionOnSet(Owed(tokenLocks'), DOMAIN tokenLocks')
      /\ tokens' = accounted' + gifts'
  BY <1>1 DEF Gift
<1>3. LocksBacked'
  BY <1>2, BackedIsSum
<1> QED
  BY <1>1, <1>3 DEF LotInv, LockTypeOK, Gift

\* What does not touch the vault changes nothing.
LEMMA LotsSame ==
  ASSUME LotInv, UNCHANGED <<tokens, accounted, tokenLocks, gifts>>, held' \in Nat
  PROVE  LotInv'
<1>1. LocksBacked'
  BY BackedIsSum DEF LotInv
<1> QED
  BY <1>1 DEF LotInv, LockTypeOK

-----------------------------------------------------------------------------
(* The controller                                                          *)

\* An option has a count, a voter a weight; what was never proposed is empty.
ProposalFits(id) ==
  LET p == proposals[id] IN
  /\ Len(p.votes) = Len(p.options)
  /\ p.endsAt <= p.executableAt
  /\ IsFiniteSet(hasVoted[id]) /\ hasVoted[id] \subseteq DOMAIN p.weightRoot
  /\ id > proposalCount =>
       p.options = <<>> /\ p.cast = 0 /\ p.total = 0 /\ hasVoted[id] = {}

\* Only a proposal whose vote has ended touched the reserve.
DecisionsFinal ==
  \A e \in {d \in optionsExecuted : d.action # "ACCUMULATE"} :
    e.id <= proposalCount /\ now >= proposals[e.id].endsAt

\* Without a stray execution, the active proposal alone is undecided.
OneUndecided ==
  ~StrayExecuted =>
    \A id \in 1..proposalCount : ~proposals[id].executed => id = activeProposalId

GovernanceInv ==
  /\ TypeOK /\ VaultsKeep
  /\ \A id \in Ids : ProposalFits(id)
  /\ TallyIsVoters
  /\ DecisionsFinal /\ DecisionIsMajority
  /\ OneUndecided /\ FrozenAmountsCovered

\* The fields of a proposal.
LEMMA ProposalFields ==
  ASSUME NEW p \in Proposal
  PROVE  /\ p.startsAt \in Nat /\ p.endsAt \in Nat /\ p.executableAt \in Nat
         /\ p.weightRoot \in {ballot.root : ballot \in Ballots} \union {<<>>}
         /\ p.total \in Nat /\ p.cast \in Nat
         /\ p.options \in Seq(Option) /\ p.votes \in Seq(Nat)
         /\ p.executed \in BOOLEAN /\ p.passed \in BOOLEAN /\ p.winner \in Nat
BY DEF Proposal

\* The fields of an option.
LEMMA OptionFields ==
  ASSUME NEW option \in Option
  PROVE  /\ option.action \in ActionType /\ option.bps \in Nat /\ option.amount \in Nat
         /\ option.duration \in Nat /\ option.recipient \in Recipient
BY DEF Option

\* A weight is a natural number, of a listed holder.
LEMMA Weights ==
  ASSUME NEW p \in Proposal
  PROVE  /\ DOMAIN p.weightRoot \subseteq Holders
         /\ \A holder \in DOMAIN p.weightRoot : p.weightRoot[holder] \in Nat
<1>1. p.weightRoot \in {ballot.root : ballot \in Ballots} \union {<<>>}
  BY ProposalFields
<1>2. CASE p.weightRoot = <<>>
  <2>1. DOMAIN <<>> = {}
    OBVIOUS
  <2> QED
    BY <1>2, <2>1
<1>3. CASE p.weightRoot # <<>>
  <2>1. PICK ballot \in Ballots : p.weightRoot = ballot.root
    BY <1>1, <1>3
  <2>2. PICK listed \in SUBSET Holders : ballot.root \in [listed -> Nat]
    BY GovernanceAssumption
  <2> QED
    BY <2>1, <2>2
<1> QED
  BY <1>2, <1>3

\* Terms added over the counts of a proposal.
LEMMA CountsFinite ==
  ASSUME NEW votes \in Seq(Nat)
  PROVE  /\ Len(votes) \in Nat /\ DOMAIN votes = 1..Len(votes) /\ IsFiniteSet(DOMAIN votes)
         /\ \A i \in DOMAIN votes : votes[i] \in Nat
         /\ SumFunction(votes) = SumFunctionOnSet(votes, DOMAIN votes)
<1>1. Len(votes) \in Nat /\ DOMAIN votes = 1..Len(votes)
  OBVIOUS
<1>2. IsFiniteSet(DOMAIN votes)
  BY <1>1, FS_Interval
<1>3. \A i \in DOMAIN votes : votes[i] \in Nat
  BY ElementsOf
<1> QED
  BY <1>1, <1>2, <1>3 DEF SumFunction

-----------------------------------------------------------------------------
(* createProposal                                                          *)

\* An option is frozen at an amount that is available.
LEMMA FrozenOption ==
  ASSUME ReserveInv, now \in Nat, NEW option \in Option, ValidOption(option)
  PROVE  /\ Frozen(option) \in Option
         /\ Frozen(option).amount <= AvailableBalance
<1>1. AvailableBalance \in Nat
  BY AvailableNat
<1>2. option.bps \in Nat /\ option.bps <= BPS /\ BPS \in Nat \ {0}
  BY GovernanceAssumption DEF ValidOption, Option
<1> DEFINE share == PreviewReserveAmount(option.bps)
<1>3. share \in Nat /\ share <= AvailableBalance
  BY <1>1, <1>2, ShareFits DEF PreviewReserveAmount
<1> HIDE DEF share
<1>4. [option EXCEPT !.amount = share] \in Option /\ [option EXCEPT !.amount = share].amount = share
  BY <1>3 DEF Option
<1>5. Frozen(option) = [option EXCEPT !.amount = share]
  BY DEF Frozen, share
<1> QED
  BY <1>3, <1>4, <1>5

\* The proposal createProposal stores: empty counts, amounts that are available.
LEMMA CreateEffect ==
  ASSUME GovernanceInv, NEW ballot \in Ballots, NEW duration \in VotingDurations,
         NEW menu \in Menus, CreateProposal(ballot, duration, menu),
         NEW id, id = proposalCount + 1
  PROVE  /\ id \in Ids
         /\ proposals' \in [Ids -> Proposal]
         /\ \A o \in Ids : o # id => proposals'[o] = proposals[o]
         /\ Len(proposals'[id].votes) = Len(proposals'[id].options)
         /\ \A i \in DOMAIN proposals'[id].votes : proposals'[id].votes[i] = 0
         /\ \A i \in DOMAIN proposals'[id].options :
              proposals'[id].options[i].amount <= AvailableBalance
         /\ proposals'[id].endsAt <= proposals'[id].executableAt
         /\ proposals'[id].cast = 0
         /\ ~proposals'[id].executed /\ ~proposals'[id].passed
<1> DEFINE endsAt == now + duration
           frozen == [i \in DOMAIN menu |-> Frozen(menu[i])]
           zeros == [i \in DOMAIN menu |-> 0]
           p == [NoProposal EXCEPT !.startsAt = now, !.endsAt = endsAt,
                          !.executableAt = endsAt + ExecutionDelay,
                          !.weightRoot = ballot.root, !.total = ballot.total,
                          !.options = frozen, !.votes = zeros]
<1>1. /\ now \in Nat /\ ReserveInv /\ id \in Ids
      /\ proposals \in [Ids -> Proposal] /\ proposals' = [proposals EXCEPT ![id] = p]
  BY TimeAssumption DEF GovernanceInv, TypeOK, VaultsKeep, ReserveInv, CreateProposal
<1>2. endsAt \in Nat /\ endsAt + ExecutionDelay \in Nat /\ endsAt <= endsAt + ExecutionDelay
  BY <1>1, GovernanceAssumption
<1>3. ballot.root \in {b.root : b \in Ballots} \union {<<>>} /\ ballot.total \in Nat
  BY GovernanceAssumption
<1>4. menu \in Seq(Option) /\ Len(menu) \in Nat /\ DOMAIN menu = 1..Len(menu)
  BY GovernanceAssumption
<1>5. \A i \in DOMAIN menu : Frozen(menu[i]) \in Option /\ Frozen(menu[i]).amount <= AvailableBalance
  <2> SUFFICES ASSUME NEW i \in DOMAIN menu
               PROVE  Frozen(menu[i]) \in Option /\ Frozen(menu[i]).amount <= AvailableBalance
    OBVIOUS
  <2>1. menu[i] \in Option
    BY <1>4, ElementsOf
  <2>2. ValidOption(menu[i])
    BY DEF CreateProposal
  <2> QED
    BY <1>1, <2>1, <2>2, FrozenOption
<1>6. frozen \in Seq(Option) /\ DOMAIN frozen = DOMAIN menu /\ Len(frozen) = Len(menu)
  BY <1>4, <1>5
<1>7. zeros \in Seq(Nat) /\ DOMAIN zeros = DOMAIN menu /\ Len(zeros) = Len(menu)
  BY <1>4
<1>8. /\ \A i \in DOMAIN frozen : frozen[i].amount <= AvailableBalance
      /\ \A i \in DOMAIN zeros : zeros[i] = 0
  BY <1>5, <1>6, <1>7
<1> HIDE DEF endsAt, frozen, zeros
<1>9. /\ p \in Proposal
      /\ p.votes = zeros /\ p.options = frozen /\ p.endsAt = endsAt
      /\ p.executableAt = endsAt + ExecutionDelay /\ p.cast = 0
      /\ p.executed = FALSE /\ p.passed = FALSE
  BY <1>1, <1>2, <1>3, <1>6, <1>7 DEF NoProposal, Proposal
<1> HIDE DEF p
<1>10. /\ proposals' \in [Ids -> Proposal] /\ proposals'[id] = p
       /\ \A o \in Ids : o # id => proposals'[o] = proposals[o]
  BY <1>1, <1>9
<1> QED
  BY <1>1, <1>2, <1>6, <1>7, <1>8, <1>9, <1>10

-----------------------------------------------------------------------------
(* vote                                                                    *)

\* A vote adds a weight to the tally and to the count of one option.
LEMMA VoteEffect ==
  ASSUME GovernanceInv, NEW holder \in Holders, NEW id \in Ids, NEW choice,
         Vote(holder, id, choice), NEW p, p = proposals[id], NEW q, q = proposals'[id],
         NEW weight, weight = p.weightRoot[holder]
  PROVE  /\ weight \in Nat
         /\ proposals' \in [Ids -> Proposal]
         /\ \A o \in Ids : o # id => proposals'[o] = proposals[o]
         /\ q.cast = p.cast + weight
         /\ choice \in DOMAIN p.votes
         /\ q.votes = [p.votes EXCEPT ![choice] = @ + weight]
         /\ q.startsAt = p.startsAt /\ q.endsAt = p.endsAt /\ q.executableAt = p.executableAt
         /\ q.weightRoot = p.weightRoot /\ q.total = p.total /\ q.options = p.options
         /\ q.executed = p.executed /\ q.passed = p.passed
<1>1. p \in Proposal /\ proposals \in [Ids -> Proposal]
  BY DEF GovernanceInv, TypeOK
<1>2. weight \in Nat
  BY <1>1, Weights DEF Vote
<1>3. p.votes \in Seq(Nat) /\ p.options \in Seq(Option) /\ p.cast \in Nat
  BY <1>1, ProposalFields
<1>4. choice \in DOMAIN p.votes
  <2>1. Len(p.votes) = Len(p.options)
    BY DEF GovernanceInv, ProposalFits
  <2> QED
    BY <1>3, <2>1 DEF Vote
<1> DEFINE votes == [p.votes EXCEPT ![choice] = @ + weight]
           cast == p.cast + weight
           new == [p EXCEPT !.cast = cast, !.votes = votes]
<1>5. votes \in Seq(Nat)
  <2>1. p.votes \in [1..Len(p.votes) -> Nat] /\ Len(p.votes) \in Nat
    BY <1>3
  <2>2. p.votes[choice] + weight \in Nat
    BY <1>2, <1>3, <1>4, ElementsOf
  <2>3. votes \in [1..Len(p.votes) -> Nat]
    BY <2>1, <2>2
  <2> QED
    BY <2>1, <2>3
<1>6. proposals' = [proposals EXCEPT ![id] = new]
  BY <1>1 DEF Vote
<1>9. cast \in Nat
  BY <1>2, <1>3
<1> HIDE DEF votes, cast
<1>7. /\ new \in Proposal /\ new.cast = cast /\ new.votes = votes
      /\ new.startsAt = p.startsAt /\ new.endsAt = p.endsAt
      /\ new.executableAt = p.executableAt
      /\ new.weightRoot = p.weightRoot /\ new.total = p.total /\ new.options = p.options
      /\ new.executed = p.executed /\ new.passed = p.passed
  BY <1>1, <1>5, <1>9 DEF Proposal
<1> HIDE DEF new
<1>8. /\ proposals' \in [Ids -> Proposal] /\ q = new
      /\ \A o \in Ids : o # id => proposals'[o] = proposals[o]
  BY <1>1, <1>6, <1>7
<1> QED
  BY <1>2, <1>4, <1>7, <1>8 DEF votes, cast

-----------------------------------------------------------------------------
(* execute                                                                 *)

\* _options of any index is an option.
LEMMA ChosenOption ==
  ASSUME NEW p \in Proposal, NEW choice
  PROVE  Chosen(p, choice) \in Option
<1>1. NoOption \in Option
  BY DEF NoOption, Option, ActionType, Recipient
<1>2. p.options \in Seq(Option)
  BY ProposalFields
<1>3. \A i \in DOMAIN p.options : p.options[i] \in Option
  BY <1>2, ElementsOf
<1> QED
  BY <1>1, <1>3 DEF Chosen

\* The executor keeps both vaults, whatever the winning option is.
LEMMA ExecuteOptionKeeps ==
  ASSUME ReserveInv, LotInv, now \in Nat, UNCHANGED now,
         NEW id, NEW option \in Option, ExecuteOption(id, option)
  PROVE  ReserveInv' /\ LotInv'
<1>1. option.amount \in Nat
  BY OptionFields
<1>2. held \in Nat
  BY DEF LotInv, LockTypeOK
<1>3. CASE UNCHANGED <<reserveVars, lockVars>>
  <2>1. UNCHANGED reserveVars /\ UNCHANGED <<tokens, accounted, tokenLocks, gifts>> /\ held' = held
    BY <1>3 DEF lockVars
  <2> QED
    BY <1>2, <2>1, ReserveSame, LotsSame
<1>4. CASE LockMstr(option.amount, option.duration) /\ UNCHANGED lockVars
  <2>1. UNCHANGED <<tokens, accounted, tokenLocks, gifts>> /\ held' = held
    BY <1>4 DEF lockVars
  <2>2. ReserveInv'
    BY <1>1, <1>4, LockMstrKeeps
  <2> QED
    BY <1>2, <2>1, <2>2, LotsSame
<1>5. CASE Swap(option)
  <2>1. ReserveInv'
    BY <1>1, <1>5, ReleaseMstrKeeps DEF Swap
  <2>2. PICK output \in SwapOutput :
           \/ /\ held' = held + output
              /\ UNCHANGED <<tokens, accounted, tokenLocks, gifts>>
           \/ UNCHANGED lockVars
           \/ /\ tokens' = tokens + output
              /\ RegisterLock(output, option.duration)
              /\ UNCHANGED <<held, gifts>>
    BY <1>5 DEF Swap
  <2>3. output \in Nat
    BY GovernanceAssumption
  <2>4. CASE held' = held + output /\ UNCHANGED <<tokens, accounted, tokenLocks, gifts>>
    BY <1>2, <2>1, <2>3, <2>4, LotsSame
  <2>5. CASE UNCHANGED lockVars
    BY <1>2, <2>1, <2>5, LotsSame DEF lockVars
  <2>6. CASE /\ tokens' = tokens + output
             /\ RegisterLock(output, option.duration)
             /\ UNCHANGED <<held, gifts>>
    BY <2>1, <2>3, <2>6, RegisterKeeps
  <2> QED
    BY <2>2, <2>4, <2>5, <2>6
<1> QED
  BY <1>3, <1>4, <1>5 DEF ExecuteOption

\* An execution marks the proposal and leaves its votes alone.
LEMMA ExecuteEffect ==
  ASSUME GovernanceInv, NEW id \in Ids, Execute(id),
         NEW p, p = proposals[id], NEW q, q = proposals'[id]
  PROVE  /\ proposals' \in [Ids -> Proposal]
         /\ \A o \in Ids : o # id => proposals'[o] = proposals[o]
         /\ q.startsAt = p.startsAt /\ q.endsAt = p.endsAt /\ q.executableAt = p.executableAt
         /\ q.weightRoot = p.weightRoot /\ q.total = p.total /\ q.cast = p.cast
         /\ q.options = p.options /\ q.votes = p.votes
         /\ q.executed = TRUE /\ q.passed = ~Rejected(p)
<1> DEFINE rejected == Rejected(p)
           passed == ~rejected
           winner == IF rejected THEN 0 ELSE Winner(p.votes).winner
           new == [p EXCEPT !.executed = TRUE, !.passed = passed, !.winner = winner]
<1>1. p \in Proposal /\ proposals \in [Ids -> Proposal]
  BY DEF GovernanceInv, TypeOK
<1>2. p.votes \in Seq(Nat)
  BY <1>1, ProposalFields
<1>3. winner \in Nat
  BY <1>2, WinnerLeads
<1>4. passed \in BOOLEAN
  BY DEF Rejected
<1>5. proposals' = [proposals EXCEPT ![id] = new]
  BY <1>1 DEF Execute
<1>6. passed = ~Rejected(p)
  OBVIOUS
<1> HIDE DEF rejected, passed, winner
<1>7. /\ new \in Proposal
      /\ new.startsAt = p.startsAt /\ new.endsAt = p.endsAt
      /\ new.executableAt = p.executableAt
      /\ new.weightRoot = p.weightRoot /\ new.total = p.total /\ new.cast = p.cast
      /\ new.options = p.options /\ new.votes = p.votes
      /\ new.executed = TRUE /\ new.passed = passed
  BY <1>1, <1>3, <1>4 DEF Proposal
<1> HIDE DEF new
<1>8. /\ proposals' \in [Ids -> Proposal] /\ q = new
      /\ \A o \in Ids : o # id => proposals'[o] = proposals[o]
  BY <1>1, <1>5, <1>7
<1> QED
  BY <1>6, <1>7, <1>8

\* What execute runs won the vote.
LEMMA ExecuteDecides ==
  ASSUME GovernanceInv, NEW id \in Ids, Execute(id), NEW p, p = proposals[id], ~Rejected(p),
         NEW option, option = Chosen(p, Winner(p.votes).winner), option.action # "ACCUMULATE"
  PROVE  /\ id <= proposalCount /\ now >= p.endsAt
         /\ p.cast * BPS >= p.total * QuorumBps
         /\ \E i \in DOMAIN p.options :
              /\ p.options[i].action = option.action
              /\ p.options[i].amount = option.amount
              /\ \A j \in DOMAIN p.options \ {i} : p.votes[j] < p.votes[i]
<1> DEFINE r == Winner(p.votes)
<1>1. p \in Proposal /\ ProposalFits(id) /\ now \in Nat /\ proposalCount \in Nat
  BY GovernanceAssumption, TimeAssumption DEF GovernanceInv, TypeOK
<1>2. /\ p.votes \in Seq(Nat) /\ p.options \in Seq(Option)
      /\ p.endsAt \in Nat /\ p.executableAt \in Nat
  BY <1>1, ProposalFields
<1>3. ~r.tied /\ p.cast * BPS >= p.total * QuorumBps
  BY DEF Rejected, QuorumReached
<1>4. Leads(r, p.votes, Len(p.votes))
  BY <1>2, WinnerLeads
<1>5. r.winner \in DOMAIN p.options /\ option = p.options[r.winner]
  BY DEF Chosen, NoOption
<1>6. /\ DOMAIN p.options = 1..Len(p.options) /\ Len(p.votes) = Len(p.options)
      /\ p.options # <<>> /\ p.endsAt <= p.executableAt
      /\ id > proposalCount => p.options = <<>>
  BY <1>1, <1>2, <1>5 DEF ProposalFits
<1>7. id <= proposalCount
  BY <1>1, <1>6 DEF Ids
<1>8. now >= p.endsAt
  BY <1>1, <1>2, <1>6 DEF Execute
<1> DEFINE w == r.winner
<1>9. \A j \in DOMAIN p.options \ {w} : p.votes[j] < p.votes[w]
  BY <1>3, <1>4, <1>5, <1>6 DEF Leads
<1> HIDE DEF r, w
<1>10. w \in DOMAIN p.options /\ option = p.options[w]
  BY <1>5 DEF w, r
<1> QED
  BY <1>3, <1>7, <1>8, <1>9, <1>10

-----------------------------------------------------------------------------
(* Every step keeps the invariant                                          *)

\* What the steps need of the invariant.
LEMMA InvFacts ==
  ASSUME GovernanceInv
  PROVE  /\ ReserveInv /\ LotInv /\ now \in Nat /\ now \in 1..MaxTime /\ MaxTime \in Nat
         /\ proposals \in [Ids -> Proposal] /\ proposalCount \in 0..MaxProposals
         /\ MaxProposals \in Nat /\ AvailableBalance \in Nat
<1>1. /\ ReserveInv /\ LotInv /\ now \in Nat /\ now \in 1..MaxTime /\ MaxTime \in Nat
      /\ proposals \in [Ids -> Proposal] /\ proposalCount \in 0..MaxProposals
      /\ MaxProposals \in Nat
  BY TimeAssumption, GovernanceAssumption
  DEF GovernanceInv, TypeOK, VaultsKeep, ReserveInv, LotInv
<1> QED
  BY <1>1, AvailableNat

\* A step that leaves the votes alone, and does not lower what is available.
LEMMA VotesSame ==
  ASSUME GovernanceInv, UNCHANGED <<govVars, execVars>>,
         now' \in 1..MaxTime, now' >= now,
         ReserveInv', LotInv', AvailableBalance' \in Nat, AvailableBalance' >= AvailableBalance
  PROVE  GovernanceInv'
<1>1. /\ proposalCount' = proposalCount /\ activeProposalId' = activeProposalId
      /\ proposals' = proposals /\ hasVoted' = hasVoted
      /\ proposalExecuted' = proposalExecuted /\ optionsExecuted' = optionsExecuted
  BY DEF govVars, execVars
<1>2. TypeOK' /\ VaultsKeep'
  BY <1>1 DEF GovernanceInv, TypeOK, VaultsKeep, ReserveInv, LotInv
<1>3. \A id \in Ids : ProposalFits(id)'
  BY <1>1 DEF GovernanceInv, ProposalFits
<1>4. TallyIsVoters' /\ DecisionIsMajority'
  BY <1>1 DEF GovernanceInv, TallyIsVoters, DecisionIsMajority
<1>5. DecisionsFinal'
  <2> SUFFICES ASSUME NEW e \in optionsExecuted, e.action # "ACCUMULATE"
               PROVE  e.id <= proposalCount /\ now' >= proposals[e.id].endsAt
    BY <1>1 DEF DecisionsFinal
  <2>1. e.id <= proposalCount /\ now >= proposals[e.id].endsAt /\ e.id \in Ids
    BY DEF GovernanceInv, DecisionsFinal, TypeOK
  <2>2. proposals[e.id].endsAt \in Nat
    BY <2>1, InvFacts, ProposalFields
  <2> QED
    BY <2>1, <2>2, InvFacts
<1>6. OneUndecided' /\ StrayExecuted' = StrayExecuted
  BY <1>1 DEF GovernanceInv, OneUndecided, StrayExecuted
<1>7. FrozenAmountsCovered'
  <2> SUFFICES ASSUME ~StrayExecuted, NEW id \in 1..proposalCount, ~proposals[id].executed,
                      NEW i \in DOMAIN proposals[id].options
               PROVE  proposals[id].options[i].amount <= AvailableBalance'
    BY <1>1, <1>6 DEF FrozenAmountsCovered
  <2>1. proposals[id].options[i].amount <= AvailableBalance
    BY DEF GovernanceInv, FrozenAmountsCovered
  <2>2. proposals[id] \in Proposal
    BY InvFacts DEF Ids
  <2>3. proposals[id].options[i].amount \in Nat
    BY <2>2, ProposalFields, ElementsOf, OptionFields
  <2> QED
    BY <2>1, <2>3, InvFacts
<1> QED
  BY <1>2, <1>3, <1>4, <1>5, <1>6, <1>7 DEF GovernanceInv

\* The keeper releases a tranche.
LEMMA ReleaseStep ==
  ASSUME GovernanceInv, NEW lockId \in Ids, ReleaseMatured(lockId)
  PROVE  GovernanceInv'
<1>1. /\ lockId \in DOMAIN tokenLocks /\ Release(lockId)
      /\ UNCHANGED now /\ UNCHANGED reserveVars /\ UNCHANGED <<govVars, execVars>>
  BY DEF ReleaseMatured
<1>2. ReserveInv' /\ LotInv' /\ AvailableBalance' = AvailableBalance
  BY <1>1, InvFacts, ReserveSame, ReleaseKeeps
<1> QED
  BY <1>1, <1>2, InvFacts, VotesSame

\* Somebody sends tokens.
LEMMA GiftStep ==
  ASSUME GovernanceInv, Gift, UNCHANGED <<now, reserveVars, govVars, execVars>>
  PROVE  GovernanceInv'
<1>1. UNCHANGED now /\ UNCHANGED reserveVars /\ UNCHANGED <<govVars, execVars>>
  OBVIOUS
<1>2. ReserveInv' /\ LotInv' /\ AvailableBalance' = AvailableBalance
  BY <1>1, InvFacts, ReserveSame, GiftKeeps
<1> QED
  BY <1>1, <1>2, InvFacts, VotesSame

\* MSTR arrives.
LEMMA DepositStep ==
  ASSUME GovernanceInv, NEW amount \in Deposits, Deposit(amount),
         UNCHANGED <<now, lockVars, govVars, execVars>>
  PROVE  GovernanceInv'
<1>1. /\ UNCHANGED now /\ UNCHANGED <<tokens, accounted, tokenLocks, gifts>> /\ held' = held
      /\ UNCHANGED <<govVars, execVars>> /\ amount \in Nat /\ held \in Nat
  BY ReserveAssumption, InvFacts DEF lockVars, LotInv, LockTypeOK
<1>2. /\ ReserveInv' /\ LotInv'
      /\ AvailableBalance' >= AvailableBalance /\ AvailableBalance' \in Nat
  BY <1>1, InvFacts, DepositKeeps, LotsSame
<1> QED
  BY <1>1, <1>2, InvFacts, VotesSame

\* A block later.
LEMMA TimeStep ==
  ASSUME GovernanceInv, TimePasses
  PROVE  GovernanceInv'
<1>1. /\ Tick /\ UNCHANGED reserveVars /\ UNCHANGED <<govVars, execVars>>
      /\ UNCHANGED <<tokens, accounted, tokenLocks, gifts>> /\ held' = held /\ held \in Nat
  BY InvFacts DEF TimePasses, lockVars, LotInv, LockTypeOK
<1>2. /\ ReserveInv' /\ LotInv'
      /\ AvailableBalance' >= AvailableBalance /\ AvailableBalance' \in Nat
  BY <1>1, InvFacts, TickKeeps, LotsSame
<1>3. now' \in 1..MaxTime /\ now' >= now
  BY <1>1, InvFacts DEF Tick
<1> QED
  BY <1>1, <1>2, <1>3, VotesSame

\* Nothing happens.
LEMMA StutterStep ==
  ASSUME GovernanceInv, UNCHANGED vars
  PROVE  GovernanceInv'
<1>1. /\ UNCHANGED now /\ UNCHANGED reserveVars /\ UNCHANGED <<govVars, execVars>>
      /\ UNCHANGED <<tokens, accounted, tokenLocks, gifts>> /\ held' = held /\ held \in Nat
  BY InvFacts DEF vars, lockVars, LotInv, LockTypeOK
<1>2. ReserveInv' /\ LotInv' /\ AvailableBalance' = AvailableBalance
  BY <1>1, InvFacts, ReserveSame, LotsSame
<1> QED
  BY <1>1, <1>2, InvFacts, VotesSame

\* createProposal.
LEMMA CreateStep ==
  ASSUME GovernanceInv, NEW ballot \in Ballots, NEW duration \in VotingDurations,
         NEW menu \in Menus, CreateProposal(ballot, duration, menu)
  PROVE  GovernanceInv'
<1> DEFINE id == proposalCount + 1
           q == proposals'[id]
<1>1. /\ id \in Ids /\ proposals' \in [Ids -> Proposal]
      /\ \A o \in Ids : o # id => proposals'[o] = proposals[o]
      /\ Len(q.votes) = Len(q.options)
      /\ \A i \in DOMAIN q.votes : q.votes[i] = 0
      /\ \A i \in DOMAIN q.options : q.options[i].amount <= AvailableBalance
      /\ q.endsAt <= q.executableAt
      /\ q.cast = 0 /\ ~q.executed /\ ~q.passed
  BY CreateEffect
<1>2. /\ proposalCount' = id /\ activeProposalId' = id /\ activeProposalId = 0
      /\ UNCHANGED now /\ hasVoted' = hasVoted
      /\ UNCHANGED reserveVars
      /\ UNCHANGED <<tokens, accounted, tokenLocks, gifts>> /\ held' = held
      /\ proposalExecuted' = proposalExecuted /\ optionsExecuted' = optionsExecuted
  BY DEF CreateProposal, execVars, lockVars
<1>3. held \in Nat /\ proposalCount \in Nat /\ id \in Nat /\ id > proposalCount
  BY InvFacts DEF LotInv, LockTypeOK
<1>4. ReserveInv' /\ LotInv' /\ AvailableBalance' = AvailableBalance
  BY <1>2, <1>3, InvFacts, ReserveSame, LotsSame
<1>5. q \in Proposal
  BY <1>1
<1>6. hasVoted[id] = {}
  BY <1>1, <1>3 DEF GovernanceInv, ProposalFits
<1> HIDE DEF q
<1>7. TypeOK'
  <2>1. id \in 0..MaxProposals /\ id \in 0..id
    BY <1>1, <1>3 DEF Ids
  <2> HIDE DEF id
  <2> QED
    BY <1>1, <1>2, <1>4, <2>1 DEF GovernanceInv, TypeOK, ReserveInv, LotInv
<1>8. VaultsKeep'
  BY <1>4 DEF VaultsKeep, ReserveInv, LotInv
<1>9. ASSUME NEW o \in Ids PROVE ProposalFits(o)'
  <2>1. CASE o = id
    <3>1. hasVoted'[o] = {} /\ IsFiniteSet({}) /\ ~(o > proposalCount')
      BY <1>2, <1>3, <1>6, <2>1, FS_EmptySet
    <3> QED
      BY <1>1, <2>1, <3>1 DEF ProposalFits, q
  <2>2. CASE o # id
    <3>1. ProposalFits(o) /\ proposals'[o] = proposals[o] /\ hasVoted'[o] = hasVoted[o]
      BY <1>1, <1>2, <2>2 DEF GovernanceInv
    <3>2. o > proposalCount' => o > proposalCount
      BY <1>2, <1>3, <2>2 DEF Ids
    <3> QED
      BY <3>1, <3>2 DEF ProposalFits
  <2> QED
    BY <2>1, <2>2
<1>10. TallyIsVoters'
  <2> SUFFICES ASSUME NEW o \in Ids
               PROVE  /\ proposals'[o].cast
                           = SumFunctionOnSet(proposals'[o].weightRoot, hasVoted[o])
                      /\ proposals'[o].cast = SumFunction(proposals'[o].votes)
                      /\ proposals'[o].cast <= proposals'[o].total
    BY <1>2 DEF TallyIsVoters
  <2>1. CASE o = id
    <3>1. q.votes \in Seq(Nat) /\ q.total \in Nat
      BY <1>5, ProposalFields
    <3>2. SumFunction(q.votes) = 0
      BY <1>1, <3>1, CountsFinite, SumZero DEF q
    <3>3. SumFunctionOnSet(q.weightRoot, hasVoted[id]) = 0
      BY <1>6, SumEmpty
    <3> QED
      BY <1>1, <2>1, <3>1, <3>2, <3>3 DEF q
  <2>2. CASE o # id
    BY <1>1, <2>2 DEF GovernanceInv, TallyIsVoters
  <2> QED
    BY <2>1, <2>2
<1>11. \A e \in optionsExecuted : e.id \in Ids
  BY DEF GovernanceInv, TypeOK
<1>12. \A e \in optionsExecuted : e.action # "ACCUMULATE" =>
         e.id <= proposalCount /\ e.id # id /\ proposals'[e.id] = proposals[e.id]
  <2> SUFFICES ASSUME NEW e \in optionsExecuted, e.action # "ACCUMULATE"
               PROVE  e.id <= proposalCount /\ e.id # id /\ proposals'[e.id] = proposals[e.id]
    OBVIOUS
  <2>1. e.id <= proposalCount /\ e.id \in Ids
    BY <1>11 DEF GovernanceInv, DecisionsFinal
  <2>2. e.id # id
    BY <1>3, <2>1 DEF Ids
  <2> QED
    BY <1>1, <2>1, <2>2
<1>13. DecisionsFinal'
  <2> SUFFICES ASSUME NEW e \in optionsExecuted, e.action # "ACCUMULATE"
               PROVE  e.id <= proposalCount' /\ now >= proposals'[e.id].endsAt
    BY <1>2 DEF DecisionsFinal
  <2>1. e.id <= proposalCount /\ now >= proposals[e.id].endsAt /\ e.id \in Nat
    BY <1>11 DEF GovernanceInv, DecisionsFinal, Ids
  <2> QED
    BY <1>2, <1>3, <1>12, <2>1
<1>14. DecisionIsMajority'
  BY <1>2, <1>12, Zenon DEF GovernanceInv, DecisionIsMajority
<1>15. StrayExecuted => StrayExecuted'
  <2> SUFFICES ASSUME NEW x \in proposalExecuted, x > proposalCount \/ ~proposals[x].passed
               PROVE  x > proposalCount' \/ ~proposals'[x].passed
    BY <1>2 DEF StrayExecuted
  <2>1. x \in Ids
    BY DEF GovernanceInv, TypeOK
  <2>2. CASE x = id
    BY <1>1, <2>2 DEF q
  <2>3. CASE x # id
    BY <1>1, <1>2, <1>3, <2>1, <2>3 DEF Ids
  <2> QED
    BY <2>2, <2>3
<1>16. ASSUME ~StrayExecuted', NEW o \in 1..proposalCount', ~proposals'[o].executed
       PROVE  o = id
  <2> SUFFICES ASSUME o # id PROVE FALSE
    OBVIOUS
  <2>1. o \in 1..proposalCount /\ o \in Ids
    BY <1>2, <1>3, InvFacts DEF Ids
  <2>2. ~proposals[o].executed
    BY <1>1, <1>16, <2>1
  <2>3. o = activeProposalId
    BY <1>15, <1>16, <2>1, <2>2 DEF GovernanceInv, OneUndecided
  <2> QED
    BY <1>2, <2>1, <2>3
<1>17. OneUndecided'
  BY <1>2, <1>16 DEF OneUndecided
<1>18. FrozenAmountsCovered'
  BY <1>1, <1>4, <1>16 DEF FrozenAmountsCovered, q
<1> QED
  BY <1>7, <1>8, <1>9, <1>10, <1>13, <1>14, <1>17, <1>18 DEF GovernanceInv

\* vote.
LEMMA VoteStep ==
  ASSUME GovernanceInv, NEW holder \in Holders, NEW id \in Ids,
         NEW choice \in DOMAIN proposals[id].options, Vote(holder, id, choice)
  PROVE  GovernanceInv'
<1> DEFINE p == proposals[id]
           q == proposals'[id]
           weight == p.weightRoot[holder]
<1>1. /\ weight \in Nat
      /\ proposals' \in [Ids -> Proposal]
      /\ \A o \in Ids : o # id => proposals'[o] = proposals[o]
      /\ q.cast = p.cast + weight
      /\ choice \in DOMAIN p.votes
      /\ q.votes = [p.votes EXCEPT ![choice] = @ + weight]
      /\ q.startsAt = p.startsAt /\ q.endsAt = p.endsAt /\ q.executableAt = p.executableAt
      /\ q.weightRoot = p.weightRoot /\ q.total = p.total /\ q.options = p.options
      /\ q.executed = p.executed /\ q.passed = p.passed
  BY VoteEffect
<1>2. /\ now < p.endsAt /\ p.cast + weight <= p.total
      /\ holder \in DOMAIN p.weightRoot /\ holder \notin hasVoted[id]
      /\ hasVoted' = [hasVoted EXCEPT ![id] = @ \union {holder}]
      /\ UNCHANGED now /\ proposalCount' = proposalCount /\ activeProposalId' = activeProposalId
      /\ UNCHANGED reserveVars
      /\ UNCHANGED <<tokens, accounted, tokenLocks, gifts>> /\ held' = held
      /\ proposalExecuted' = proposalExecuted /\ optionsExecuted' = optionsExecuted
  BY DEF Vote, execVars, lockVars
<1>3. held \in Nat /\ proposalCount \in Nat
  BY InvFacts DEF LotInv, LockTypeOK
<1>4. ReserveInv' /\ LotInv' /\ AvailableBalance' = AvailableBalance
  BY <1>2, <1>3, InvFacts, ReserveSame, LotsSame
<1>5. p \in Proposal /\ q \in Proposal /\ hasVoted \in [Ids -> SUBSET Holders]
  BY <1>1 DEF GovernanceInv, TypeOK
<1>6. p.votes \in Seq(Nat) /\ q.votes \in Seq(Nat) /\ p.cast \in Nat /\ p.endsAt \in Nat
  BY <1>5, ProposalFields
<1>7. choice \in DOMAIN p.options
  OBVIOUS
<1> HIDE DEF p, q, weight
<1>8. /\ hasVoted' \in [Ids -> SUBSET Holders] /\ hasVoted'[id] = hasVoted[id] \union {holder}
      /\ \A o \in Ids : o # id => hasVoted'[o] = hasVoted[o]
  BY <1>2, <1>5
<1>9. p.options # <<>>
  BY <1>7
<1>10. TypeOK'
  BY <1>1, <1>2, <1>4, <1>8 DEF GovernanceInv, TypeOK, ReserveInv, LotInv
<1>11. VaultsKeep'
  BY <1>4 DEF VaultsKeep, ReserveInv, LotInv
<1>12. /\ Len(p.votes) = Len(p.options) /\ p.endsAt <= p.executableAt
       /\ IsFiniteSet(hasVoted[id]) /\ hasVoted[id] \subseteq DOMAIN p.weightRoot
       /\ ~(id > proposalCount)
  BY <1>9 DEF GovernanceInv, ProposalFits, p
<1>13. Len(q.votes) = Len(p.votes) /\ DOMAIN q.votes = DOMAIN p.votes
  <2>1. DOMAIN q.votes = DOMAIN p.votes
    BY <1>1
  <2> QED
    BY <1>6, <2>1, CountsFinite
<1>14. ASSUME NEW o \in Ids PROVE ProposalFits(o)'
  <2>1. CASE o = id
    <3>1. IsFiniteSet(hasVoted'[id]) /\ hasVoted'[id] \subseteq DOMAIN q.weightRoot
      BY <1>1, <1>2, <1>8, <1>12, FS_AddElement
    <3> QED
      BY <1>1, <1>2, <1>12, <1>13, <2>1, <3>1 DEF ProposalFits, q
  <2>2. CASE o # id
    BY <1>1, <1>2, <1>8, <2>2 DEF GovernanceInv, ProposalFits
  <2> QED
    BY <2>1, <2>2
<1>15. TallyIsVoters'
  <2>1. /\ p.cast = SumFunctionOnSet(p.weightRoot, hasVoted[id])
        /\ p.cast = SumFunction(p.votes)
    BY DEF GovernanceInv, TallyIsVoters, p
  <2>2. q.cast = SumFunctionOnSet(q.weightRoot, hasVoted'[id])
    <3>1. \A y \in hasVoted[id] \cup {holder} : p.weightRoot[y] \in Nat
      BY <1>2, <1>5, <1>12, Weights
    <3>2. SumFunctionOnSet(p.weightRoot, hasVoted[id] \cup {holder})
            = SumFunctionOnSet(p.weightRoot, hasVoted[id]) + p.weightRoot[holder]
      BY <1>2, <1>12, <3>1, SumAdd
    <3> QED
      BY <1>1, <1>8, <2>1, <3>2 DEF weight
  <2>3. q.cast = SumFunction(q.votes)
    <3> DEFINE S == DOMAIN p.votes
               f == p.votes
               g == q.votes
    <3>1. /\ IsFiniteSet(S) /\ \A i \in S : f[i] \in Nat /\ g[i] \in Nat
          /\ SumFunction(f) = SumFunctionOnSet(f, S) /\ SumFunction(g) = SumFunctionOnSet(g, S)
      BY <1>6, <1>13, CountsFinite
    <3>2. choice \in S /\ g[choice] = f[choice] + weight /\ \A i \in S \ {choice} : g[i] = f[i]
      BY <1>1
    <3> HIDE DEF S, f, g
    <3>3. SumFunctionOnSet(g, S) = SumFunctionOnSet(f, S) - f[choice] + g[choice]
      BY <3>1, <3>2, SumChange
    <3>4. SumFunctionOnSet(f, S) \in Nat /\ f[choice] \in Nat
      BY <3>1, <3>2, SumNat
    <3>5. SumFunctionOnSet(g, S) = SumFunctionOnSet(f, S) + weight
      BY <1>1, <3>2, <3>3, <3>4
    <3> QED
      BY <1>1, <2>1, <3>1, <3>5 DEF f, g
  <2>4. ASSUME NEW o \in Ids
        PROVE  /\ proposals'[o].cast
                    = SumFunctionOnSet(proposals'[o].weightRoot, hasVoted'[o])
               /\ proposals'[o].cast = SumFunction(proposals'[o].votes)
               /\ proposals'[o].cast <= proposals'[o].total
    <3>1. CASE o = id
      BY <1>1, <1>2, <2>2, <2>3, <3>1 DEF q
    <3>2. CASE o # id
      BY <1>1, <1>8, <3>2 DEF GovernanceInv, TallyIsVoters
    <3> QED
      BY <3>1, <3>2
  <2> QED
    BY <2>4 DEF TallyIsVoters
<1>16. \A e \in optionsExecuted : e.action # "ACCUMULATE" =>
         /\ e.id <= proposalCount /\ now >= proposals[e.id].endsAt
         /\ proposals'[e.id] = proposals[e.id]
  <2> SUFFICES ASSUME NEW e \in optionsExecuted, e.action # "ACCUMULATE"
               PROVE  /\ e.id <= proposalCount /\ now >= proposals[e.id].endsAt
                      /\ proposals'[e.id] = proposals[e.id]
    OBVIOUS
  <2>1. e.id <= proposalCount /\ now >= proposals[e.id].endsAt /\ e.id \in Ids
    BY DEF GovernanceInv, DecisionsFinal, TypeOK
  <2>2. e.id # id
    BY <1>2, <1>6, <2>1, InvFacts DEF p
  <2> QED
    BY <1>1, <2>1, <2>2
<1>17. DecisionsFinal'
  BY <1>2, <1>16 DEF DecisionsFinal
<1>18. DecisionIsMajority'
  BY <1>2, <1>16, Zenon DEF GovernanceInv, DecisionIsMajority
<1>19. \A o \in Ids : /\ proposals'[o].executed = proposals[o].executed
                      /\ proposals'[o].passed = proposals[o].passed
                      /\ proposals'[o].options = proposals[o].options
  BY <1>1 DEF p, q
<1>20. StrayExecuted' = StrayExecuted
  <2>1. \A x \in proposalExecuted : x \in Ids
    BY DEF GovernanceInv, TypeOK
  <2> QED
    BY <1>2, <1>19, <2>1 DEF StrayExecuted
<1>21. \A o \in 1..proposalCount : o \in Ids
  BY InvFacts DEF Ids
<1>22. OneUndecided'
  BY <1>2, <1>19, <1>20, <1>21 DEF GovernanceInv, OneUndecided
<1>23. FrozenAmountsCovered'
  BY <1>2, <1>4, <1>19, <1>20, <1>21 DEF GovernanceInv, FrozenAmountsCovered
<1> QED
  BY <1>10, <1>11, <1>14, <1>15, <1>17, <1>18, <1>22, <1>23 DEF GovernanceInv

\* execute, by the keeper or by anyone, of any id.
LEMMA ExecuteStep ==
  ASSUME GovernanceInv, NEW id \in Ids, Execute(id)
  PROVE  GovernanceInv'
<1> DEFINE p == proposals[id]
           q == proposals'[id]
           option == Chosen(p, Winner(p.votes).winner)
           event == [id |-> id, action |-> option.action, amount |-> option.amount]
<1>1. /\ proposals' \in [Ids -> Proposal]
      /\ \A o \in Ids : o # id => proposals'[o] = proposals[o]
      /\ q.startsAt = p.startsAt /\ q.endsAt = p.endsAt /\ q.executableAt = p.executableAt
      /\ q.weightRoot = p.weightRoot /\ q.total = p.total /\ q.cast = p.cast
      /\ q.options = p.options /\ q.votes = p.votes
      /\ q.executed = TRUE /\ q.passed = ~Rejected(p)
  BY ExecuteEffect
<1>2. /\ ~p.executed /\ activeProposalId' = 0
      /\ UNCHANGED now /\ proposalCount' = proposalCount /\ hasVoted' = hasVoted
  BY DEF Execute
<1>3. p \in Proposal /\ option \in Option
  BY InvFacts, ChosenOption
<1>4. \/ /\ Rejected(p)
         /\ UNCHANGED reserveVars
         /\ UNCHANGED <<tokens, accounted, tokenLocks, gifts>> /\ held' = held
         /\ proposalExecuted' = proposalExecuted /\ optionsExecuted' = optionsExecuted
      \/ /\ ~Rejected(p) /\ ExecuteOption(id, option)
  BY DEF Execute, execVars, lockVars
<1>5. /\ proposalExecuted \subseteq Ids
      /\ optionsExecuted \subseteq [id : Ids, action : ActionType, amount : Nat]
      /\ proposalCount \in Nat /\ held \in Nat
  BY InvFacts DEF GovernanceInv, TypeOK, LotInv, LockTypeOK
<1>6. ReserveInv' /\ LotInv'
  <2>1. CASE Rejected(p)
    BY <1>2, <1>4, <1>5, <2>1, InvFacts, ReserveSame, LotsSame
  <2>2. CASE ~Rejected(p)
    BY <1>2, <1>3, <1>4, <2>2, InvFacts, ExecuteOptionKeeps
  <2> QED
    BY <2>1, <2>2
<1>7. \/ proposalExecuted' = proposalExecuted /\ Rejected(p)
      \/ proposalExecuted' = proposalExecuted \union {id} /\ id \notin proposalExecuted
  BY <1>4 DEF ExecuteOption
<1>8. \/ optionsExecuted' = optionsExecuted
      \/ optionsExecuted' = optionsExecuted \union {event} /\ ~Rejected(p)
  BY <1>4 DEF ExecuteOption
<1>9. event \in [id : Ids, action : ActionType, amount : Nat]
  BY <1>3, OptionFields
<1>10. /\ option.action # "ACCUMULATE" /\ ~Rejected(p) =>
            /\ id <= proposalCount /\ now >= p.endsAt
            /\ p.cast * BPS >= p.total * QuorumBps
            /\ \E i \in DOMAIN p.options :
                 /\ p.options[i].action = option.action
                 /\ p.options[i].amount = option.amount
                 /\ \A j \in DOMAIN p.options \ {i} : p.votes[j] < p.votes[i]
  BY ExecuteDecides
<1>11. event.id = id /\ event.action = option.action /\ event.amount = option.amount
  OBVIOUS
<1> HIDE DEF p, q, option, event
<1>12. \A o \in Ids :
         /\ proposals'[o].endsAt = proposals[o].endsAt
         /\ proposals'[o].executableAt = proposals[o].executableAt
         /\ proposals'[o].weightRoot = proposals[o].weightRoot
         /\ proposals'[o].total = proposals[o].total /\ proposals'[o].cast = proposals[o].cast
         /\ proposals'[o].options = proposals[o].options
         /\ proposals'[o].votes = proposals[o].votes
  BY <1>1 DEF p, q
<1>13. TypeOK'
  <2>1. /\ proposalExecuted' \subseteq Ids
        /\ optionsExecuted' \subseteq [id : Ids, action : ActionType, amount : Nat]
    BY <1>5, <1>7, <1>8, <1>9
  <2>2. activeProposalId' \in 0..proposalCount'
    BY <1>2, <1>5
  <2> QED
    BY <1>1, <1>2, <1>6, <2>1, <2>2 DEF GovernanceInv, TypeOK, ReserveInv, LotInv
<1>14. VaultsKeep'
  BY <1>6 DEF VaultsKeep, ReserveInv, LotInv
<1>15. ASSUME NEW o \in Ids PROVE ProposalFits(o)'
  BY <1>2, <1>12 DEF GovernanceInv, ProposalFits
<1>16. TallyIsVoters'
  BY <1>2, <1>12 DEF GovernanceInv, TallyIsVoters
<1>17. \A e \in optionsExecuted' : e.action # "ACCUMULATE" =>
         (e \in optionsExecuted /\ e.id \in Ids) \/ (e = event /\ ~Rejected(p))
  BY <1>5, <1>8
<1>18. DecisionsFinal'
  <2> SUFFICES ASSUME NEW e \in optionsExecuted', e.action # "ACCUMULATE"
               PROVE  e.id <= proposalCount /\ now >= proposals'[e.id].endsAt
    BY <1>2 DEF DecisionsFinal
  <2>1. CASE e \in optionsExecuted /\ e.id \in Ids
    BY <1>12, <2>1 DEF GovernanceInv, DecisionsFinal
  <2>2. CASE e = event /\ ~Rejected(p)
    BY <1>10, <1>11, <1>12, <2>2 DEF p
  <2> QED
    BY <1>17, <2>1, <2>2
<1>19. DecisionIsMajority'
  <2> DEFINE Majority(w, e) ==
               /\ w.cast * BPS >= w.total * QuorumBps
               /\ \E i \in DOMAIN w.options :
                    /\ w.options[i].action = e.action
                    /\ w.options[i].amount = e.amount
                    /\ \A j \in DOMAIN w.options \ {i} : w.votes[j] < w.votes[i]
  <2>1. ASSUME NEW e \in optionsExecuted', e.action # "ACCUMULATE"
        PROVE  Majority(proposals'[e.id], e)
    <3>1. CASE e \in optionsExecuted /\ e.id \in Ids
      <4>1. Majority(proposals[e.id], e)
        BY <2>1, <3>1, Zenon DEF GovernanceInv, DecisionIsMajority
      <4>2. /\ proposals'[e.id].total = proposals[e.id].total
            /\ proposals'[e.id].cast = proposals[e.id].cast
            /\ proposals'[e.id].options = proposals[e.id].options
            /\ proposals'[e.id].votes = proposals[e.id].votes
        BY <1>12, <3>1
      <4> QED
        BY <4>1, <4>2, Zenon
    <3>2. CASE e = event /\ ~Rejected(p)
      <4>1. Majority(p, e)
        BY <1>10, <1>11, <2>1, <3>2, Zenon
      <4>2. e.id = id
        BY <1>11, <3>2
      <4>3. /\ proposals'[e.id].total = p.total /\ proposals'[e.id].cast = p.cast
            /\ proposals'[e.id].options = p.options /\ proposals'[e.id].votes = p.votes
        BY <1>12, <4>2 DEF p
      <4> QED
        BY <4>1, <4>3, Zenon
    <3> QED
      BY <1>17, <2>1, <3>1, <3>2
  <2> QED
    BY <2>1, Zenon DEF DecisionIsMajority
<1>20. StrayExecuted => StrayExecuted'
  <2> SUFFICES ASSUME NEW x \in proposalExecuted, x > proposalCount \/ ~proposals[x].passed
               PROVE  StrayExecuted'
    BY DEF StrayExecuted
  <2>1. x \in Ids /\ x \in proposalExecuted'
    BY <1>5, <1>7
  <2>2. x > proposalCount' \/ ~proposals'[x].passed
    <3>1. CASE x = id
      BY <1>1, <1>7, <3>1 DEF q
    <3>2. CASE x # id
      BY <1>1, <1>2, <2>1, <3>2
    <3> QED
      BY <3>1, <3>2
  <2> QED
    BY <2>1, <2>2 DEF StrayExecuted
<1>21. ASSUME ~StrayExecuted', NEW o \in 1..proposalCount', ~proposals'[o].executed
       PROVE  FALSE
  <2>1. o \in 1..proposalCount /\ o \in Ids
    BY <1>2, InvFacts DEF Ids
  <2>2. ~StrayExecuted
    BY <1>20, <1>21
  <2>3. o # id
    BY <1>1, <1>21 DEF q
  <2>4. ~proposals[o].executed /\ o = activeProposalId
    BY <1>1, <1>21, <2>1, <2>2, <2>3 DEF GovernanceInv, OneUndecided
  <2>5. id > proposalCount
    BY <1>2, <2>1, <2>2, <2>3, <2>4, InvFacts DEF GovernanceInv, OneUndecided, Ids, p
  <2>6. ~Rejected(p)
    <3>1. p.options = <<>> /\ p.cast = 0 /\ p.total = 0 /\ Len(p.votes) = Len(p.options)
      BY <2>5 DEF GovernanceInv, ProposalFits, p
    <3>2. p.votes \in Seq(Nat)
      BY <1>3, ProposalFields
    <3>3. p.votes = <<>>
      BY <3>1, <3>2
    <3>4. ~Winner(p.votes).tied
      BY <3>2, <3>3, WinnerLeads
    <3>5. BPS \in Nat /\ QuorumBps \in Nat
      BY GovernanceAssumption
    <3>6. p.cast * BPS >= p.total * QuorumBps
      BY <3>1, <3>5
    <3> QED
      BY <3>4, <3>6 DEF Rejected, QuorumReached
  <2>7. id \in proposalExecuted'
    BY <1>7, <2>6
  <2> QED
    BY <1>2, <1>21, <2>5, <2>7 DEF StrayExecuted
<1>22. OneUndecided' /\ FrozenAmountsCovered'
  BY <1>21 DEF OneUndecided, FrozenAmountsCovered
<1> QED
  BY <1>13, <1>14, <1>15, <1>16, <1>18, <1>19, <1>22 DEF GovernanceInv

\* The invariant holds at deployment.
LEMMA InvInit == Init => GovernanceInv
<1> SUFFICES ASSUME Init PROVE GovernanceInv
  OBVIOUS
<1>1. /\ now = 1 /\ reserve = 0 /\ reserveLocks = <<>>
      /\ tokens = 0 /\ accounted = 0 /\ held = 0 /\ gifts = 0 /\ tokenLocks = <<>>
      /\ proposalCount = 0 /\ activeProposalId = 0
      /\ proposals = [id \in Ids |-> NoProposal] /\ hasVoted = [id \in Ids |-> {}]
      /\ proposalExecuted = {} /\ optionsExecuted = {}
  BY DEF Init, ReserveInit, LockInit
<1>2. \A f : SumFunctionOnSet(f, DOMAIN <<>>) = 0
  BY SumEmpty
<1>3. LockedStays
  BY <1>1, <1>2, LockedIsSum DEF LockedStays
<1>4. LocksBacked
  BY <1>1, <1>2, BackedIsSum
<1>5. NoProposal \in Proposal
  BY DEF NoProposal, Proposal
<1>6. TypeOK
  <2>1. now \in 1..MaxTime /\ ReserveTypeOK /\ LockTypeOK
    BY <1>1, TimeAssumption DEF ReserveTypeOK, LockTypeOK
  <2>2. proposals \in [Ids -> Proposal] /\ hasVoted \in [Ids -> SUBSET Holders]
    BY <1>1, <1>5
  <2>3. proposalCount \in 0..MaxProposals /\ activeProposalId \in 0..proposalCount
    BY <1>1, GovernanceAssumption
  <2> QED
    BY <1>1, <2>1, <2>2, <2>3 DEF TypeOK
<1>7. \A id \in Ids :
        /\ proposals[id].options = <<>> /\ proposals[id].votes = <<>>
        /\ proposals[id].cast = 0 /\ proposals[id].total = 0
        /\ proposals[id].endsAt = 0 /\ proposals[id].executableAt = 0
        /\ hasVoted[id] = {}
  BY <1>1 DEF NoProposal
<1>8. ASSUME NEW id \in Ids PROVE ProposalFits(id)
  <2>1. Len(proposals[id].votes) = Len(proposals[id].options)
    BY <1>7, Zenon
  <2>2. proposals[id].endsAt <= proposals[id].executableAt
    BY <1>7
  <2>3. IsFiniteSet(hasVoted[id]) /\ hasVoted[id] \subseteq DOMAIN proposals[id].weightRoot
    BY <1>7, FS_EmptySet
  <2> QED
    BY <1>7, <2>1, <2>2, <2>3 DEF ProposalFits
<1>9. TallyIsVoters
  <2>1. SumFunction(<<>>) = 0
    BY <1>2 DEF SumFunction
  <2> SUFFICES ASSUME NEW id \in Ids
               PROVE  /\ proposals[id].cast
                           = SumFunctionOnSet(proposals[id].weightRoot, hasVoted[id])
                      /\ proposals[id].cast = SumFunction(proposals[id].votes)
                      /\ proposals[id].cast <= proposals[id].total
    BY DEF TallyIsVoters
  <2>2. SumFunctionOnSet(proposals[id].weightRoot, hasVoted[id]) = 0
    BY <1>7, SumEmpty
  <2>3. SumFunction(proposals[id].votes) = 0
    BY <1>7, <2>1, Zenon
  <2> QED
    BY <1>7, <2>2, <2>3
<1>10. DecisionsFinal /\ DecisionIsMajority
  BY <1>1 DEF DecisionsFinal, DecisionIsMajority
<1>11. OneUndecided /\ FrozenAmountsCovered
  BY <1>1 DEF OneUndecided, FrozenAmountsCovered
<1> QED
  BY <1>3, <1>4, <1>6, <1>8, <1>9, <1>10, <1>11 DEF GovernanceInv, VaultsKeep

\* Every step keeps it.
LEMMA InvNext == GovernanceInv /\ [Next]_vars => GovernanceInv'
<1> SUFFICES ASSUME GovernanceInv, [Next]_vars PROVE GovernanceInv'
  OBVIOUS
<1>1. CASE Keeper
  <2>1. CASE ExecuteDueProposals
    <3>1. activeProposalId \in Ids
      BY <2>1, InvFacts DEF ExecuteDueProposals, GovernanceInv, TypeOK, Ids
    <3> QED
      BY <2>1, <3>1, ExecuteStep DEF ExecuteDueProposals
  <2>2. ASSUME NEW lockId \in Ids, ReleaseMatured(lockId) PROVE GovernanceInv'
    BY <2>2, ReleaseStep
  <2> QED
    BY <1>1, <2>1, <2>2 DEF Keeper
<1>2. CASE Anyone
  BY <1>2, ExecuteStep, VoteStep, GiftStep, DepositStep DEF Anyone
<1>3. CASE Proposer
  BY <1>3, CreateStep DEF Proposer
<1>4. CASE TimePasses
  BY <1>4, TimeStep
<1>5. CASE UNCHANGED vars
  BY <1>5, StutterStep
<1> QED
  BY <1>1, <1>2, <1>3, <1>4, <1>5 DEF Next

\* It holds in every reachable state.
LEMMA InvHolds == Spec => []GovernanceInv
BY InvInit, InvNext, PTL DEF Spec

\* Balances, counts and weights stay naturals: no checked subtraction of a call that
\* is let through underflows, and the active id always names a proposal.
THEOREM TypeCorrect == Spec => []TypeOK
<1>1. GovernanceInv => TypeOK
  BY DEF GovernanceInv
<1> QED
  BY <1>1, InvHolds, PTL

\* Neither vault ever holds less than the tranches votes locked in it, and
\* tokens sent by others are never mistaken for a tranche.
THEOREM VaultsKeepHolds == Spec => []VaultsKeep
<1>1. GovernanceInv => VaultsKeep
  BY DEF GovernanceInv
<1> QED
  BY <1>1, InvHolds, PTL

\* The tally of every proposal is the weight of those who voted, each once,
\* spread over the options, and stays within the published total.
THEOREM TallyIsVotersHolds == Spec => []TallyIsVoters
<1>1. GovernanceInv => TallyIsVoters
  BY DEF GovernanceInv
<1> QED
  BY <1>1, InvHolds, PTL

\* What touched the reserve had the quorum and more votes than every other
\* option of its proposal, and still has.
THEOREM DecisionIsMajorityHolds == Spec => []DecisionIsMajority
<1>1. GovernanceInv => DecisionIsMajority
  BY DEF GovernanceInv
<1> QED
  BY <1>1, InvHolds, PTL

\* The amounts of an undecided proposal stay available, whatever expires,
\* arrives or is released, unless an id was executed before it was proposed.
THEOREM FrozenAmountsCoveredHolds == Spec => []FrozenAmountsCovered
<1>1. GovernanceInv => FrozenAmountsCovered
  BY DEF GovernanceInv
<1> QED
  BY <1>1, InvHolds, PTL

=============================================================================
