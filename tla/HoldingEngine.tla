---------------------------- MODULE HoldingEngine ----------------------------
(***************************************************************************)
(* SolanaHoldingEngine, and its EVM twin HoldingWeightEngine: movements of *)
(* the token, in order, become lots per holder; a lot earns its amount for *)
(* every second of the window it is held, times a loyalty coefficient that *)
(* rises with each full hour of its age; a sale takes the youngest lots.   *)
(* A movement has an id, a time, who gave, who got and how much.           *)
(***************************************************************************)
EXTENDS SequencesExt, Integers

CONSTANTS
  Holder,
  Excluded,      \* holders that earn nothing
  NoOne,         \* the other side of a mint or a burn
  Hour,          \* HOUR_SECONDS
  Loyalty,       \* loyaltyBps after 0, 1, ... full hours, the last one for good
  BaseBps        \* 10_000

Least(a, b) == IF a < b THEN a ELSE b
Greatest(a, b) == IF a < b THEN b ELSE a

MaxLoyaltyHours == Len(Loyalty) - 1

\* What a lot earns from one second to another: hour by hour of its age, rounded
\* down in each.
Earned(lot, from, to) ==
  LET first(h) == Greatest(Greatest(from, lot.acquired), lot.acquired + h * Hour)
      last(h)  == IF h = MaxLoyaltyHours THEN to ELSE Least(to, lot.acquired + (h + 1) * Hour)
      seconds(h) == Greatest(0, last(h) - first(h))
  IN SumFunction([h \in 0..MaxLoyaltyHours |->
                    (lot.amount * seconds(h) * Loyalty[h + 1]) \div BaseBps])

Fresh(start, end) ==
  [start |-> start, end |-> end, seen |-> {}, overdrawn |-> FALSE,
   lots |-> [h \in Holder |-> <<>>],
   weights |-> [h \in Holder |-> 0],
   accruedTo |-> [h \in Holder |-> start]]

Accrue(engine, h, until) ==
  LET from == Greatest(engine.accruedTo[h], engine.start)
      to == Least(until, engine.end)
      earned == SumFunction([i \in DOMAIN engine.lots[h] |->
                               Earned(engine.lots[h][i], from, to)])
  IN [engine EXCEPT
        !.accruedTo[h] = to,
        !.weights[h] = @ + (IF to <= from \/ h \in Excluded THEN 0 ELSE earned)]

Total(lots) == SumFunction([i \in DOMAIN lots |-> lots[i].amount])

\* The lots that are left when only the first so many units are.
FirstUnits(lots, units) ==
  LET before(i) == Total(SubSeq(lots, 1, i - 1))
      kept == Cardinality({i \in DOMAIN lots : before(i) < units})
  IN [i \in 1..kept |-> [lots[i] EXCEPT !.amount = Least(@, Greatest(0, units - before(i)))]]

\* consume: the youngest lots first; more than there is throws.
\* Mutant: the oldest lots first.
ConsumeOldest(engine, h, amount) ==
  IF amount > Total(engine.lots[h]) THEN [engine EXCEPT !.overdrawn = TRUE]
  ELSE [engine EXCEPT !.lots[h] = Reverse(FirstUnits(Reverse(@), Total(@) - amount))]
Consume(engine, h, amount) ==
  IF amount > Total(engine.lots[h]) THEN [engine EXCEPT !.overdrawn = TRUE]
  ELSE [engine EXCEPT !.lots[h] = FirstUnits(@, Total(@) - amount)]

Give(engine, m) ==
  IF m.from = NoOne THEN engine ELSE Consume(Accrue(engine, m.from, m.time), m.from, m.amount)
Take(engine, m) ==
  IF m.to = NoOne THEN engine
  ELSE [Accrue(engine, m.to, m.time) EXCEPT
          !.lots[m.to] = Append(@, [amount |-> m.amount, acquired |-> m.time])]

Apply(engine, m) ==
  LET marked == [engine EXCEPT !.seen = @ \cup {m.id}] IN
  CASE m.time > engine.end \/ m.id \in engine.seen -> engine
    [] m.time <= engine.end /\ m.id \notin engine.seen ->
         IF m.from = m.to \/ m.amount = 0 THEN marked ELSE Take(Give(marked, m), m)

\* finalize, after all movements.
Replayed(movements, start, end) ==
  LET after[i \in 0..Len(movements)] ==
        IF i = 0 THEN Fresh(start, end) ELSE Apply(after[i - 1], movements[i])
  IN  after[Len(movements)]
Weights(engine) == [h \in Holder |-> Accrue(engine, h, engine.end).weights[h]]

-----------------------------------------------------------------------------
(***************************************************************************)
(* The reference: the units a holder has at a second, each with the second *)
(* it came, newest last; and their coefficients, added up by the second.   *)
(* Changes are in order, each with a time and a net amount per holder.     *)
(***************************************************************************)
UnitsAt(changes, h, second) ==
  FoldLeft(LAMBDA units, c :
             IF c.time > second THEN units
             ELSE IF c.net[h] >= 0 THEN units \o [i \in 1..c.net[h] |-> c.time]
             ELSE SubSeq(units, 1, Len(units) + c.net[h]),
           <<>>, changes)

BySecond(changes, h, start, end) ==
  IF h \in Excluded THEN 0
  ELSE MapThenSumSet(LAMBDA second :
         FoldSeq(LAMBDA came, sum : sum + Loyalty[Least((second - came) \div Hour, MaxLoyaltyHours) + 1],
                 0, UnitsAt(changes, h, second)),
       start..(end - 1))

=============================================================================
