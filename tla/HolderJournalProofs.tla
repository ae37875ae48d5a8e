------------------------- MODULE HolderJournalProofs -------------------------
(***************************************************************************)
(* No journal misses a transaction that is old enough, except what the     *)
(* provider dropped between the probe and a query of one refresh; and what *)
(* the cache holds it keeps.  For every number of seconds and              *)
(* transactions, every page size, retention and epoch, as long as the      *)
(* overlap of two windows is no shorter than the provider's disorder.      *)
(*                                                                         *)
(* The property speaks of the journal, which is a copy of the cache; the   *)
(* cache is made of what a refresh has found when no window is left to     *)
(* ask, so the invariant must say what the windows still to ask are good   *)
(* for (RefreshFits); and that can only hold if the provider, which may    *)
(* leave out what it has shown, leaves out nothing else (SourceFits).      *)
(***************************************************************************)
EXTENDS HolderJournalCache, SumTheorems

Transaction == [time: Nat, net: Nets \cup {LaunchNet}]

TypeOK ==
  /\ now \in Nat
  /\ chain \in Seq(Transaction)
  /\ newest \in Nat
  /\ shown \in SUBSET Nat
  /\ cache \in [through: Int, txs: SUBSET Nat]
  /\ journal \in [epochId: Nat, windowStart: Int, windowEnd: Int, txs: SUBSET Nat]
  /\ refresh \in [step: {"idle", "asking", "saved"}, through: Int,
                  windows: SUBSET (Int \X Int), found: SUBSET Nat, cut: SUBSET Nat]
  /\ plan \in [epochId: Nat, windowEnd: Int, finalized: BOOLEAN]
  /\ lost \in SUBSET Nat

\* The chain begins with the launch and is no further than the clock.
ChainFits ==
  /\ Launch \in Transactions /\ Time(Launch) = LaunchTime
  /\ \A t \in Transactions : Time(t) <= now
  /\ newest <= now /\ now <= MaxTime
  /\ shown \subseteq Transactions

\* What the provider says it has is shown, or was shown and is in the cache.
SourceFits ==
  \A t \in Transactions \ {Launch} :
    Time(t) + Disorder <= newest => t \in shown \cup cache.txs

\* Everything up to the provider's disorder is there, or was dropped.
Complete(txs, through, dropped) ==
  /\ Launch \in txs
  /\ txs \subseteq Transactions
  /\ \A t \in Transactions : Time(t) + Disorder <= through => t \in txs \cup dropped
  /\ \A t \in txs : Time(t) <= through
  /\ LaunchTime <= through /\ through <= now

\* What is old enough and not known yet is found, cut away, or in a window
\* that is still to ask.
Pending(r) ==
  \A t \in Transactions \ ({Launch} \cup cache.txs \cup lost) :
    Time(t) + Disorder <= r.through =>
      \/ t \in r.found \cup r.cut
      \/ \E w \in r.windows : w[1] <= Time(t) /\ Time(t) < w[2]

RefreshFits ==
  refresh.step = "asking" =>
    /\ LaunchTime <= refresh.through /\ cache.through <= refresh.through
    /\ refresh.through <= newest
    /\ refresh.found \subseteq Transactions
    /\ \A t \in refresh.found : Time(t) <= refresh.through
    /\ \A w \in refresh.windows : w[2] <= refresh.through + 1
    /\ Pending(refresh)

CacheFits ==
  /\ cache = NoCache \/ Complete(cache.txs, cache.through, lost)
  /\ refresh.step = "saved" => cache # NoCache

JournalFits == journal = NoJournal \/ Complete(journal.txs, journal.windowEnd, lost)

JournalInv == TypeOK /\ ChainFits /\ SourceFits /\ RefreshFits /\ CacheFits /\ JournalFits

-----------------------------------------------------------------------------
(***************************************************************************)
(* What is complete, or still to ask, stays so while the chain grows.      *)
(***************************************************************************)
\* The types of what a transaction says.
LEMMA TransactionTypes ==
  ASSUME chain \in Seq(Transaction)
  PROVE  /\ Transactions = 1..Len(chain) /\ Len(chain) \in Nat
         /\ \A t \in Transactions : Time(t) \in Nat
<1>1. \A t \in DOMAIN chain : chain[t] \in Transaction
  BY ElementsOf
<1> QED
  BY <1>1 DEF Transactions, Time, Transaction

\* A new transaction is not older than the clock, so nothing that was complete
\* misses it.
LEMMA GrowthKeepsComplete ==
  ASSUME TypeOK, ChainFits, NEW net \in Nets, Transact(net)
  PROVE  /\ chain' \in Seq(Transaction)
         /\ Transactions' = Transactions \cup {Len(chain) + 1}
         /\ Len(chain) + 1 \notin Transactions
         /\ chain'[Len(chain) + 1].time = now
         /\ \A t \in Transactions : Time(t)' = Time(t)
         /\ \A txs, dropped : \A through \in Int :
              Complete(txs, through, dropped) => Complete(txs, through, dropped)'
<1>1. /\ Transactions = 1..Len(chain) /\ Len(chain) \in Nat
      /\ \A t \in Transactions : Time(t) \in Nat
  BY TransactionTypes DEF TypeOK
<1>2. chain' = Append(chain, [time |-> now, net |-> net]) /\ now' = now /\ now \in Nat
  BY DEF Transact, TypeOK
<1>3. chain' \in Seq(Transaction) /\ Len(chain') = Len(chain) + 1
  <2>1. [time |-> now, net |-> net] \in Transaction
    BY <1>2 DEF Transaction
  <2> QED
    BY <1>2, <2>1 DEF TypeOK
<1>4. Transactions' = Transactions \cup {Len(chain) + 1} /\ Len(chain) + 1 \notin Transactions
  <2>1. Transactions' = 1..(Len(chain) + 1)
    BY <1>3 DEF Transactions
  <2> QED
    BY <1>1, <2>1
<1>5. /\ \A t \in 1..Len(chain) : chain'[t] = chain[t]
      /\ chain'[Len(chain) + 1] = [time |-> now, net |-> net]
  BY <1>1, <1>2 DEF TypeOK
<1>6. /\ \A t \in Transactions : Time(t)' = Time(t)
      /\ chain'[Len(chain) + 1].time = now
  BY <1>1, <1>5 DEF Time
<1>7. ASSUME NEW txs, NEW dropped, NEW through \in Int, Complete(txs, through, dropped)
      PROVE  Complete(txs, through, dropped)'
  <2>1. Launch \in txs /\ txs \subseteq Transactions' /\ LaunchTime <= through /\ through <= now'
    BY <1>2, <1>4, <1>7 DEF Complete
  <2>2. \A t \in txs : Time(t)' <= through
    BY <1>6, <1>7 DEF Complete
  <2>3. ASSUME NEW t \in Transactions', Time(t)' + Disorder <= through
        PROVE  t \in txs \cup dropped
    <3>1. CASE t \in Transactions
      BY <1>6, <1>7, <2>3, <3>1 DEF Complete
    <3>2. CASE t = Len(chain) + 1
      <4>1. now + Disorder <= through /\ through <= now
        BY <1>2, <1>6, <2>1, <2>3, <3>2 DEF Time
      <4> QED
        BY <1>2, <4>1, JournalAssumption
    <3> QED
      BY <1>4, <3>1, <3>2
  <2> QED
    BY <2>1, <2>2, <2>3 DEF Complete, Launch, LaunchTime
<1> QED
  BY <1>3, <1>4, <1>6, <1>7

\* Completeness is about the chain and the clock, and more may be dropped.
LEMMA SameChain ==
  ASSUME chain' = chain, now' = now
  PROVE  /\ \A txs, through, dropped :
              Complete(txs, through, dropped) => Complete(txs, through, dropped)'
         /\ \A t : Time(t)' = Time(t)
         /\ Transactions' = Transactions
  BY DEF Complete, Transactions, Time, Launch, LaunchTime

LEMMA MoreDropped ==
  ASSUME NEW txs, NEW through, NEW dropped, NEW more, Complete(txs, through, dropped)
  PROVE  Complete(txs, through, dropped \cup more)
  BY DEF Complete

-----------------------------------------------------------------------------
(***************************************************************************)
(* A refresh.                                                              *)
(***************************************************************************)
\* Facts every step of a refresh needs.
LEMMA RefreshFacts ==
  ASSUME JournalInv
  PROVE  /\ newest \in Nat /\ now \in Nat /\ cache.through \in Int /\ refresh.through \in Int
         /\ now <= MaxTime /\ newest <= now
         /\ {Overlap, Retention, MaxTime} \subseteq Nat
         /\ {Disorder, IndexLag} \subseteq Nat \ {0} /\ Disorder <= Overlap
         /\ \A t \in Transactions : Time(t) \in Nat /\ t \in Nat
         /\ shown \subseteq Transactions /\ Launch \in Transactions /\ Time(Launch) = 0
         /\ cache.txs \subseteq Transactions /\ \A t \in cache.txs : Time(t) <= cache.through
         /\ FromTime \in Nat
         /\ cache = NoCache => FromTime = 0
         /\ cache # NoCache => FromTime = 0 \/ FromTime = cache.through - Overlap
<1> USE DEF Launch, LaunchTime
<1>1. /\ newest \in Nat /\ now \in Nat /\ cache.through \in Int /\ refresh.through \in Int
      /\ now <= MaxTime /\ newest <= now
      /\ {Overlap, Retention, MaxTime} \subseteq Nat
      /\ {Disorder, IndexLag} \subseteq Nat \ {0} /\ Disorder <= Overlap
  BY JournalAssumption DEF JournalInv, TypeOK, ChainFits
<1>2. /\ \A t \in Transactions : Time(t) \in Nat /\ t \in Nat
      /\ shown \subseteq Transactions /\ Launch \in Transactions /\ Time(Launch) = 0
  BY TransactionTypes DEF JournalInv, TypeOK, ChainFits
<1>3. cache.txs \subseteq Transactions /\ \A t \in cache.txs : Time(t) <= cache.through
  BY DEF JournalInv, CacheFits, Complete, NoCache
<1>4. /\ FromTime \in Nat
      /\ cache = NoCache => FromTime = 0
      /\ cache # NoCache => FromTime = 0 \/ FromTime = cache.through - Overlap
  BY <1>1 DEF FromTime, Greatest
<1> QED
  BY <1>1, <1>2, <1>3, <1>4

\* The first window holds everything the cache may lack: it begins no later than
\* the overlap, which is no shorter than the disorder.
LEMMA ProbeKeeps ==
  ASSUME JournalInv, NEW through \in 0..MaxTime, Probe(through)
  PROVE  JournalInv'
<1> USE DEF Launch, LaunchTime
<1> DEFINE w == <<FromTime, through + 1>>
<1>1. /\ refresh'.step = "asking" /\ refresh'.through = through
      /\ refresh'.windows = {w} /\ refresh'.found = {} /\ refresh'.cut = {}
      /\ refresh' \in [step: {"idle", "asking", "saved"}, through: Int,
                       windows: SUBSET (Int \X Int), found: SUBSET Nat, cut: SUBSET Nat]
  <2>1. refresh' = [NoRefresh EXCEPT !.step = "asking", !.through = through, !.windows = {w}]
    BY DEF Probe
  <2>2. refresh' = [step |-> "asking", through |-> through, windows |-> {w},
                    found |-> {}, cut |-> {}]
    BY <2>1 DEF NoRefresh
  <2>3. w \in Int \X Int
    BY RefreshFacts
  <2> QED
    BY <2>2, <2>3
<1>2. /\ UNCHANGED <<now, chain, newest, shown, cache, journal, plan, lost>>
      /\ through >= cache.through /\ newest >= through
  <2>1. Covered(FromTime, through + 1)
    BY DEF Probe
  <2>2. newest >= through
    BY <2>1, RefreshFacts DEF Covered
  <2> QED
    BY <2>2 DEF Probe, chainVars, sourceVars
<1>3. /\ \A txs, end, dropped : Complete(txs, end, dropped) => Complete(txs, end, dropped)'
      /\ \A t : Time(t)' = Time(t)
      /\ Transactions' = Transactions
  BY <1>2, SameChain
<1>4. ASSUME NEW t \in Transactions \ ({Launch} \cup cache.txs \cup lost),
             Time(t) + Disorder <= through
      PROVE  FromTime <= Time(t) /\ Time(t) < through + 1
  <2>1. Time(t) \in Nat /\ Time(t) < through + 1
    BY <1>4, RefreshFacts
  <2>2. CASE FromTime = 0
    BY <2>1, <2>2
  <2>3. CASE FromTime # 0
    <3>1. FromTime = cache.through - Overlap /\ cache # NoCache
      BY <2>3, RefreshFacts
    <3>2. ~(Time(t) + Disorder <= cache.through)
      BY <3>1 DEF JournalInv, CacheFits, Complete
    <3> QED
      BY <2>1, <3>1, <3>2, RefreshFacts
  <2> QED
    BY <2>2, <2>3
<1>5. RefreshFits'
  <2>1. Pending(refresh)'
    BY <1>1, <1>2, <1>3, <1>4 DEF Pending
  <2>2. w[2] = through + 1
    OBVIOUS
  <2> HIDE DEF w
  <2> QED
    BY <1>1, <1>2, <2>1, <2>2 DEF RefreshFits
<1> HIDE DEF w
<1>6. TypeOK' /\ ChainFits' /\ SourceFits'
  BY <1>1, <1>2, <1>3 DEF JournalInv, TypeOK, ChainFits, SourceFits
<1>7. CacheFits' /\ JournalFits'
  BY <1>1, <1>2, <1>3 DEF JournalInv, CacheFits, JournalFits, NoCache, NoJournal
<1> QED
  BY <1>5, <1>6, <1>7 DEF JournalInv

\* A window that is answered leaves nothing old enough behind: the page has it,
\* or it was cut away, or a half has it.
LEMMA QueryKeeps ==
  ASSUME JournalInv, NEW w \in refresh.windows, Query(w)
  PROVE  JournalInv'
<1> USE DEF Launch, LaunchTime
<1> DEFINE page == Returned(w[1], w[2])
           middle == w[1] + (w[2] - w[1]) \div 2
           others == refresh.windows \ {w}
<1>1. /\ UNCHANGED <<now, chain, newest, shown, cache, journal, plan, lost>>
      /\ refresh.step = "asking"
  BY DEF Query, chainVars, sourceVars
<1>2. /\ \A txs, end, dropped : Complete(txs, end, dropped) => Complete(txs, end, dropped)'
      /\ \A t : Time(t)' = Time(t)
      /\ Transactions' = Transactions
  BY <1>1, SameChain
<1>3. /\ w \in Int \X Int /\ w[1] \in Int /\ w[2] \in Int
      /\ refresh.windows \in SUBSET (Int \X Int) /\ refresh.found \in SUBSET Nat
      /\ refresh.cut \in SUBSET Nat
      /\ w[2] <= refresh.through + 1 /\ refresh.through <= newest
  BY <1>1 DEF JournalInv, TypeOK, RefreshFits
<1>4. page \subseteq Transactions /\ page \in SUBSET Nat /\ CutAway(w[1], w[2]) \in SUBSET Nat
      /\ \A t \in page : Time(t) <= refresh.through
  BY <1>3, RefreshFacts DEF Returned, CutAway
<1>5. CASE refresh' = [refresh EXCEPT !.windows = others, !.found = @ \cup page,
                                      !.cut = @ \cup CutAway(w[1], w[2])]
  <2>1. refresh' = [step |-> "asking", through |-> refresh.through, windows |-> others,
                    found |-> refresh.found \cup page,
                    cut |-> refresh.cut \cup CutAway(w[1], w[2])]
    BY <1>1, <1>5 DEF JournalInv, TypeOK
  <2>2. ASSUME NEW t \in Transactions \ ({Launch} \cup cache.txs \cup lost),
               Time(t) + Disorder <= refresh.through,
               w[1] <= Time(t), Time(t) < w[2]
        PROVE  t \in page \cup CutAway(w[1], w[2])
    <3>1. t \in shown /\ Time(t) \in Nat
      BY <1>3, <2>2, RefreshFacts DEF JournalInv, SourceFits
    <3>2. CASE Time(t) >= newest - Retention
      <4>1. Time(t) >= Greatest(w[1], newest - Retention)
        BY <2>2, <3>2 DEF Greatest
      <4> QED
        BY <2>2, <3>1, <4>1 DEF Returned
    <3>3. CASE Time(t) < newest - Retention
      BY <2>2, <3>1, <3>3 DEF CutAway
    <3> QED
      BY <1>3, <3>1, <3>2, <3>3, RefreshFacts
  <2> HIDE DEF page, others
  <2>3. refresh' \in [step: {"idle", "asking", "saved"}, through: Int,
                      windows: SUBSET (Int \X Int), found: SUBSET Nat, cut: SUBSET Nat]
    <3>1. others \in SUBSET (Int \X Int)
      BY <1>3 DEF others
    <3> QED
      BY <1>3, <1>4, <2>1, <3>1, RefreshFacts
  <2>4. Pending(refresh)'
    <3> SUFFICES ASSUME NEW t \in Transactions \ ({Launch} \cup cache.txs \cup lost),
                        Time(t) + Disorder <= refresh.through
                 PROVE  \/ t \in refresh'.found \cup refresh'.cut
                        \/ \E v \in refresh'.windows : v[1] <= Time(t) /\ Time(t) < v[2]
      BY <1>1, <1>2, <2>1 DEF Pending
    <3>1. \/ t \in refresh.found \cup refresh.cut
          \/ \E v \in refresh.windows : v[1] <= Time(t) /\ Time(t) < v[2]
      BY <1>1 DEF JournalInv, RefreshFits, Pending
    <3>2. CASE t \in refresh.found \cup refresh.cut
      BY <2>1, <3>2
    <3>3. ASSUME NEW v \in refresh.windows, v[1] <= Time(t), Time(t) < v[2]
          PROVE  \/ t \in refresh'.found \cup refresh'.cut
                 \/ \E u \in refresh'.windows : u[1] <= Time(t) /\ Time(t) < u[2]
      BY <2>1, <2>2, <3>3 DEF others
    <3> QED
      BY <3>1, <3>2, <3>3
  <2>5. RefreshFits'
    BY <1>1, <1>2, <1>4, <2>1, <2>4 DEF JournalInv, RefreshFits, others
  <2> QED
    BY <1>1, <1>2, <2>1, <2>3, <2>5 DEF JournalInv, TypeOK, ChainFits, SourceFits, CacheFits,
       JournalFits, NoCache, NoJournal
<1>6. CASE /\ refresh' = [refresh EXCEPT
                            !.windows = others \cup {<<w[1], middle>>, <<middle, w[2]>>}]
           /\ w[2] - w[1] > 1
  <2>1. refresh' = [step |-> "asking", through |-> refresh.through,
                    windows |-> others \cup {<<w[1], middle>>, <<middle, w[2]>>},
                    found |-> refresh.found, cut |-> refresh.cut]
    BY <1>1, <1>6 DEF JournalInv, TypeOK
  <2>2. PICK m \in Int : m = middle /\ w[1] < m /\ m < w[2]
    BY <1>3, <1>6
  <2> HIDE DEF middle, page
  <2>3. refresh'.windows = others \cup {<<w[1], m>>, <<m, w[2]>>}
    BY <2>1, <2>2
  <2>4. /\ <<w[1], m>> \in Int \X Int /\ <<m, w[2]>> \in Int \X Int
        /\ <<w[1], m>>[2] = m /\ <<m, w[2]>>[2] = w[2]
        /\ <<w[1], m>>[1] = w[1] /\ <<m, w[2]>>[1] = m
    BY <1>3, <2>2
  <2>5. refresh' \in [step: {"idle", "asking", "saved"}, through: Int,
                      windows: SUBSET (Int \X Int), found: SUBSET Nat, cut: SUBSET Nat]
    BY <1>3, <2>1, <2>2, <2>4, RefreshFacts
  <2>6. Pending(refresh)'
    <3> SUFFICES ASSUME NEW t \in Transactions \ ({Launch} \cup cache.txs \cup lost),
                        Time(t) + Disorder <= refresh.through
                 PROVE  \/ t \in refresh'.found \cup refresh'.cut
                        \/ \E v \in refresh'.windows : v[1] <= Time(t) /\ Time(t) < v[2]
      BY <1>1, <1>2, <2>1 DEF Pending
    <3>1. \/ t \in refresh.found \cup refresh.cut
          \/ \E v \in refresh.windows : v[1] <= Time(t) /\ Time(t) < v[2]
      BY <1>1 DEF JournalInv, RefreshFits, Pending
    <3>2. CASE t \in refresh.found \cup refresh.cut
      BY <2>1, <3>2
    <3>3. ASSUME NEW v \in refresh.windows, v # w, v[1] <= Time(t), Time(t) < v[2]
          PROVE  \E u \in refresh'.windows : u[1] <= Time(t) /\ Time(t) < u[2]
      BY <2>3, <3>3
    <3>4. CASE w[1] <= Time(t) /\ Time(t) < w[2]
      <4>1. Time(t) \in Nat
        BY RefreshFacts
      <4>2. Time(t) < m \/ m <= Time(t)
        BY <2>2, <4>1
      <4> QED
        BY <2>3, <2>4, <3>4, <4>2
    <3> QED
      BY <3>1, <3>2, <3>3, <3>4
  <2>7. \A v \in refresh'.windows : v[2] <= refresh.through + 1
    <3>1. m <= refresh.through + 1
      BY <1>3, <2>2, RefreshFacts
    <3> QED
      BY <1>1, <1>3, <2>3, <2>4, <3>1 DEF JournalInv, RefreshFits
  <2>8. RefreshFits'
    BY <1>1, <1>2, <2>1, <2>6, <2>7 DEF JournalInv, RefreshFits
  <2> HIDE DEF others
  <2> QED
    BY <1>1, <1>2, <2>1, <2>5, <2>8 DEF JournalInv, TypeOK, ChainFits, SourceFits, CacheFits,
       JournalFits, NoCache, NoJournal
<1> QED
  BY <1>5, <1>6 DEF Query

\* What a refresh that is not refused leaves: everything the cache had, and
\* everything old enough that the provider still had when it was asked.
LEMMA SavedIsComplete ==
  ASSUME JournalInv, SaveCache
  PROVE  /\ cache' = [through |-> refresh.through, txs |-> cache'.txs]
         /\ cache.txs \subseteq cache'.txs /\ cache.through <= refresh.through
         /\ Complete(cache'.txs, refresh.through, lost \cup refresh.cut)
<1> USE DEF Launch, LaunchTime
<1> DEFINE kept == {t \in cache.txs : Time(t) < FromTime}
<1>1. /\ cache' = [through |-> refresh.through, txs |-> kept \cup Found]
      /\ NoneMissing(Found, refresh.through)
      /\ refresh.step = "asking" /\ refresh.windows = {}
  BY DEF SaveCache
<1>2. /\ 0 <= refresh.through /\ cache.through <= refresh.through
      /\ refresh.through <= newest
      /\ refresh.found \subseteq Transactions
      /\ \A t \in refresh.found : Time(t) <= refresh.through
      /\ Pending(refresh)
  BY <1>1 DEF JournalInv, RefreshFits
<1>3. /\ refresh.found \subseteq Found /\ Found \subseteq refresh.found \cup {Launch}
      /\ cache = NoCache => Launch \in Found
  BY DEF Found
<1>4. cache.txs \subseteq kept \cup Found
  <2> SUFFICES ASSUME NEW t \in cache.txs, ~(Time(t) < FromTime) PROVE t \in Found
    OBVIOUS
  <2>1. Time(t) >= FromTime /\ Time(t) <= refresh.through
    BY <1>2, RefreshFacts
  <2> QED
    BY <1>1, <2>1 DEF NoneMissing
<1>5. Launch \in kept \cup Found
  BY <1>3, <1>4 DEF JournalInv, CacheFits, Complete
<1>6. ASSUME NEW t \in Transactions, Time(t) + Disorder <= refresh.through
      PROVE  t \in (kept \cup Found) \cup (lost \cup refresh.cut)
  BY <1>1, <1>2, <1>3, <1>4, <1>5, <1>6 DEF Pending
<1>7. \A t \in kept \cup Found : t \in Transactions /\ Time(t) <= refresh.through
  BY <1>2, <1>3, RefreshFacts
<1>8. refresh.through <= now
  BY <1>2, RefreshFacts
<1>9. Complete(kept \cup Found, refresh.through, lost \cup refresh.cut)
  BY <1>2, <1>5, <1>6, <1>7, <1>8 DEF Complete
<1> QED
  BY <1>1, <1>2, <1>4, <1>9

\* The cache grows, and with it what is known to have been dropped.
LEMMA SaveKeeps ==
  ASSUME JournalInv, SaveCache
  PROVE  JournalInv'
<1>1. /\ cache' = [through |-> refresh.through, txs |-> cache'.txs]
      /\ cache.txs \subseteq cache'.txs
      /\ Complete(cache'.txs, refresh.through, lost \cup refresh.cut)
  BY SavedIsComplete
<1>2. /\ UNCHANGED <<now, chain, newest, shown, journal, plan>>
      /\ lost' = lost \cup refresh.cut
      /\ refresh' = [NoRefresh EXCEPT !.step = "saved"]
  BY DEF SaveCache, chainVars, sourceVars
<1>3. /\ \A txs, end, dropped : Complete(txs, end, dropped) => Complete(txs, end, dropped)'
      /\ \A t : Time(t)' = Time(t)
      /\ Transactions' = Transactions
  BY <1>2, SameChain
<1>4. cache'.txs \in SUBSET Nat /\ refresh.through \in Int
  BY <1>1, RefreshFacts DEF Complete
<1>5. /\ refresh'.step = "saved"
      /\ refresh' \in [step: {"idle", "asking", "saved"}, through: Int,
                       windows: SUBSET (Int \X Int), found: SUBSET Nat, cut: SUBSET Nat]
  <2>1. refresh' = [step |-> "saved", through |-> 0, windows |-> {}, found |-> {}, cut |-> {}]
    BY <1>2 DEF NoRefresh, LaunchTime
  <2> QED
    BY <2>1
<1>6. TypeOK'
  <2>1. lost' \in SUBSET Nat
    BY <1>2 DEF JournalInv, TypeOK
  <2>2. cache' \in [through: Int, txs: SUBSET Nat]
    BY <1>1, <1>4
  <2> QED
    BY <1>2, <1>5, <2>1, <2>2 DEF JournalInv, TypeOK
<1>7. ChainFits'
  BY <1>2, <1>3 DEF JournalInv, ChainFits, Launch, LaunchTime
<1>8. SourceFits'
  BY <1>1, <1>2, <1>3 DEF JournalInv, SourceFits, Launch
<1>9. cache'.through = refresh.through /\ Launch \in cache'.txs
  BY <1>1 DEF Complete
<1>10. CacheFits'
  <2>1. Complete(cache'.txs, cache'.through, lost')
    BY <1>1, <1>2, <1>9
  <2>2. Complete(cache.txs, cache.through, lost)'
    BY <1>2, <2>1 DEF Complete, Transactions, Time, Launch, LaunchTime
  <2> QED
    BY <1>9, <2>2 DEF CacheFits, NoCache
<1>11. JournalFits'
  <2>1. CASE journal = NoJournal
    BY <1>2, <2>1 DEF JournalFits, NoJournal
  <2>2. CASE journal # NoJournal
    <3>1. Complete(journal.txs, journal.windowEnd, lost \cup refresh.cut)
      BY <2>2, MoreDropped DEF JournalInv, JournalFits
    <3>2. Complete(journal.txs, journal.windowEnd, lost)'
      BY <1>2, <3>1 DEF Complete, Transactions, Time, Launch, LaunchTime
    <3> QED
      BY <3>2 DEF JournalFits
  <2> QED
    BY <2>1, <2>2
<1> QED
  BY <1>5, <1>6, <1>7, <1>8, <1>10, <1>11 DEF JournalInv, RefreshFits

-----------------------------------------------------------------------------
(***************************************************************************)
(* The invariant, step by step.                                            *)
(***************************************************************************)
LEMMA JournalInit == ASSUME Init PROVE JournalInv
<1> USE JournalAssumption DEF Init, Launch, LaunchTime
<1>1. [time |-> 0, net |-> LaunchNet] \in Transaction
  BY DEF Transaction
<1>2. chain \in Seq(Transaction) /\ Transactions = {1} /\ Time(1) = 0
  <2>1. chain = <<[time |-> 0, net |-> LaunchNet]>>
    OBVIOUS
  <2>2. chain \in Seq(Transaction) /\ Len(chain) = 1 /\ chain[1].time = 0
    BY <1>1, <2>1
  <2>3. DOMAIN chain = 1..1
    BY <2>1
  <2> QED
    BY <2>2, <2>3 DEF Transactions, Time
<1>3. TypeOK
  <2>1. NoCache \in [through: Int, txs: SUBSET Nat]
    BY DEF NoCache
  <2>2. NoJournal \in [epochId: Nat, windowStart: Int, windowEnd: Int, txs: SUBSET Nat]
    BY DEF NoJournal
  <2>3. NoPlan \in [epochId: Nat, windowEnd: Int, finalized: BOOLEAN]
    BY DEF NoPlan
  <2>4. NoRefresh \in [step: {"idle", "asking", "saved"}, through: Int,
                       windows: SUBSET (Int \X Int), found: SUBSET Nat, cut: SUBSET Nat]
    BY DEF NoRefresh
  <2> QED
    BY <1>2, <2>1, <2>2, <2>3, <2>4 DEF TypeOK
<1>4. ChainFits
  BY <1>2 DEF ChainFits
<1>5. SourceFits
  BY <1>2 DEF SourceFits
<1> QED
  BY <1>3, <1>4, <1>5 DEF JournalInv, RefreshFits, CacheFits, JournalFits, NoRefresh

\* A longer chain.
LEMMA TransactKeeps ==
  ASSUME JournalInv, NEW net \in Nets, Transact(net)
  PROVE  JournalInv'
<1> USE DEF Launch, LaunchTime
<1>1. /\ chain' \in Seq(Transaction)
      /\ Transactions' = Transactions \cup {Len(chain) + 1}
      /\ Len(chain) + 1 \notin Transactions
      /\ chain'[Len(chain) + 1].time = now
      /\ \A t \in Transactions : Time(t)' = Time(t)
      /\ \A txs, dropped : \A through \in Int :
           Complete(txs, through, dropped) => Complete(txs, through, dropped)'
  BY GrowthKeepsComplete DEF JournalInv
<1>2. UNCHANGED <<now, newest, shown, cache, journal, refresh, lost, plan>>
  BY DEF Transact, sourceVars, indexerVars
<1>3. now \in Nat /\ newest \in Nat /\ newest <= now /\ Disorder \in Nat \ {0}
  BY JournalAssumption DEF JournalInv, TypeOK, ChainFits
<1>4. TypeOK'
  BY <1>1, <1>2 DEF JournalInv, TypeOK
<1>5. \A t \in Transactions' : t \in Transactions \/ (t \notin Transactions /\ Time(t)' = now)
  BY <1>1 DEF Time
<1>6. ChainFits'
  BY <1>1, <1>2, <1>3, <1>5 DEF JournalInv, ChainFits
<1>7. SourceFits'
  <2> SUFFICES ASSUME NEW t \in Transactions' \ {Launch}, Time(t)' + Disorder <= newest
               PROVE  t \in shown \cup cache.txs
    BY <1>2 DEF SourceFits
  <2>1. t \in Transactions
    <3>1. ~(now + Disorder <= newest)
      BY <1>3
    <3> QED
      BY <1>5, <3>1
  <2> QED
    BY <1>1, <2>1 DEF JournalInv, SourceFits
<1>8. CacheFits' /\ JournalFits'
  <2>1. cache.through \in Int /\ journal.windowEnd \in Int
    BY DEF JournalInv, TypeOK
  <2> QED
    BY <1>1, <1>2, <2>1 DEF JournalInv, CacheFits, JournalFits, NoCache, NoJournal
<1>9. RefreshFits'
  <2> SUFFICES ASSUME refresh.step = "asking" PROVE RefreshFits'
    BY <1>2 DEF RefreshFits
  <2>1. /\ refresh.through <= newest /\ refresh.through \in Int
        /\ refresh.found \subseteq Transactions
        /\ \A t \in refresh.found : Time(t) <= refresh.through
        /\ Pending(refresh)
    BY DEF JournalInv, TypeOK, RefreshFits
  <2>2. Pending(refresh)'
    <3> SUFFICES ASSUME NEW t \in Transactions' \ ({Launch} \cup cache.txs \cup lost),
                        Time(t)' + Disorder <= refresh.through
                 PROVE  \/ t \in refresh.found \cup refresh.cut
                        \/ \E w \in refresh.windows : w[1] <= Time(t)' /\ Time(t)' < w[2]
      BY <1>2 DEF Pending
    <3>1. t \in Transactions
      <4>1. ~(now + Disorder <= refresh.through)
        BY <1>3, <2>1
      <4> QED
        BY <1>5, <4>1
    <3>2. Time(t)' = Time(t)
      BY <1>1, <3>1
    <3> QED
      BY <2>1, <3>1, <3>2 DEF Pending
  <2>3. \A t \in refresh.found : Time(t)' = Time(t) /\ t \in Transactions'
    BY <1>1, <2>1
  <2> QED
    BY <1>2, <2>1, <2>2, <2>3 DEF JournalInv, RefreshFits
<1> QED
  BY <1>4, <1>6, <1>7, <1>8, <1>9 DEF JournalInv

\* The clock, and the provider.
LEMMA SourceKeeps ==
  ASSUME JournalInv,
         \/ Clock \/ NewerBlocks
         \/ \E t \in Transactions : Show(t) \/ LeaveOut(t)
  PROVE  JournalInv'
<1> USE DEF Launch, LaunchTime
<1>1. /\ UNCHANGED <<chain, cache, journal, refresh, lost, plan>>
      /\ now' \in Nat /\ now <= now' /\ now' <= MaxTime
      /\ newest' \in Nat /\ newest <= newest' /\ newest' <= now'
      /\ shown' \subseteq Transactions
      /\ \A t \in Transactions \ {Launch} :
           Time(t) + Disorder <= newest' => t \in shown' \cup cache.txs
  <2> USE JournalAssumption DEF JournalInv, TypeOK, ChainFits, SourceFits, chainVars, sourceVars, indexerVars
  <2>1. CASE Clock
    BY <2>1 DEF Clock
  <2>2. CASE NewerBlocks
    BY <2>2 DEF NewerBlocks
  <2>3. ASSUME NEW t \in Transactions, Show(t)
        PROVE  <1>1!:
    BY <2>3 DEF Show
  <2>4. ASSUME NEW t \in Transactions, LeaveOut(t)
        PROVE  <1>1!:
    <3>1. /\ UNCHANGED <<chain, cache, journal, refresh, lost, plan, now, newest>>
          /\ t \in cache.txs /\ shown' = shown \ {t}
      BY <2>4 DEF LeaveOut, indexerVars
    <3>2. \A o \in Transactions \ {Launch} :
            Time(o) + Disorder <= newest' => o \in shown' \cup cache.txs
      BY <3>1
    <3>3. newest <= newest' /\ now <= now'
      BY <3>1
    <3> QED
      BY <3>1, <3>2, <3>3
  <2> QED
    BY <2>1, <2>2, <2>3, <2>4
<1>2. Transactions' = Transactions /\ (\A t : Time(t)' = Time(t)) /\ now \in Nat
  BY <1>1 DEF Transactions, Time, JournalInv, TypeOK
<1>3. \A txs, dropped : \A through \in Int :
        Complete(txs, through, dropped) => Complete(txs, through, dropped)'
  BY <1>1, <1>2 DEF Complete
<1>4. \A t \in Transactions : Time(t) \in Nat /\ t \in Nat
  BY TransactionTypes DEF JournalInv, TypeOK
<1>5. TypeOK'
  BY <1>1, <1>4 DEF JournalInv, TypeOK
<1>6. ChainFits'
  BY <1>1, <1>2, <1>4 DEF JournalInv, ChainFits
<1>7. SourceFits'
  BY <1>1, <1>2 DEF SourceFits
<1>8. CacheFits' /\ JournalFits'
  <2>1. cache.through \in Int /\ journal.windowEnd \in Int
    BY DEF JournalInv, TypeOK
  <2> QED
    BY <1>1, <1>3, <2>1 DEF JournalInv, CacheFits, JournalFits, NoCache, NoJournal
<1>9. RefreshFits'
  <2> SUFFICES ASSUME refresh.step = "asking" PROVE RefreshFits'
    BY <1>1 DEF RefreshFits
  <2>1. refresh.through <= newest /\ refresh.through \in Int /\ newest \in Nat
    BY DEF JournalInv, TypeOK, RefreshFits
  <2>2. refresh.through <= newest'
    BY <1>1, <2>1
  <2> QED
    BY <1>1, <1>2, <2>2 DEF JournalInv, RefreshFits, Pending
<1> QED
  BY <1>5, <1>6, <1>7, <1>8, <1>9 DEF JournalInv

\* The journal is a copy of the cache; the planner reads it only.
LEMMA FilesKeep ==
  ASSUME JournalInv, Publish \/ IndexerStops \/ Planner \/ UNCHANGED vars
  PROVE  JournalInv'
<1>1. UNCHANGED <<now, chain, newest, shown, cache, lost>>
  BY DEF Publish, IndexerStops, Planner, PlanEpoch, FinalizeEpoch, vars, chainVars, sourceVars,
         indexerVars
<1>2. /\ \A txs, end, dropped : Complete(txs, end, dropped) => Complete(txs, end, dropped)'
      /\ \A t : Time(t)' = Time(t)
      /\ Transactions' = Transactions
  BY <1>1, SameChain
<1>3. /\ refresh' = refresh \/ refresh' = NoRefresh
      /\ plan' \in [epochId: Nat, windowEnd: Int, finalized: BOOLEAN]
  <2> USE DEF JournalInv, TypeOK
  <2>1. CASE Publish \/ IndexerStops
    BY <2>1 DEF Publish, IndexerStops
  <2>2. CASE Planner
    <3>1. CASE PlanEpoch
      BY <3>1 DEF PlanEpoch, indexerVars
    <3>2. CASE FinalizeEpoch
      <4>1. plan' = [plan EXCEPT !.finalized = TRUE] /\ refresh' = refresh
        BY <3>2 DEF FinalizeEpoch, indexerVars
      <4> QED
        BY <4>1
    <3> QED
      BY <2>2, <3>1, <3>2 DEF Planner
  <2>3. CASE UNCHANGED vars
    BY <2>3 DEF vars, indexerVars
  <2> QED
    BY <2>1, <2>2, <2>3
<1>4. \/ journal' = journal
      \/ /\ cache # NoCache
         /\ journal' = [epochId |-> plan.epochId + 1, windowStart |-> plan.windowEnd,
                        windowEnd |-> cache.through, txs |-> cache.txs]
  BY DEF Publish, IndexerStops, Planner, PlanEpoch, FinalizeEpoch, vars, indexerVars, JournalInv,
         CacheFits
<1>5. TypeOK'
  <2>1. journal' \in [epochId: Nat, windowStart: Int, windowEnd: Int, txs: SUBSET Nat]
    BY <1>4 DEF JournalInv, TypeOK
  <2>2. NoRefresh \in [step: {"idle", "asking", "saved"}, through: Int,
                       windows: SUBSET (Int \X Int), found: SUBSET Nat, cut: SUBSET Nat]
    BY DEF NoRefresh, LaunchTime
  <2>3. /\ refresh' \in [step: {"idle", "asking", "saved"}, through: Int,
                         windows: SUBSET (Int \X Int), found: SUBSET Nat, cut: SUBSET Nat]
        /\ plan' \in [epochId: Nat, windowEnd: Int, finalized: BOOLEAN]
    BY <1>3, <2>2 DEF JournalInv, TypeOK
  <2> QED
    BY <1>1, <2>1, <2>3 DEF JournalInv, TypeOK
<1>6. ChainFits' /\ SourceFits'
  BY <1>1, <1>2 DEF JournalInv, ChainFits, SourceFits, Launch, LaunchTime
<1>7. CacheFits' /\ RefreshFits'
  <2>1. CASE refresh' = refresh
    BY <1>1, <1>2, <2>1 DEF JournalInv, CacheFits, RefreshFits, Pending, NoCache, Launch,
       LaunchTime
  <2>2. CASE refresh' = NoRefresh
    BY <1>1, <1>2, <2>2 DEF JournalInv, CacheFits, RefreshFits, NoRefresh, NoCache
  <2> QED
    BY <1>3, <2>1, <2>2
<1>8. JournalFits'
  <2>1. CASE journal' = journal
    BY <1>1, <1>2, <2>1 DEF JournalInv, JournalFits, NoJournal
  <2>2. CASE journal' # journal
    <3>1. journal'.txs = cache.txs /\ journal'.windowEnd = cache.through
      BY <1>4, <2>2
    <3>2. Complete(cache.txs, cache.through, lost)'
      BY <1>2, <1>4, <2>2, <1>1 DEF JournalInv, CacheFits
    <3> QED
      BY <1>1, <3>1, <3>2 DEF JournalFits
  <2> QED
    BY <2>1, <2>2
<1> QED
  BY <1>5, <1>6, <1>7, <1>8 DEF JournalInv

\* The cache and the journal are empty or complete but for what was dropped, the
\* windows still to ask hold what a refresh in progress has not found, and the
\* provider leaves out nothing the indexer does not already have.
THEOREM JournalInvariance == Spec => []JournalInv
<1>1. JournalInv /\ [Next]_vars => JournalInv'
  BY TransactKeeps, SourceKeeps, ProbeKeeps, QueryKeeps, SaveKeeps, FilesKeep
     DEF Next, World, Indexer
<1> QED
  BY <1>1, JournalInit, PTL DEF Spec

-----------------------------------------------------------------------------
\* No journal the indexer writes misses a transaction older than the provider's
\* disorder, nor has one after its window (refreshHolderJournal's overlap and
\* the halved queries of BitqueryTransferSource.discover), unless the provider
\* dropped its second between the probe and the query for its window.
THEOREM JournalCompleteHolds == Spec => []JournalComplete
<1>1. JournalInv => JournalComplete
  BY DEF JournalInv, JournalFits, JournalComplete, Complete
<1> QED
  BY <1>1, JournalInvariance, PTL

\* A transaction the indexer has verified stays in its cache, and the cache
\* never goes back in time (HOLDER_INDEX_PREVIOUS_TRANSFER_MISSING).
THEOREM NothingForgottenHolds == Spec => NothingForgotten
<1> DEFINE Kept == cache.txs \subseteq cache'.txs /\ cache.through <= cache'.through
<1>1. JournalInv /\ [Next]_vars => [Kept]_vars
  <2> SUFFICES ASSUME JournalInv, [Next]_vars PROVE Kept
    OBVIOUS
  <2>1. CASE cache' = cache
    BY <2>1 DEF JournalInv, TypeOK
  <2>2. CASE SaveCache
    <3>1. /\ cache' = [through |-> refresh.through, txs |-> cache'.txs]
          /\ cache.txs \subseteq cache'.txs /\ cache.through <= refresh.through
      BY <2>2, SavedIsComplete
    <3>2. cache'.through = refresh.through
      BY <3>1
    <3> QED
      BY <3>1, <3>2
  <2>3. cache' = cache \/ SaveCache
    BY DEF Next, World, Indexer, Planner, Transact, Clock, Show, LeaveOut, NewerBlocks, Probe,
           Query, Publish, IndexerStops, PlanEpoch, FinalizeEpoch, vars, indexerVars
  <2> QED
    BY <2>1, <2>2, <2>3
<1> QED
  BY <1>1, JournalInvariance, PTL DEF Spec, NothingForgotten

=============================================================================
