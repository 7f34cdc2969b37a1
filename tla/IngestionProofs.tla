--------------------------- MODULE IngestionProofs ----------------------------
(***************************************************************************)
(* Theorems about the import of historical data, for any files, and about  *)
(* the age of the panel behind a chain, for every TTL and any answers.  Of *)
(* MCIngestion nothing is used but the name of a property and the instance *)
(* of MarketData.                                                          *)
(***************************************************************************)
EXTENDS MCIngestion, WellFoundedInduction, SequenceTheorems, TLAPS

\* A contract of a chain built at a moment: made up, of rows then younger than TTL, or
\* let in by a failure since.
Accounted(c, at) ==
  \/ c.source = "simulated"
  \/ c.fetched \in Int /\ at - c.fetched < TTL
  \/ failedAt >= at

Clocks ==
  /\ time \in Nat
  /\ rowsAt \in Int /\ panelRows.at = rowsAt
  /\ failedAt \in Int
  /\ DOMAIN chain = Universe
  /\ chainAt \in [Universe -> Nat \cup {M!Never}]
  /\ \A s \in Universe : chainAt[s] =< time

\* OldOnlyAfterFailure is not inductive: it says nothing of a chain that is no longer
\* served, nor of the rows from which the next one is built.
AgeInv == Clocks /\ \A s \in Universe : \A c \in chain[s] : Accounted(c, chainAt[s])

-----------------------------------------------------------------------------
\* Whatever is live was fetched with the rows it is built from.
LEMMA LiveIsFetched ==
  ASSUME NEW some, NEW s, NEW spot, NEW c \in M!Live(some, s, spot)
  PROVE  c.fetched = some.at
<1>1. PICK r : c = M!ToContract(r, "panel", some.at)
  BY DEF M!Live, M!FromPanel
<1> QED BY <1>1 DEF M!ToContract

\* What is made up says so.
LEMMA SimulatedSaysSo ==
  ASSUME NEW s, NEW spot, NEW c \in M!Simulated(s, spot)
  PROVE  c.source = "simulated"
<1>1. PICK r : c = M!ToContract(r, "simulated", time)
  BY DEF M!Simulated
<1> QED BY <1>1 DEF M!ToContract

\* The rows a chain is built from are younger than TTL unless the request failed.
LEMMA RowsAreYoung ==
  ASSUME M!MarketAssumption, Clocks, NEW options, NEW again
  PROVE  LET used == M!RowsToBuild(options, again)
         IN \/ used.at \in Int /\ time - used.at < TTL
            \/ ~M!Recent(rowsAt) /\ options = Failed
BY DEF M!MarketAssumption, Clocks, M!RowsToBuild, M!RowsAfter, M!Recent, M!NoRows, M!Never

-----------------------------------------------------------------------------
LEMMA AgeInit == M!MarketInit => AgeInv
BY DEF M!MarketInit, AgeInv, Clocks, M!NoRows, M!Never

LEMMA AgeAfterBuild ==
  ASSUME M!MarketAssumption, AgeInv, NEW s \in Universe, NEW spot, NEW options, NEW again,
         M!BuildChain(s, spot, options, again)
  PROVE  AgeInv'
<1> DEFINE found == M!SpotAfter(s, spot)
           used == M!RowsToBuild(options, again)
           live == M!Live(used, s, found)
<1>1. Clocks'
  BY DEF AgeInv, Clocks, M!BuildChain, M!RowsAfter, M!RowsAt, M!Recent, M!Never
<1>2. time' = time /\ chain' = [chain EXCEPT ![s] = IF live # {} THEN live ELSE M!Simulated(s, found)]
      /\ chainAt' = [chainAt EXCEPT ![s] = time]
      /\ failedAt' = IF ~M!Recent(rowsAt) /\ options = Failed THEN time ELSE failedAt
  BY DEF M!BuildChain
<1>3. chainAt'[s] = time
  BY <1>2 DEF AgeInv, Clocks
<1>4. ASSUME NEW c \in chain'[s]
      PROVE  Accounted(c, chainAt[s])'
  <2>1. c \in live \/ c \in M!Simulated(s, found)
    BY <1>2 DEF AgeInv, Clocks
  <2>2. CASE c \in M!Simulated(s, found)
    BY <2>2, SimulatedSaysSo DEF Accounted
  <2>3. CASE c \in live
    <3>1. c.fetched = used.at
      BY <2>3, LiveIsFetched
    <3>2. \/ used.at \in Int /\ time - used.at < TTL
          \/ ~M!Recent(rowsAt) /\ options = Failed
      BY RowsAreYoung DEF AgeInv
    <3>3. CASE used.at \in Int /\ time - used.at < TTL
      BY <3>1, <3>3, <1>3 DEF Accounted
    <3>4. CASE ~M!Recent(rowsAt) /\ options = Failed
      BY <3>4, <1>2, <1>3 DEF Accounted, AgeInv, Clocks
    <3> QED BY <3>2, <3>3, <3>4
  <2> QED BY <2>1, <2>2, <2>3
<1>5. ASSUME NEW o \in Universe, o # s, NEW c \in chain'[o]
      PROVE  Accounted(c, chainAt[o])'
  <2>1. c \in chain[o] /\ chainAt'[o] = chainAt[o]
    BY <1>2, <1>5 DEF AgeInv, Clocks
  <2>2. Accounted(c, chainAt[o])
    BY <2>1 DEF AgeInv
  <2>3. failedAt' = failedAt \/ failedAt' >= chainAt[o]
    BY <1>2 DEF AgeInv, Clocks, M!Never
  <2> QED BY <2>1, <2>2, <2>3 DEF Accounted
<1> QED BY <1>1, <1>4, <1>5 DEF AgeInv

LEMMA AgeOther ==
  ASSUME M!MarketAssumption, AgeInv, [M!MarketNext]_M!marketVars,
         ~\E s \in Universe, spot \in Spots \cup {NoSpot, Failed},
             options, again \in Panels \cup {Failed} : M!BuildChain(s, spot, options, again)
  PROVE  AgeInv'
<1>1. CASE UNCHANGED M!marketVars
  BY <1>1 DEF AgeInv, Clocks, Accounted, M!marketVars
<1>2. CASE \E s \in Universe : M!KeepServing(s)
  BY <1>2 DEF AgeInv, Clocks, Accounted, M!marketVars, M!KeepServing
<1>3. CASE \E s \in Universe : M!GetSpot(s)
  BY <1>3 DEF AgeInv, Clocks, Accounted, M!GetSpot
<1>4. CASE \E s \in Universe, spot \in Spots : M!SetUnderlyingPrice(s, spot)
  BY <1>4 DEF AgeInv, Clocks, Accounted, M!SetUnderlyingPrice, M!Never
<1>5. CASE M!InvalidateChains
  BY <1>5 DEF AgeInv, Clocks, Accounted, M!InvalidateChains, M!NoRows, M!Never
<1>6. CASE M!TimePasses
  BY <1>6 DEF AgeInv, Clocks, Accounted, M!TimePasses, M!Never
<1> QED
  BY <1>1, <1>2, <1>3, <1>4, <1>5, <1>6 DEF M!MarketNext, M!GetOptionChain

\* A chain still served is less than TTL old, and so are the rows it was built from.
LEMMA AgeInvImplies == M!MarketAssumption /\ AgeInv => OldOnlyAfterFailure
BY DEF M!MarketAssumption, AgeInv, Clocks, Accounted, OldOnlyAfterFailure, M!OldOnlyAfterFailure, M!Recent, M!Never

-----------------------------------------------------------------------------
\* Whatever the exchange answers and whenever it fails, a chain that is served says
\* nothing of the panel that is twice as old as TTL, unless a request for the options
\* failed within the last TTL.
THEOREM AgeIsBounded ==
  ASSUME M!MarketAssumption PROVE M!MarketSpec => []OldOnlyAfterFailure
<1>1. AgeInv /\ [M!MarketNext]_M!marketVars => AgeInv'
  BY AgeAfterBuild, AgeOther
<1> QED BY <1>1, AgeInit, AgeInvImplies, PTL DEF M!MarketSpec

-----------------------------------------------------------------------------
\* The least of a set of numbers: the step at which something fails first.
LEMMA FirstOfNat ==
  ASSUME NEW T, T \subseteq Nat, T # {}
  PROVE  \E x \in T : \A y \in T : x =< y
<1>. DEFINE less == OpToRel(<, Nat)
<1>1. \A x, y \in T : y < x => <<y, x>> \in less
  BY DEF OpToRel
<1>2. IsWellFoundedOn(less, Nat)
  BY NatLessThanWellFounded, Zenon
<1>. HIDE DEF less
<1>3. PICK x \in T : \A y \in T : ~(<<y, x>> \in less)
  BY <1>2, WFMin
<1>4. \A y \in T : ~(y < x)
  BY <1>1, <1>3
<1>5. \A y \in T : x =< y
  BY <1>4
<1>. QED
  BY <1>5

IsSeq(s) == s \in Seq(ToSet(s))

LEMMA AppendFacts ==
  ASSUME NEW s, IsSeq(s), NEW x
  PROVE  /\ IsSeq(Append(s, x)) /\ Len(Append(s, x)) = Len(s) + 1
         /\ DOMAIN Append(s, x) = 1 .. Len(s) + 1 /\ DOMAIN s = 1 .. Len(s) /\ Len(s) \in Nat
         /\ \A i \in 1 .. Len(s) : Append(s, x)[i] = s[i]
         /\ Append(s, x)[Len(s) + 1] = x
         /\ ToSet(Append(s, x)) = ToSet(s) \cup {x}
<1>. DEFINE T == ToSet(s) \cup {x}
<1>1. s \in Seq(T)
  BY DEF IsSeq
<1>. HIDE DEF T
<1>2. x \in T
  BY DEF T
<1>3. /\ Append(s, x) \in Seq(T) /\ Len(Append(s, x)) = Len(s) + 1
      /\ DOMAIN Append(s, x) = 1 .. Len(s) + 1 /\ DOMAIN s = 1 .. Len(s) /\ Len(s) \in Nat
      /\ \A i \in 1 .. Len(s) : Append(s, x)[i] = s[i]
      /\ Append(s, x)[Len(s) + 1] = x
  BY <1>1, <1>2
<1>4. ToSet(Append(s, x)) = T
  <2>1. ASSUME NEW y \in ToSet(Append(s, x))
        PROVE  y \in T
    <3>1. PICK i \in 1 .. Len(s) + 1 : y = Append(s, x)[i]
      BY <1>3, <2>1 DEF ToSet
    <3>. QED
      BY <1>3, <3>1
  <2>2. ASSUME NEW y \in T
        PROVE  y \in ToSet(Append(s, x))
    <3>1. CASE y = x
      <4>1. Len(s) + 1 \in DOMAIN Append(s, x)
        BY <1>3
      <4>. QED
        BY <1>3, <3>1, <4>1 DEF ToSet
    <3>2. CASE y \in ToSet(s)
      <4>1. PICK i \in 1 .. Len(s) : y = s[i]
        BY <1>3, <3>2 DEF ToSet
      <4>2. i \in DOMAIN Append(s, x)
        BY <1>3
      <4>. QED
        BY <1>3, <4>1, <4>2 DEF ToSet
    <3>. QED
      BY <2>2, <3>1, <3>2 DEF T
  <2>. QED
    BY <2>1, <2>2
<1>. QED
  BY <1>3, <1>4 DEF IsSeq, T

LEMMA EmptyFacts == IsSeq(<<>>) /\ Len(<<>>) = 0 /\ DOMAIN <<>> = 1 .. 0
<1>1. <<>> \in Seq(ToSet(<<>>))
  OBVIOUS
<1> QED BY <1>1 DEF IsSeq

LEMMA ConcatFacts ==
  ASSUME NEW s, IsSeq(s), NEW t, IsSeq(t)
  PROVE  /\ IsSeq(s \o t) /\ Len(s) \in Nat /\ Len(t) \in Nat /\ Len(s \o t) = Len(s) + Len(t)
         /\ DOMAIN (s \o t) = 1 .. Len(s) + Len(t) /\ DOMAIN s = 1 .. Len(s) /\ DOMAIN t = 1 .. Len(t)
         /\ \A i \in 1 .. Len(s) : (s \o t)[i] = s[i]
         /\ \A i \in 1 .. Len(t) : (s \o t)[Len(s) + i] = t[i]
<1> DEFINE T == ToSet(s) \cup ToSet(t)
           u == s \o t
<1>1. s \in Seq(T) /\ t \in Seq(T)
  BY DEF IsSeq
<1> HIDE DEF T
<1>2. /\ u \in Seq(T) /\ Len(s) \in Nat /\ Len(t) \in Nat /\ Len(u) = Len(s) + Len(t)
      /\ DOMAIN u = 1 .. Len(s) + Len(t) /\ DOMAIN s = 1 .. Len(s) /\ DOMAIN t = 1 .. Len(t)
      /\ \A i \in 1 .. Len(s) : u[i] = s[i]
      /\ \A i \in 1 .. Len(t) : u[Len(s) + i] = t[i]
  BY <1>1, ConcatProperties
<1> HIDE DEF u
<1>3. u \in Seq(ToSet(u))
  <2>1. \A i \in 1 .. Len(u) : u[i] \in ToSet(u)
    BY <1>2 DEF ToSet
  <2>2. u = [i \in 1 .. Len(u) |-> u[i]]
    BY <1>2
  <2>3. u \in [1 .. Len(u) -> ToSet(u)] /\ Len(u) \in Nat
    BY <2>1, <2>2, <1>2
  <2> QED BY <2>3, SeqDef
<1> QED BY <1>2, <1>3 DEF IsSeq, u

-----------------------------------------------------------------------------
\* The readings of a file one record after the other exist, and the result is the last.
Readings(done, s, records) ==
  done = [n \in 0 .. Len(records) |->
            IF n = 0 THEN NothingDone(s) ELSE ProcessOne(done[n - 1], records[n])]

LEMMA ReadingsExist ==
  ASSUME NEW s, NEW records, Len(records) \in Nat
  PROVE  \E done : Readings(done, s, records) /\ Process(s, records) = done[Len(records)]
<1> DEFINE Step(f, k) == IF k = 0 THEN NothingDone(s) ELSE ProcessOne(f[k - 1], records[k])
           Runs(f, n) == f = [k \in 0 .. n |-> Step(f, k)]
           T == {n \in Nat : ~\E f : Runs(f, n)}
<1>1. T = {}
  <2> SUFFICES ASSUME T # {} PROVE FALSE
    OBVIOUS
  <2>1. PICK x \in T : \A y \in T : x =< y
    <3>1. T \subseteq Nat
      OBVIOUS
    <3> HIDE DEF T
    <3> QED BY <3>1, FirstOfNat
  <2>2. CASE x = 0
    <3> DEFINE g == [k \in 0 .. 0 |-> NothingDone(s)]
    <3>1. Runs(g, 0)
      OBVIOUS
    <3> QED BY <2>1, <2>2, <3>1
  <2>3. CASE x # 0
    <3>1. x \in Nat /\ x - 1 \in Nat /\ x - 1 \notin T
      <4>1. T \subseteq Nat
        OBVIOUS
      <4>. HIDE DEF T
      <4>. QED
        BY <2>1, <2>3, <4>1
    <3>2. PICK f : Runs(f, x - 1)
      BY <3>1
    <3> DEFINE g == [k \in 0 .. x |-> IF k = x THEN ProcessOne(f[x - 1], records[x]) ELSE f[k]]
    <3>3. \A k \in 0 .. x : g[k] = Step(g, k)
      <4>1. ASSUME NEW k \in 0 .. x PROVE g[k] = Step(g, k)
        <5>1. CASE k = x
          BY <3>1, <2>3, <5>1
        <5>2. CASE k # x
          <6>1. k \in 0 .. x - 1 /\ (k # 0 => k - 1 \in 0 .. x - 1)
            BY <3>1, <5>2
          <6>2. f[k] = Step(f, k)
            BY <3>2, <6>1
          <6>3. g[k] = f[k] /\ (k # 0 => g[k - 1] = f[k - 1])
            BY <6>1, <3>1, <5>2
          <6> QED BY <6>2, <6>3
        <5> QED BY <5>1, <5>2
      <4> QED BY <4>1
    <3>4. Runs(g, x)
      <4> DEFINE h == [k \in 0 .. x |-> Step(g, k)]
      <4>1. DOMAIN g = 0 .. x /\ g = [k \in 0 .. x |-> g[k]]
        OBVIOUS
      <4> HIDE DEF g
      <4> QED BY <4>1, <3>3
    <3> QED BY <3>4, <2>1
  <2> QED BY <2>2, <2>3
<1>2. PICK f : Runs(f, Len(records))
  BY <1>1
<1> DEFINE chosen == CHOOSE f2 : Readings(f2, s, records)
<1>3. Readings(f, s, records)
  BY <1>2 DEF Readings
<1>4. Readings(chosen, s, records)
  BY <1>3
<1>5. Process(s, records) = chosen[Len(records)]
  BY DEF Process, Readings
<1> QED BY <1>4, <1>5

-----------------------------------------------------------------------------
Marked == {"SUSPICIOUS", "REJECTED"}

\* The state of a pipeline after n records of a file, begun with the prints in s.
ReadWell(s, n, acc) ==
  /\ acc = [raised |-> acc.raised, seen |-> acc.seen, last |-> acc.last,
            classes |-> acc.classes, prints |-> acc.prints]
  /\ acc.raised \in BOOLEAN
  /\ s \subseteq acc.seen
  /\ IsSeq(acc.classes) /\ IsSeq(acc.prints) /\ Len(acc.classes) = Len(acc.prints)
  /\ ~acc.raised => Len(acc.classes) = n
  /\ \A j \in 1 .. Len(acc.prints) :
       /\ acc.prints[j] \in acc.seen
       /\ acc.prints[j] \in s => acc.classes[j] \in Marked
  /\ \A i, j \in 1 .. Len(acc.prints) :
       i < j /\ acc.prints[i] = acc.prints[j] => acc.classes[j] \in Marked

\* A record like one that was seen is not let in as valid.
LEMMA SeenIsMarked ==
  ASSUME NEW r, NEW s, NEW last, Fingerprint(r) \in s
  PROVE  Class(r, s, last) \in Marked
<1>1. Suspicious(r, s, last)
  BY DEF Suspicious
<1>2. CASE Rejected(r)
  BY <1>2 DEF Class, Marked
<1>3. CASE ~Rejected(r)
  BY <1>1, <1>3 DEF Class, Marked
<1> QED BY <1>2, <1>3

LEMMA NothingIsRead ==
  ASSUME NEW s
  PROVE  ReadWell(s, 0, NothingDone(s))
<1>1. NothingDone(s).prints = <<>> /\ NothingDone(s).classes = <<>>
      /\ NothingDone(s).raised = FALSE /\ NothingDone(s).seen = s
  BY DEF NothingDone
<1>2. \A j \in 1 .. 0 : FALSE
  OBVIOUS
<1>3. NothingDone(s) = [raised |-> NothingDone(s).raised, seen |-> NothingDone(s).seen,
                        last |-> NothingDone(s).last, classes |-> NothingDone(s).classes,
                        prints |-> NothingDone(s).prints]
  BY DEF NothingDone
<1> QED BY <1>1, <1>2, <1>3, EmptyFacts DEF ReadWell

LEMMA OneMoreIsRead ==
  ASSUME NEW s, NEW n \in Nat, NEW acc, ReadWell(s, n, acc), NEW r
  PROVE  ReadWell(s, n + 1, ProcessOne(acc, r))
<1>1. CASE acc.raised \/ Raises(r)
  <2>1. ProcessOne(acc, r) = [raised |-> TRUE, seen |-> acc.seen, last |-> acc.last,
                              classes |-> acc.classes, prints |-> acc.prints]
    BY <1>1 DEF ProcessOne, ReadWell
  <2> QED BY <2>1 DEF ReadWell
<1>2. CASE ~(acc.raised \/ Raises(r))
  <2> DEFINE print == Fingerprint(r)
             class == Class(r, acc.seen, acc.last)
             new == ProcessOne(acc, r)
             m == Len(acc.prints)
  <2>1. /\ new.raised = FALSE /\ new.seen = acc.seen \cup {print}
        /\ new.classes = Append(acc.classes, class) /\ new.prints = Append(acc.prints, print)
        /\ new = [raised |-> new.raised, seen |-> new.seen, last |-> new.last,
                  classes |-> new.classes, prints |-> new.prints]
    BY <1>2 DEF ProcessOne
  <2>2. print \in acc.seen => class \in Marked
    BY SeenIsMarked
  <2> HIDE DEF print, class, new
  <2>3. /\ IsSeq(new.classes) /\ IsSeq(new.prints) /\ m \in Nat
        /\ Len(new.classes) = m + 1 /\ Len(new.prints) = m + 1
        /\ \A j \in 1 .. m : new.classes[j] = acc.classes[j] /\ new.prints[j] = acc.prints[j]
        /\ new.classes[m + 1] = class /\ new.prints[m + 1] = print
    <3>1. IsSeq(acc.classes) /\ IsSeq(acc.prints) /\ Len(acc.classes) = m
      BY DEF ReadWell
    <3>2. /\ IsSeq(new.classes) /\ Len(new.classes) = m + 1 /\ new.classes[m + 1] = class
          /\ \A j \in 1 .. m : new.classes[j] = acc.classes[j]
      BY <2>1, <3>1, AppendFacts
    <3>3. /\ IsSeq(new.prints) /\ Len(new.prints) = m + 1 /\ new.prints[m + 1] = print /\ m \in Nat
          /\ \A j \in 1 .. m : new.prints[j] = acc.prints[j]
      BY <2>1, <3>1, AppendFacts
    <3> QED BY <3>2, <3>3
  <2>4. /\ s \subseteq acc.seen /\ m = n
        /\ \A j \in 1 .. m : acc.prints[j] \in acc.seen
        /\ \A j \in 1 .. m : acc.prints[j] \in s => acc.classes[j] \in Marked
        /\ \A i, j \in 1 .. m : i < j /\ acc.prints[i] = acc.prints[j] => acc.classes[j] \in Marked
    BY <1>2 DEF ReadWell
  <2> HIDE DEF m
  <2>5. ASSUME NEW j \in 1 .. m + 1
        PROVE  new.prints[j] \in new.seen /\ (new.prints[j] \in s => new.classes[j] \in Marked)
    <3>1. CASE j = m + 1
      BY <3>1, <2>1, <2>2, <2>3, <2>4
    <3>2. CASE j \in 1 .. m
      BY <3>2, <2>1, <2>3, <2>4
    <3> QED BY <3>1, <3>2, <2>3
  <2>6. ASSUME NEW i \in 1 .. m + 1, NEW j \in 1 .. m + 1, i < j, new.prints[i] = new.prints[j]
        PROVE  new.classes[j] \in Marked
    <3>0. i \in 1 .. m
      BY <2>3, <2>6
    <3>1. CASE j = m + 1
      BY <3>0, <3>1, <2>2, <2>3, <2>4, <2>6
    <3>2. CASE j \in 1 .. m
      BY <3>0, <3>2, <2>3, <2>4, <2>6
    <3> QED BY <3>1, <3>2, <2>3
  <2>7. s \subseteq new.seen
    BY <2>1, <2>4
  <2> QED BY <2>1, <2>3, <2>4, <2>5, <2>6, <2>7 DEF ReadWell, new
<1> QED BY <1>1, <1>2

LEMMA FilesAreReadWell ==
  ASSUME NEW s, NEW records, Len(records) \in Nat
  PROVE  ReadWell(s, Len(records), Process(s, records))
<1>1. PICK done : Readings(done, s, records) /\ Process(s, records) = done[Len(records)]
  BY ReadingsExist
<1> DEFINE N == Len(records)
           T == {n \in 0 .. N : ~ReadWell(s, n, done[n])}
<1>2. \A n \in 0 .. N : done[n] = IF n = 0 THEN NothingDone(s) ELSE ProcessOne(done[n - 1], records[n])
  BY <1>1 DEF Readings
<1>3. T = {}
  <2> SUFFICES ASSUME T # {} PROVE FALSE
    OBVIOUS
  <2>1. PICK x \in T : \A y \in T : x =< y
    <3>1. T \subseteq Nat
      OBVIOUS
    <3> HIDE DEF T
    <3> QED BY <3>1, FirstOfNat
  <2>2. x # 0
    BY <1>2, <2>1, NothingIsRead
  <2>3. x - 1 \in Nat /\ x - 1 \in 0 .. N /\ x - 1 \notin T /\ x - 1 + 1 = x
    BY <2>1, <2>2
  <2>4. ReadWell(s, x - 1, done[x - 1])
    BY <2>3
  <2>5. ReadWell(s, x, ProcessOne(done[x - 1], records[x]))
    BY <2>3, <2>4, OneMoreIsRead
  <2> QED BY <1>2, <2>1, <2>2, <2>5
<1>4. ReadWell(s, N, done[N])
  BY <1>3
<1> QED BY <1>1, <1>4

-----------------------------------------------------------------------------
Accepted(result, n) == {i \in 1 .. n : result.classes[i] # "REJECTED"}

\* The rows of the first n records: one for each that was accepted, in their order.
RowsWell(k, result, n, seq) ==
  /\ IsSeq(seq)
  /\ \E place \in [Accepted(result, n) -> 1 .. Len(seq)] :
       /\ \A i \in Accepted(result, n) : seq[place[i]] = RowOf(k, result, i)
       /\ \A i, m \in Accepted(result, n) : i < m => place[i] < place[m]
       /\ \A j \in 1 .. Len(seq) : \E i \in Accepted(result, n) : place[i] = j

Storings(stored, k, result) ==
  stored = [n \in 0 .. Len(result.classes) |->
              IF n = 0 THEN <<>>
              ELSE IF result.classes[n] = "REJECTED" THEN stored[n - 1]
              ELSE Append(stored[n - 1], RowOf(k, result, n))]

LEMMA StoringsExist ==
  ASSUME NEW k, NEW result, Len(result.classes) \in Nat
  PROVE  \E stored : /\ Storings(stored, k, result)
                     /\ Rows(k, result) = stored[Len(result.classes)]
<1> DEFINE Step(f, n) == IF n = 0 THEN <<>>
                         ELSE IF result.classes[n] = "REJECTED" THEN f[n - 1]
                         ELSE Append(f[n - 1], RowOf(k, result, n))
           Runs(f, n) == f = [i \in 0 .. n |-> Step(f, i)]
           T == {n \in Nat : ~\E f : Runs(f, n)}
<1>1. T = {}
  <2> SUFFICES ASSUME T # {} PROVE FALSE
    OBVIOUS
  <2>1. PICK x \in T : x \in Nat /\ \A y \in T : x =< y
    <3>1. T \subseteq Nat
      OBVIOUS
    <3> HIDE DEF T
    <3> QED BY <3>1, FirstOfNat
  <2>2. CASE x = 0
    <3> DEFINE g == [i \in 0 .. 0 |-> <<>>]
    <3>1. Runs(g, 0)
      OBVIOUS
    <3> QED BY <2>1, <2>2, <3>1
  <2>3. CASE x # 0
    <3>1. x \in Nat /\ x - 1 \in Nat /\ x - 1 \notin T
      <4> HIDE DEF T
      <4> QED BY <2>1, <2>3
    <3>2. PICK f : Runs(f, x - 1)
      BY <3>1
    <3> DEFINE g == [i \in 0 .. x |-> IF i = x THEN Step(f, x) ELSE f[i]]
    <3>3. \A i \in 0 .. x : g[i] = Step(g, i)
      <4>1. ASSUME NEW i \in 0 .. x PROVE g[i] = Step(g, i)
        <5>1. CASE i = x
          BY <3>1, <2>3, <5>1
        <5>2. CASE i # x
          <6>1. i \in 0 .. x - 1 /\ (i # 0 => i - 1 \in 0 .. x - 1)
            BY <3>1, <5>2
          <6>2. f[i] = Step(f, i)
            BY <3>2, <6>1
          <6>3. g[i] = f[i] /\ (i # 0 => g[i - 1] = f[i - 1])
            BY <6>1, <3>1, <5>2
          <6> QED BY <6>2, <6>3
        <5> QED BY <5>1, <5>2
      <4> QED BY <4>1
    <3>4. Runs(g, x)
      <4>1. DOMAIN g = 0 .. x /\ g = [i \in 0 .. x |-> g[i]]
        OBVIOUS
      <4> HIDE DEF g
      <4> QED BY <4>1, <3>3
    <3> QED BY <3>4, <2>1
  <2> QED BY <2>2, <2>3
<1>2. PICK f : Runs(f, Len(result.classes))
  BY <1>1
<1> DEFINE chosen == CHOOSE f2 : Storings(f2, k, result)
<1>3. Storings(f, k, result)
  BY <1>2 DEF Storings
<1>4. Storings(chosen, k, result)
  BY <1>3
<1>5. Rows(k, result) = chosen[Len(result.classes)]
  BY DEF Rows, Storings
<1> QED BY <1>4, <1>5

LEMMA NoRowsAreWell ==
  ASSUME NEW k, NEW result
  PROVE  RowsWell(k, result, 0, <<>>)
<1>1. Accepted(result, 0) = {}
  BY DEF Accepted
<1> DEFINE place == [i \in {} |-> 0]
<1>2. place \in [{} -> 1 .. 0]
  OBVIOUS
<1>3. \A j \in 1 .. 0 : FALSE
  OBVIOUS
<1> QED BY <1>1, <1>2, <1>3, EmptyFacts DEF RowsWell

LEMMA OneMoreIsStored ==
  ASSUME NEW k, NEW result, NEW n \in Nat, NEW seq, RowsWell(k, result, n, seq)
  PROVE  RowsWell(k, result, n + 1,
                  IF result.classes[n + 1] = "REJECTED" THEN seq
                  ELSE Append(seq, RowOf(k, result, n + 1)))
<1>1. CASE result.classes[n + 1] = "REJECTED"
  <2>1. Accepted(result, n + 1) = Accepted(result, n)
    BY <1>1 DEF Accepted
  <2> QED BY <1>1, <2>1 DEF RowsWell
<1>2. CASE result.classes[n + 1] # "REJECTED"
  <2> DEFINE row == RowOf(k, result, n + 1)
             new == Append(seq, row)
             A == Accepted(result, n)
             B == Accepted(result, n + 1)
             m == Len(seq)
  <2>1. B = A \cup {n + 1} /\ n + 1 \notin A /\ \A i \in A : i \in Nat /\ i < n + 1
    BY <1>2 DEF Accepted
  <2>2. PICK old \in [A -> 1 .. m] :
          /\ \A i \in A : seq[old[i]] = RowOf(k, result, i)
          /\ \A i, j \in A : i < j => old[i] < old[j]
          /\ \A j \in 1 .. m : \E i \in A : old[i] = j
    BY DEF RowsWell
  <2> DEFINE place == [i \in B |-> IF i = n + 1 THEN m + 1 ELSE old[i]]
  <2> HIDE DEF A, B, row
  <2>3. /\ IsSeq(new) /\ Len(new) = m + 1 /\ m \in Nat /\ new[m + 1] = row
        /\ \A j \in 1 .. m : new[j] = seq[j]
    BY AppendFacts DEF RowsWell
  <2> HIDE DEF new, m
  <2>4. \A i \in A : old[i] \in 1 .. m /\ place[i] = old[i]
    BY <2>1, <2>2
  <2>5. place[n + 1] = m + 1
    BY <2>1
  <2>6. place \in [B -> 1 .. m + 1]
    BY <2>1, <2>2, <2>3
  <2> HIDE DEF place
  <2>7. \A i \in B : new[place[i]] = RowOf(k, result, i)
    BY <2>1, <2>2, <2>3, <2>4, <2>5 DEF row
  <2>8. \A i, j \in B : i < j => place[i] < place[j]
    BY <2>1, <2>2, <2>3, <2>4, <2>5
  <2>9. \A j \in 1 .. m + 1 : \E i \in B : place[i] = j
    <3>1. \A j \in 1 .. m : \E i \in B : place[i] = j
      BY <2>1, <2>2, <2>4
    <3> QED BY <3>1, <2>1, <2>3, <2>5
  <2>10. RowsWell(k, result, n + 1, new)
    BY <2>3, <2>6, <2>7, <2>8, <2>9 DEF RowsWell, B
  <2> QED BY <1>2, <2>10 DEF new, row
<1> QED BY <1>1, <1>2

LEMMA RowsAreWell ==
  ASSUME NEW k, NEW result, Len(result.classes) \in Nat
  PROVE  RowsWell(k, result, Len(result.classes), Rows(k, result))
<1>1. PICK stored : Storings(stored, k, result) /\ Rows(k, result) = stored[Len(result.classes)]
  BY StoringsExist
<1> DEFINE N == Len(result.classes)
           T == {n \in 0 .. N : ~RowsWell(k, result, n, stored[n])}
<1>2. \A n \in 0 .. N :
        stored[n] = IF n = 0 THEN <<>>
                    ELSE IF result.classes[n] = "REJECTED" THEN stored[n - 1]
                    ELSE Append(stored[n - 1], RowOf(k, result, n))
  BY <1>1 DEF Storings
<1>3. T = {}
  <2> SUFFICES ASSUME T # {} PROVE FALSE
    OBVIOUS
  <2>1. PICK x \in T : \A y \in T : x =< y
    <3>1. T \subseteq Nat
      OBVIOUS
    <3> HIDE DEF T
    <3> QED BY <3>1, FirstOfNat
  <2>2. x # 0
    BY <1>2, <2>1, NoRowsAreWell
  <2>3. x - 1 \in Nat /\ x - 1 \in 0 .. N /\ x - 1 \notin T /\ x - 1 + 1 = x
    BY <2>1, <2>2
  <2>4. RowsWell(k, result, x - 1, stored[x - 1])
    BY <2>3
  <2>5. RowsWell(k, result, x, IF result.classes[x] = "REJECTED" THEN stored[x - 1]
                               ELSE Append(stored[x - 1], RowOf(k, result, x)))
    BY <2>3, <2>4, OneMoreIsStored
  <2> QED BY <1>2, <2>1, <2>2, <2>5
<1>4. RowsWell(k, result, N, stored[N])
  BY <1>3
<1> QED BY <1>1, <1>4

-----------------------------------------------------------------------------
\* What NothingIsLost says of one import, and the two parts of DuplicatesAreMarked.
Complete(k, log, stock) ==
  /\ Len(log[k].classes) = Len(log[k].file.records)
  /\ LET accepted == {i \in DOMAIN log[k].classes : log[k].classes[i] # "REJECTED"}
         stored == {j \in DOMAIN stock : stock[j].import = k}
     IN \E place \in Bijection(accepted, stored) :
          /\ \A i \in accepted : stock[place[i]].class = log[k].classes[i]
          /\ \A i, m \in accepted : i < m => place[i] < place[m]

\* Neither property is inductive: a row may be like one of an earlier import, of which
\* the pipeline only knows what it has seen, and an import could be given rows stored
\* before it.
StoreInv ==
  /\ kept \in BOOLEAN
  /\ IsSeq(imports) /\ IsSeq(rows)
  /\ \A j \in 1 .. Len(rows) :
       rows[j].import \in 1 .. Len(imports) /\ rows[j].class # "REJECTED"
  /\ kept => /\ \A j \in 1 .. Len(rows) : rows[j].print \in seen
             /\ \A k \in 1 .. Len(imports) : imports[k].file \in contents
  /\ NothingIsLost
  /\ DuplicatesAreMarked

LEMMA AsReadIsAsLong ==
  ASSUME NEW file \in Files
  PROVE  Len(AsRead(file)) = Len(file.records) /\ Len(file.records) \in Nat
<1>1. file.records \in Seq(ToSet(file.records))
  BY FilesAssumption
<1>2. Len(file.records) \in Nat /\ DOMAIN file.records = 1 .. Len(file.records)
  BY <1>1
<1> DEFINE N == Len(file.records)
           Field(i) == [k \in DOMAIN file.records[i] |->
                          IF file.records[i][k] = Absent THEN Empty ELSE file.records[i][k]]
<1>3. CASE file.csv
  <2> HIDE DEF N
  <2>1. AsRead(file) = [i \in 1 .. N |-> Field(i)]
    BY <1>2, <1>3 DEF AsRead, N
  <2> HIDE DEF Field
  <2>2. Len([i \in 1 .. N |-> Field(i)]) = N
    BY <1>2 DEF N
  <2> QED BY <1>2, <2>1, <2>2 DEF N
<1> QED BY <1>2, <1>3 DEF AsRead

\* What leaves the store alone keeps its invariant.
LEMMA LossRests ==
  ASSUME NothingIsLost, UNCHANGED <<imports, rows>>
  PROVE  NothingIsLost'
<1>1. \A k \in DOMAIN imports : Complete(k, imports, rows)
  BY DEF NothingIsLost, Complete
<1>2. \A k \in DOMAIN imports' : Complete(k, imports', rows')
  BY <1>1
<1> QED BY <1>2 DEF NothingIsLost, Complete

LEMMA StoreRests ==
  ASSUME StoreInv, UNCHANGED <<kept, contents, seen, imports, rows>>
  PROVE  StoreInv'
<1>1. NothingIsLost'
  BY LossRests DEF StoreInv
<1>2. DuplicatesAreMarked'
  BY DEF StoreInv, DuplicatesAreMarked
<1> QED BY <1>1, <1>2 DEF StoreInv

\* An upload that stores: what the file adds to the imports and the rows.
LEMMA ImportStores ==
  ASSUME StoreInv, NEW file \in Files, NEW allowed \in BOOLEAN, Import(file, allowed)
  PROVE  StoreInv'
<1> DEFINE records == AsRead(file)
           s == SeenRecords
           result == Process(s, records)
           K == Len(imports) + 1
           report == Report(file, allowed, records, result)
           new == Rows(K, result)
<1>1. ReadWell(s, Len(records), result) /\ Len(records) = Len(file.records) /\ Len(records) \in Nat
  BY FilesAreReadWell, AsReadIsAsLong
<1>2. /\ file \notin KnownContents \/ allowed
      /\ contents' = KnownContents \cup {file}
      /\ seen' = result.seen
      /\ kept' = kept
      /\ \/ imports' = imports /\ rows' = rows
         \/ ~result.raised /\ imports' = Append(imports, report) /\ rows' = rows \o new
  BY DEF Import
<1>3. kept => s = seen /\ KnownContents = contents
  BY DEF SeenRecords, KnownContents
<1>4. report.file = file /\ report.allowed = allowed /\ report.classes = result.classes
  BY DEF Report
<1>5. s \subseteq result.seen /\ Len(result.classes) \in Nat /\ IsSeq(result.classes)
      /\ Len(result.prints) = Len(result.classes)
      /\ (~result.raised => Len(result.classes) = Len(records))
      /\ DOMAIN result.classes = 1 .. Len(result.classes)
  <2>1. IsSeq(result.classes)
    BY <1>1 DEF ReadWell
  <2>2. Len(result.classes) \in Nat /\ DOMAIN result.classes = 1 .. Len(result.classes)
    <3> HIDE DEF result
    <3> QED BY <2>1 DEF IsSeq
  <2> QED BY <1>1, <2>1, <2>2 DEF ReadWell
<1>6. RowsWell(K, result, Len(result.classes), new)
  BY <1>5, RowsAreWell
<1>7. \A i : RowOf(K, result, i).import = K /\ RowOf(K, result, i).class = result.classes[i]
             /\ RowOf(K, result, i).print = result.prints[i]
  BY DEF RowOf
<1>r. \A j \in 1 .. Len(result.prints) :
        /\ result.prints[j] \in result.seen
        /\ result.prints[j] \in s => result.classes[j] \in Marked
  BY <1>1 DEF ReadWell
<1>s. \A i, j \in 1 .. Len(result.prints) :
        i < j /\ result.prints[i] = result.prints[j] => result.classes[j] \in Marked
  BY <1>1 DEF ReadWell
<1> HIDE DEF records, s, result, report, new
<1>8. CASE imports' = imports /\ rows' = rows
  <2>0. NothingIsLost
    BY DEF StoreInv
  <2>1. NothingIsLost'
    BY <1>8, <2>0, LossRests
  <2>2. DuplicatesAreMarked'
    BY <1>2, <1>8 DEF DuplicatesAreMarked, StoreInv
  <2> QED BY <1>2, <1>3, <1>5, <1>8, <2>1, <2>2 DEF StoreInv
<1>9. CASE ~result.raised /\ imports' = Append(imports, report) /\ rows' = rows \o new
  <2> DEFINE A == Accepted(result, Len(result.classes))
             m == Len(rows)
             n == Len(new)
  <2>1. PICK place \in [A -> 1 .. n] :
          /\ \A i \in A : new[place[i]] = RowOf(K, result, i)
          /\ \A i, j \in A : i < j => place[i] < place[j]
          /\ \A j \in 1 .. n : \E i \in A : place[i] = j
    BY <1>6 DEF RowsWell
  <2>2. /\ IsSeq(imports') /\ Len(imports') = K /\ Len(imports) \in Nat
        /\ DOMAIN imports' = 1 .. K /\ DOMAIN imports = 1 .. Len(imports)
        /\ \A k \in 1 .. Len(imports) : imports'[k] = imports[k]
        /\ imports'[K] = report
    BY <1>9, AppendFacts DEF StoreInv
  <2>3. /\ IsSeq(rows') /\ m \in Nat /\ n \in Nat /\ Len(rows') = m + n
        /\ DOMAIN rows' = 1 .. m + n /\ DOMAIN rows = 1 .. m
        /\ \A j \in 1 .. m : rows'[j] = rows[j]
        /\ \A j \in 1 .. n : rows'[m + j] = new[j]
    BY <1>6, <1>9, ConcatFacts DEF StoreInv, RowsWell
  <2>4. \A i \in A : /\ i \in 1 .. Len(result.classes) /\ i \in Nat
                    /\ result.classes[i] # "REJECTED" /\ place[i] \in 1 .. n
    BY <1>5, <2>1 DEF Accepted
  <2> HIDE DEF A, m, n
  <2>5. ASSUME NEW j \in 1 .. m + n, j \notin 1 .. m
        PROVE  j - m \in 1 .. n /\ m + (j - m) = j
    BY <2>3, <2>5
  <2>6. ASSUME NEW j \in 1 .. m + n, j \notin 1 .. m
        PROVE  \E i \in A : place[i] = j - m /\ rows'[j] = RowOf(K, result, i)
    BY <2>1, <2>3, <2>5, <2>6
  <2>7. \A j \in 1 .. m : rows[j].import \in 1 .. Len(imports) /\ rows[j].class # "REJECTED"
    BY DEF StoreInv, m
  <2>8. ASSUME NEW j \in 1 .. m + n
        PROVE  rows'[j].import \in 1 .. K /\ rows'[j].class # "REJECTED"
    <3>1. CASE j \in 1 .. m
      BY <3>1, <2>2, <2>3, <2>7
    <3>2. CASE j \notin 1 .. m
      BY <3>2, <1>7, <2>2, <2>4, <2>6
    <3> QED BY <3>1, <3>2
  <2>9. ASSUME kept, NEW j \in 1 .. m + n
        PROVE  rows'[j].print \in seen'
    <3>1. CASE j \in 1 .. m
      BY <2>9, <3>1, <1>2, <1>3, <1>5, <2>3 DEF StoreInv, m
    <3>2. CASE j \notin 1 .. m
      BY <3>2, <1>2, <1>5, <1>7, <1>r, <2>4, <2>6
    <3> QED BY <3>1, <3>2
  <2>10. ASSUME kept, NEW k \in 1 .. K
         PROVE  imports'[k].file \in contents'
    <3>1. CASE k = K
      BY <3>1, <1>2, <1>4, <2>2
    <3>2. CASE k \in 1 .. Len(imports)
      BY <2>10, <3>2, <1>2, <1>3, <2>2 DEF StoreInv
    <3> QED BY <3>1, <3>2, <2>2
  <2>11. ASSUME NEW k \in 1 .. Len(imports)
         PROVE  Complete(k, imports', rows')
    <3>1. Complete(k, imports, rows)
      BY <2>2 DEF StoreInv, NothingIsLost, Complete
    <3>2. imports'[k] = imports[k] /\ k # K
      BY <2>2
    <3> DEFINE before == {j \in DOMAIN rows : rows[j].import = k}
               after == {j \in DOMAIN rows' : rows'[j].import = k}
    <3>3. after = before
      <4>1. ASSUME NEW j \in 1 .. m + n, j \notin 1 .. m
            PROVE  rows'[j].import = K
        BY <4>1, <1>7, <2>6
      <4> QED BY <4>1, <2>3, <3>2
    <3>4. \A j \in before : rows'[j] = rows[j]
      BY <2>3
    <3> HIDE DEF before, after
    <3> DEFINE accepted == {i \in DOMAIN imports[k].classes : imports[k].classes[i] # "REJECTED"}
    <3>5. PICK at \in Bijection(accepted, before) :
            /\ \A i \in accepted : rows[at[i]].class = imports[k].classes[i]
            /\ \A i, l \in accepted : i < l => at[i] < at[l]
      BY <3>1 DEF Complete, before
    <3>6. at \in [accepted -> before]
      BY <3>5 DEF Bijection, Injection
    <3> HIDE DEF accepted
    <3>7. \A i \in accepted : rows'[at[i]].class = imports[k].classes[i]
      BY <3>4, <3>5, <3>6
    <3>8. at \in Bijection(accepted, after)
      BY <3>3, <3>5
    <3>9. Len(imports[k].classes) = Len(imports[k].file.records)
      BY <3>1 DEF Complete
    <3> QED BY <3>2, <3>5, <3>7, <3>8, <3>9 DEF Complete, accepted, after
  <2>12. Complete(K, imports', rows')
    <3> DEFINE at == [i \in A |-> m + place[i]]
               after == {j \in DOMAIN rows' : rows'[j].import = K}
    <3>1. \A i \in A : at[i] \in 1 .. m + n /\ at[i] \notin 1 .. m /\ rows'[at[i]] = RowOf(K, result, i)
      BY <2>1, <2>3, <2>4
    <3>2. ASSUME NEW j \in after
          PROVE  \E i \in A : at[i] = j
      <4>1. j \in 1 .. m + n /\ rows'[j].import = K
        BY <2>3, <3>2
      <4>2. j \notin 1 .. m
        BY <2>2, <2>3, <2>7, <4>1
      <4>3. PICK i \in A : place[i] = j - m
        BY <2>6, <4>1, <4>2
      <4> QED BY <2>5, <4>1, <4>2, <4>3
    <3>3. \A i \in A : at[i] \in after
      BY <1>7, <2>3, <3>1
    <3>4. \A i, l \in A : i < l => at[i] < at[l]
      BY <2>1, <2>3, <2>4
    <3>5. \A i \in A : rows'[at[i]].class = result.classes[i]
      BY <1>7, <3>1
    <3>6. at \in [A -> after]
      BY <3>3
    <3>7. ASSUME NEW i \in A, NEW l \in A, at[i] = at[l]
          PROVE  i = l
      <4>1. i \in Int /\ l \in Int /\ at[i] \in Int
        BY <2>3, <2>4, <3>1
      <4>2. ~(i < l) /\ ~(l < i)
        <5>. HIDE DEF at
        <5>. QED
          BY <3>4, <3>7, <4>1
      <4>. QED
        BY <4>1, <4>2
    <3> HIDE DEF at, after
    <3>8. at \in Bijection(A, after)
      BY <3>2, <3>6, <3>7 DEF Bijection, Injection, Surjection, IsInjective
    <3>9. /\ imports'[K].classes = result.classes /\ imports'[K].file = file
          /\ A = {i \in DOMAIN imports'[K].classes : imports'[K].classes[i] # "REJECTED"}
      BY <1>4, <1>5, <2>2 DEF A, Accepted
    <3>10. Len(result.classes) = Len(file.records)
      BY <1>1, <1>5, <1>9 DEF records
    <3> QED BY <3>4, <3>5, <3>8, <3>9, <3>10 DEF Complete, after
  <2>13. NothingIsLost'
    <3>1. \A k \in 1 .. K : Complete(k, imports', rows')
      BY <2>2, <2>11, <2>12
    <3> QED BY <2>2, <3>1 DEF NothingIsLost, Complete
  <2>14. ASSUME NEW i \in 1 .. m + n, NEW j \in 1 .. m + n, i < j, rows'[i].print = rows'[j].print,
                kept \/ rows'[i].import = rows'[j].import
         PROVE  rows'[j].class = "SUSPICIOUS"
    <3>1. CASE j \in 1 .. m
      <4>1. i \in 1 .. m
        BY <2>3, <2>14, <3>1
      <4> QED BY <2>3, <2>14, <3>1, <4>1 DEF StoreInv, DuplicatesAreMarked
    <3>2. CASE j \notin 1 .. m
      <4>1. PICK b \in A : place[b] = j - m /\ rows'[j] = RowOf(K, result, b)
        BY <2>6, <3>2
      <4>2. rows'[j].print = result.prints[b] /\ rows'[j].class = result.classes[b] /\ rows'[j].import = K
            /\ b \in 1 .. Len(result.prints) /\ result.classes[b] # "REJECTED"
        BY <1>5, <1>7, <2>4, <4>1
      <4>3. CASE i \in 1 .. m
        <5>1. rows'[i].import # K
          BY <2>2, <2>3, <2>7, <4>3
        <5>2. kept /\ rows'[i].print \in s
          BY <1>3, <2>3, <2>14, <4>2, <4>3, <5>1 DEF StoreInv, m
        <5> QED BY <1>r, <2>14, <4>2, <5>2 DEF Marked
      <4>4. CASE i \notin 1 .. m
        <5>1. PICK a \in A : place[a] = i - m /\ rows'[i] = RowOf(K, result, a)
          BY <2>6, <4>4
        <5>2. rows'[i].print = result.prints[a] /\ a \in 1 .. Len(result.prints)
          BY <1>5, <1>7, <2>4, <5>1
        <5>3. place[a] < place[b]
          BY <2>3, <2>14, <4>1, <5>1
        <5>4. a < b
          BY <2>1, <2>4, <5>3
        <5> QED BY <1>s, <2>14, <4>2, <5>2, <5>4 DEF Marked
      <4> QED BY <4>3, <4>4
    <3> QED BY <3>1, <3>2
  <2>15. ASSUME kept, NEW k \in 1 .. K, NEW l \in 1 .. K, k < l, imports'[k].file = imports'[l].file
         PROVE  imports'[l].allowed
    <3>1. CASE l = K
      <4>1. k \in 1 .. Len(imports) /\ imports'[k].file = file
        BY <1>4, <2>2, <2>15, <3>1
      <4>2. file \in KnownContents
        BY <1>3, <2>2, <2>15, <4>1 DEF StoreInv
      <4> QED BY <1>2, <1>4, <2>2, <3>1, <4>2
    <3>2. CASE l # K
      <4>1. k \in 1 .. Len(imports) /\ l \in 1 .. Len(imports)
        BY <2>2, <2>15, <3>2
      <4> QED BY <2>2, <2>15, <4>1 DEF StoreInv, DuplicatesAreMarked
    <3> QED BY <3>1, <3>2
  <2>16. DuplicatesAreMarked'
    BY <1>2, <2>2, <2>3, <2>14, <2>15 DEF DuplicatesAreMarked
  <2> QED BY <1>2, <2>2, <2>3, <2>8, <2>9, <2>10, <2>13, <2>16 DEF StoreInv
<1> QED BY <1>2, <1>8, <1>9

LEMMA StoreInvInductive ==
  /\ Init => StoreInv
  /\ StoreInv /\ [Next]_vars => StoreInv'
<1>1. Init => StoreInv
  <2> SUFFICES ASSUME Init PROVE StoreInv
    OBVIOUS
  <2>1. imports = <<>> /\ rows = <<>> /\ kept \in BOOLEAN
    BY DEF Init
  <2>2. \A x \in 1 .. 0 : FALSE
    OBVIOUS
  <2> QED BY <2>1, <2>2, EmptyFacts DEF StoreInv, NothingIsLost, DuplicatesAreMarked
<1>2. ASSUME StoreInv, [Next]_vars
      PROVE  StoreInv'
  <2>1. CASE UNCHANGED vars
    BY <1>2, <2>1, StoreRests DEF vars
  <2>2. CASE Next
    <3>1. PICK file \in Files, allowed \in BOOLEAN : Refuse(file, allowed) \/ Import(file, allowed)
      BY <2>2 DEF Next, Upload
    <3>2. CASE Refuse(file, allowed)
      <4>1. UNCHANGED <<kept, kind, contents, seen, imports, rows>>
        BY <3>2 DEF Refuse
      <4>. QED
        BY <1>2, <4>1, StoreRests
    <3> QED BY <1>2, <3>1, <3>2, ImportStores
  <2> QED BY <1>2, <2>1, <2>2
<1> QED BY <1>1, <1>2

-----------------------------------------------------------------------------
\* Whatever the files contain and however often they are uploaded, a reported import has
\* classified every record, and the store holds exactly the accepted ones, in their order.
THEOREM NothingGetsLost == Spec => []NothingIsLost
<1>1. StoreInv => NothingIsLost
  BY DEF StoreInv
<1> QED BY <1>1, StoreInvInductive, PTL DEF Spec

\* A row like an earlier one of the same pipeline is suspicious, and the same content
\* is imported twice only where that was allowed.
THEOREM DuplicatesAreKnown == Spec => []DuplicatesAreMarked
<1>1. StoreInv => DuplicatesAreMarked
  BY DEF StoreInv
<1> QED BY <1>1, StoreInvInductive, PTL DEF Spec
=============================================================================
