--------------------------- MODULE TickFeedProofs ---------------------------
(***************************************************************************)
(* Proofs about TickFeed, for any periods and thresholds, any lines and    *)
(* feeds of any length.                                                    *)
(*                                                                         *)
(* The live strategies remember a few numbers of the feed: the end of the  *)
(* accepted prices and two sums, or the last price.  What they remember is *)
(* what a backtest computes from all recorded lines (MaRemembers,          *)
(* SimpleRemembers), so their orders are those of the backtest.            *)
(***************************************************************************)
EXTENDS TickFeed, FoldLemmas, SequenceTheorems

-----------------------------------------------------------------------------
(* Reading recorded lines.                                                 *)

Keeps(g, s, W) ==
    g = [i \in 0 .. Len(s) |-> IF i = 0 THEN <<>>
                               ELSE IF s[i] \in W THEN Append(g[i - 1], s[i]) ELSE g[i - 1]]

LEMMA KeepIsLoop ==
    ASSUME NEW s, NEW W
    PROVE  Keep(s, W) = (CHOOSE g : Keeps(g, s, W))[Len(s)]
BY Zenon DEF Keep, Keeps

\* The loop that Keep is.
Round(s, W) == [i \in 1 .. Len(s) |->
                   [v \in Seq(W) |-> IF s[i] \in W THEN Append(v, s[i]) ELSE v]]

LEMMA KeepLoops ==
    ASSUME NEW T, NEW s \in Seq(T), NEW W
    PROVE  \E g \in [0 .. Len(s) -> Seq(W)] :
               /\ LoopOn(g, Len(s), <<>>, Round(s, W))
               /\ Keep(s, W) = g[Len(s)]
<1> DEFINE n == Len(s)
<1>1. n \in Nat
  OBVIOUS
<1>2. Looping(n, Seq(W), <<>>, Round(s, W))
  BY DEF Looping, Round
<1>3. \E g \in [0 .. n -> Seq(W)] : LoopOn(g, n, <<>>, Round(s, W))
  <2> HIDE DEF n
  <2> QED BY <1>1, <1>2, LoopExists
<1>4. ASSUME NEW g \in [0 .. n -> Seq(W)], LoopOn(g, n, <<>>, Round(s, W))
      PROVE  Keeps(g, s, W)
  <2>1. g[0] = <<>>
    BY <1>4 DEF LoopOn
  <2>2. ASSUME NEW i \in 0 .. n, i # 0
        PROVE  g[i] = IF s[i] \in W THEN Append(g[i - 1], s[i]) ELSE g[i - 1]
    <3>1. i \in 1 .. n /\ i - 1 \in 0 .. n
      BY <2>2
    <3>2. g[i] = Round(s, W)[i][g[i - 1]] /\ g[i - 1] \in Seq(W)
      BY <1>4, <3>1 DEF LoopOn
    <3> QED BY <3>1, <3>2 DEF Round
  <2> QED BY <2>1, <2>2 DEF Keeps
<1> DEFINE c == CHOOSE g : Keeps(g, s, W)
<1>5. Keeps(c, s, W)
  BY <1>3, <1>4
<1>6. PICK g \in [0 .. n -> Seq(W)] : LoopOn(g, n, <<>>, Round(s, W))
  BY <1>3
<1>7. \A i \in 0 .. n : c[i] = g[i]
  <2>1. Keeps(g, s, W)
    BY <1>4, <1>6
  <2> DEFINE N == {i \in 0 .. n : c[i] # g[i]}
  <2> SUFFICES ASSUME N # {} PROVE FALSE
    OBVIOUS
  <2>2. PICK m \in N : \A i \in N : m <= i
    <3>1. N \in SUBSET Nat
      OBVIOUS
    <3> HIDE DEF N
    <3> QED BY <3>1, LeastNumber
  <2>3. m \in 0 .. n /\ c[m] # g[m]
    OBVIOUS
  <2>4. /\ c[m] = IF m = 0 THEN <<>>
                  ELSE IF s[m] \in W THEN Append(c[m - 1], s[m]) ELSE c[m - 1]
        /\ g[m] = IF m = 0 THEN <<>>
                  ELSE IF s[m] \in W THEN Append(g[m - 1], s[m]) ELSE g[m - 1]
    <3> HIDE DEF c
    <3> QED BY <1>5, <2>1, <2>3 DEF Keeps
  <2>5. m # 0
    BY <2>3, <2>4
  <2>6. m - 1 \in 0 .. n /\ m - 1 < m
    BY <2>3, <2>5
  <2>7. c[m - 1] = g[m - 1]
    BY <2>2, <2>6
  <2> QED BY <2>3, <2>4, <2>5, <2>7
<1>8. Keep(s, W) = c[n]
  BY KeepIsLoop
<1> QED BY <1>1, <1>6, <1>7, <1>8

\* A wanted line is appended, any other is skipped.
LEMMA KeepAppend ==
    ASSUME NEW T, NEW s \in Seq(T), NEW W, NEW e \in T
    PROVE  /\ Keep(s, W) \in Seq(W)
           /\ Keep(Append(s, e), W) =
                  IF e \in W THEN Append(Keep(s, W), e) ELSE Keep(s, W)
<1> DEFINE t == Append(s, e)
           n == Len(s)
<1>1. /\ t \in Seq(T) /\ Len(t) = n + 1 /\ n \in Nat /\ t[n + 1] = e
      /\ \A i \in 1 .. n : t[i] = s[i]
  OBVIOUS
<1> HIDE DEF t, n
<1>2. PICK g : /\ g \in [0 .. n -> Seq(W)]
               /\ LoopOn(g, n, <<>>, Round(s, W)) /\ Keep(s, W) = g[n]
  BY KeepLoops DEF n
<1>3. PICK h : /\ h \in [0 .. (n + 1) -> Seq(W)]
               /\ LoopOn(h, n + 1, <<>>, Round(t, W)) /\ Keep(t, W) = h[n + 1]
  BY <1>1, KeepLoops
<1>4. g[n] = h[n]
  <2>1. LoopOn(h, n, <<>>, Round(t, W))
    BY <1>1, <1>3 DEF LoopOn
  <2>2. ASSUME NEW i \in 1 .. n PROVE Round(s, W)[i] = Round(t, W)[i]
    <3>1. s[i] = t[i] /\ i \in 1 .. Len(s) /\ i \in 1 .. Len(t)
      BY <1>1 DEF n
    <3> QED BY <3>1 DEF Round
  <2>3. \A i \in 0 .. n : g[i] = h[i]
    <3> DEFINE r1 == Round(s, W)
               r2 == Round(t, W)
    <3>1. /\ n \in Nat /\ LoopOn(g, n, <<>>, r1) /\ LoopOn(h, n, <<>>, r2)
          /\ \A i \in 1 .. n : r1[i] = r2[i]
      BY <1>1, <1>2, <2>1, <2>2
    <3> HIDE DEF r1, r2
    <3> QED BY <3>1, LoopUnique
  <2> QED BY <1>1, <2>3
<1>5. h[n + 1] = Round(t, W)[n + 1][h[n]]
  <2>1. n + 1 \in 1 .. (n + 1) /\ (n + 1) - 1 = n
    BY <1>1
  <2> QED BY <1>3, <2>1 DEF LoopOn
<1>6. Round(t, W)[n + 1][h[n]] = IF e \in W THEN Append(h[n], e) ELSE h[n]
  <2>1. h[n] \in Seq(W) /\ n + 1 \in 1 .. Len(t)
    BY <1>1, <1>3
  <2> QED BY <1>1, <2>1 DEF Round
<1>7. g[n] \in Seq(W)
  BY <1>1, <1>2
<1> QED BY <1>2, <1>3, <1>4, <1>5, <1>6, <1>7 DEF t

LEMMA KeepNothing == ASSUME NEW W PROVE Keep(<<>>, W) = <<>>
<1>1. PICK g \in [0 .. Len(<<>>) -> Seq(W)] :
          LoopOn(g, Len(<<>>), <<>>, Round(<<>>, W)) /\ Keep(<<>>, W) = g[Len(<<>>)]
  <2>1. <<>> \in Seq(W)
    OBVIOUS
  <2> QED BY <2>1, KeepLoops
<1> QED BY <1>1 DEF LoopOn

-----------------------------------------------------------------------------
(* Windows of prices.                                                      *)

LEMMA SumIsSum == ASSUME NEW s PROVE Ma!Sum(s) = SumFunctionOnSet(s, DOMAIN s)
BY Zenon DEF Ma!Sum, Ma!SumFunction, Ma!SumFunctionOnSet, Ma!FoldFunctionOnSet,
        Ma!MapThenFoldSet, SumFunctionOnSet, FoldFunctionOnSet, MapThenFoldSet

\* A sum of prices is a number, and not None.
LEMMA SumType == ASSUME NEW s \in Seq(Nat) PROVE Ma!Sum(s) \in Nat
<1>1. IsFiniteSet(DOMAIN s)
  <2>1. DOMAIN s = 1 .. Len(s) /\ Len(s) \in Nat
    OBVIOUS
  <2> QED BY <2>1, FS_Interval
<1>2. \A i \in DOMAIN s : s[i] \in Nat
  OBVIOUS
<1> QED BY <1>1, <1>2, SumIsSum, SumsExist

LEMMA WindowType ==
    ASSUME NEW s \in Seq(Nat), NEW p \in Nat
    PROVE  /\ Ma!WindowSum(s, p) \in Nat \cup {Ma!None}
           /\ Ma!WindowSum(s, p) = Ma!None <=> Len(s) < p
           /\ Len(s) >= p => Ma!WindowSum(s, p) = Ma!Sum(Ma!LastOf(s, p))
<1>1. ASSUME Len(s) >= p PROVE Ma!LastOf(s, p) \in Seq(Nat)
  BY <1>1 DEF Ma!LastOf
<1>2. ASSUME Len(s) >= p PROVE Ma!Sum(Ma!LastOf(s, p)) \in Nat
  BY <1>1, <1>2, SumType
<1> QED BY <1>2 DEF Ma!WindowSum, Ma!None

LEMMA LastOfFacts ==
    ASSUME NEW s \in Seq(Nat), NEW n \in 0 .. Len(s)
    PROVE  /\ Ma!LastOf(s, n) \in Seq(Nat)
           /\ Len(Ma!LastOf(s, n)) = n
           /\ \A i \in 1 .. n : Ma!LastOf(s, n)[i] = s[Len(s) - n + i]
<1> DEFINE a == Len(s) - n + 1
           b == Len(s)
<1>1. a \in Int /\ b \in Int /\ b - a + 1 = n /\ \A i \in a .. b : s[i] \in Nat
  OBVIOUS
<1>2. /\ SubSeq(s, a, b) \in Seq(Nat)
      /\ Len(SubSeq(s, a, b)) = IF a <= b THEN b - a + 1 ELSE 0
      /\ \A i \in 1 .. b - a + 1 : SubSeq(s, a, b)[i] = s[a + i - 1]
  <2> HIDE DEF a, b
  <2> QED BY <1>1, SubSeqProperties
<1>3. ASSUME NEW i \in 1 .. n PROVE SubSeq(s, a, b)[i] = s[Len(s) - n + i]
  <2>1. a + i - 1 = Len(s) - n + i /\ i \in 1 .. b - a + 1
    OBVIOUS
  <2> QED BY <1>2, <2>1
<1>4. Len(SubSeq(s, a, b)) = n
  BY <1>2
<1>5. Ma!LastOf(s, n) = SubSeq(s, a, b)
  BY DEF Ma!LastOf
<1> QED BY <1>2, <1>3, <1>4, <1>5

\* The last k of a list, or all of it, if it is shorter.
AtMostLast(s, k) == Ma!LastOf(s, IF Len(s) < k THEN Len(s) ELSE k)

\* The end of a list has the windows of the list that fit in it.
LEMMA EndHasWindows ==
    ASSUME NEW s \in Seq(Nat), NEW k \in Nat, NEW p \in Nat, p <= k
    PROVE  /\ AtMostLast(s, k) \in Seq(Nat)
           /\ Len(AtMostLast(s, k)) = IF Len(s) < k THEN Len(s) ELSE k
           /\ Ma!WindowSum(AtMostLast(s, k), p) = Ma!WindowSum(s, p)
<1> DEFINE n == Len(s)
           m == IF n < k THEN n ELSE k
           t == AtMostLast(s, k)
<1>1. n \in Nat /\ m \in 0 .. n /\ m <= k
  OBVIOUS
<1>2. /\ t \in Seq(Nat) /\ Len(t) = m
      /\ \A i \in 1 .. m : t[i] = s[n - m + i]
  <2>1. t = Ma!LastOf(s, m)
    BY DEF AtMostLast
  <2> HIDE DEF t, m
  <2> QED BY <1>1, <2>1, LastOfFacts
<1>3. CASE n < p
  BY <1>1, <1>2, <1>3 DEF Ma!WindowSum
<1>4. CASE p <= n
  <2>1. p \in 0 .. m /\ p \in 0 .. n
    BY <1>4
  <2>2. Ma!LastOf(t, p) = Ma!LastOf(s, p)
    <3> HIDE DEF t, m, n
    <3>1. /\ Ma!LastOf(t, p) \in Seq(Nat) /\ Len(Ma!LastOf(t, p)) = p
          /\ \A i \in 1 .. p : Ma!LastOf(t, p)[i] = t[m - p + i]
      BY <1>2, <2>1, LastOfFacts
    <3>2. /\ Ma!LastOf(s, p) \in Seq(Nat) /\ Len(Ma!LastOf(s, p)) = p
          /\ \A i \in 1 .. p : Ma!LastOf(s, p)[i] = s[n - p + i]
      BY <2>1, LastOfFacts DEF n
    <3>3. ASSUME NEW i \in 1 .. p PROVE t[m - p + i] = s[n - p + i]
      <4>1. m - p + i \in 1 .. m
        BY <1>1, <2>1
      <4>2. t[m - p + i] = s[n - m + (m - p + i)]
        BY <1>2, <4>1
      <4>3. n - m + (m - p + i) = n - p + i
        BY <1>1
      <4> QED BY <4>2, <4>3
    <3> QED BY <3>1, <3>2, <3>3, SeqEqual
  <2>3. ~(Len(t) < p) /\ ~(Len(s) < p)
    BY <1>2, <1>4
  <2> QED BY <1>2, <2>2, <2>3 DEF Ma!WindowSum
<1>5. t \in Seq(Nat) /\ Len(t) = m
  BY <1>2
<1> QED BY <1>3, <1>4, <1>5

\* What the deque remembers of the prices with one more at their end.
LEMMA RememberEnd ==
    ASSUME NEW s \in Seq(Nat), NEW mid \in Nat
    PROVE  Ma!Remember(AtMostLast(s, long_period + 5), mid)
             = AtMostLast(Append(s, mid), long_period + 5)
<1> DEFINE k == long_period + 5
           n == Len(s)
           m == IF n < k THEN n ELSE k
           l == IF n + 1 < k THEN n + 1 ELSE k
           t == AtMostLast(s, k)
           u == Append(s, mid)
           a == Append(t, mid)
           r == Ma!Remember(t, mid)
           e == AtMostLast(u, k)
<1>1. k \in Nat /\ k > 0 /\ n \in Nat
  BY PeriodsAssumption
<1> HIDE DEF k
<1>2. m \in 0 .. n /\ l \in 0 .. (n + 1)
  BY <1>1
<1>3. /\ t \in Seq(Nat) /\ Len(t) = m
      /\ \A i \in 1 .. m : t[i] = s[n - m + i]
  <2>1. t = Ma!LastOf(s, m)
    BY DEF AtMostLast
  <2> HIDE DEF t, m
  <2> QED BY <1>2, <2>1, LastOfFacts
<1>4. /\ u \in Seq(Nat) /\ Len(u) = n + 1 /\ u[n + 1] = mid
      /\ \A i \in 1 .. n : u[i] = s[i]
  OBVIOUS
<1>5. /\ e \in Seq(Nat) /\ Len(e) = l
      /\ \A i \in 1 .. l : e[i] = u[n + 1 - l + i]
  <2> HIDE DEF u
  <2>1. e = Ma!LastOf(u, l)
    BY <1>4 DEF AtMostLast
  <2> HIDE DEF e, l, n
  <2>2. l \in 0 .. Len(u) /\ Len(u) = n + 1 /\ u \in Seq(Nat)
    BY <1>2, <1>4
  <2>3. /\ e \in Seq(Nat) /\ Len(e) = l
        /\ \A i \in 1 .. l : e[i] = u[Len(u) - l + i]
    BY <2>1, <2>2, LastOfFacts
  <2>4. Len(u) - l = n + 1 - l
    BY <1>1, <2>2
  <2>5. ASSUME NEW i \in 1 .. l PROVE e[i] = u[n + 1 - l + i]
    BY <2>3, <2>4, Zenon
  <2> QED BY <2>3, <2>5
<1>6. /\ a \in Seq(Nat) /\ Len(a) = m + 1 /\ a[m + 1] = mid
      /\ \A i \in 1 .. m : a[i] = t[i]
  <2> HIDE DEF t, m
  <2> QED BY <1>3, AppendProperties
<1>7. /\ r \in Seq(Nat) /\ Len(r) = l
      /\ \A i \in 1 .. l : r[i] = a[m + 1 - l + i]
  <2> HIDE DEF a
  <2>1. r = IF m + 1 > k THEN Tail(a) ELSE a
    BY <1>6 DEF Ma!Remember, k, a
  <2> HIDE DEF r
  <2>2. CASE n < k
    <3>1. m = n /\ l = n + 1 /\ r = a
      BY <1>1, <2>1, <2>2
    <3> HIDE DEF m, l, n
    <3>2. ASSUME NEW i \in 1 .. l PROVE m + 1 - l + i = i
      BY <1>1, <3>1
    <3> QED BY <1>1, <1>6, <3>1, <3>2
  <2>3. CASE k <= n
    <3>1. m = k /\ l = k /\ r = Tail(a)
      BY <1>1, <2>1, <2>3
    <3> HIDE DEF m, l, n
    <3>2. a # <<>>
      BY <1>1, <1>6, <3>1
    <3>3. /\ Tail(a) \in Seq(Nat) /\ Len(Tail(a)) = k
          /\ \A i \in 1 .. k : Tail(a)[i] = a[i + 1]
      BY <1>1, <1>6, <3>1, <3>2, HeadTailProperties
    <3>4. ASSUME NEW i \in 1 .. k PROVE k + 1 - k + i = i + 1
      BY <1>1
    <3> QED BY <3>1, <3>3, <3>4
  <2>4. n < k \/ k <= n
    BY <1>1
  <2> HIDE DEF m, l, n
  <2> QED BY <2>2, <2>3, <2>4
<1>8. ASSUME NEW i \in 1 .. l PROVE r[i] = e[i]
  <2> HIDE DEF a, u, r, e, t
  <2>1. l <= m + 1 /\ l \in Nat /\ m \in Nat /\ (l = m + 1 \/ l = m)
    BY <1>1
  <2> HIDE DEF m, l, n
  <2>2. CASE i = l
    <3>1. m + 1 - l + i = m + 1 /\ n + 1 - l + i = n + 1
      BY <1>1, <2>1, <2>2
    <3> QED BY <1>4, <1>5, <1>6, <1>7, <3>1
  <2>3. CASE i < l
    <3>1. m + 1 - l + i \in 1 .. m /\ n + 1 - l + i \in 1 .. n
      BY <1>1, <1>2, <2>1, <2>3
    <3>2. a[m + 1 - l + i] = s[n - m + (m + 1 - l + i)]
      BY <1>3, <1>6, <3>1
    <3>3. n - m + (m + 1 - l + i) = n + 1 - l + i
      BY <1>1, <1>2, <2>1
    <3>4. u[n + 1 - l + i] = s[n + 1 - l + i]
      BY <1>4, <3>1
    <3>5. r[i] = a[m + 1 - l + i] /\ e[i] = u[n + 1 - l + i]
      BY <1>5, <1>7
    <3> QED BY <3>2, <3>3, <3>4, <3>5
  <2> QED BY <2>1, <2>2, <2>3
<1>9. r = e
  <2> HIDE DEF r, e, l
  <2> QED BY <1>5, <1>7, <1>8, SeqEqual
<1> QED BY <1>9 DEF k

-----------------------------------------------------------------------------
(* The prices of a feed.                                                   *)

LEMMA MidsAppend ==
    ASSUME NEW s \in Seq(Lines), NEW line \in Lines, NEW spread
    PROVE  /\ MidsWithin(s, spread) \in Seq(Nat)
           /\ MidsWithin(Append(s, line), spread) =
                  IF line.form = "tick" /\ line.spread <= spread
                  THEN Append(MidsWithin(s, spread), line.mid)
                  ELSE MidsWithin(s, spread)
<1> DEFINE W == {l \in Lines : FromFile(l) /\ l.spread <= spread}
           MidsOf(ticks) == [i \in DOMAIN ticks |-> ticks[i].mid]
           k == Keep(s, W)
           m == MidsOf(k)
<1>1. MidsWithin(s, spread) = m /\ MidsWithin(Append(s, line), spread) = MidsOf(Keep(Append(s, line), W))
  BY DEF MidsWithin
<1>2. /\ k \in Seq(W)
      /\ Keep(Append(s, line), W) = IF line \in W THEN Append(k, line) ELSE k
  <2> HIDE DEF W
  <2>1. Keep(s, W) \in Seq(W)
    BY KeepAppend
  <2>2. line \in W => Keep(Append(s, line), W) = Append(Keep(s, W), line)
    BY KeepAppend
  <2>3. line \notin W => Keep(Append(s, line), W) = Keep(s, W)
    BY KeepAppend
  <2> QED BY <2>1, <2>2, <2>3
<1>3. line \in W <=> line.form = "tick" /\ line.spread <= spread
  BY LinesAssumption DEF FromFile, Parses
<1>4. \A l \in W : l.mid \in Nat
  BY LinesAssumption
<1> HIDE DEF W, k
<1>5. ASSUME NEW ticks \in Seq(W) PROVE MidsOf(ticks) \in Seq(Nat) /\ Len(MidsOf(ticks)) = Len(ticks)
  <2>1. DOMAIN ticks = 1 .. Len(ticks) /\ Len(ticks) \in Nat
        /\ \A i \in 1 .. Len(ticks) : ticks[i].mid \in Nat
    BY <1>4
  <2> QED BY <2>1
<1>6. ASSUME line \in W PROVE MidsOf(Append(k, line)) = Append(m, line.mid)
  <2> DEFINE u == Append(k, line)
             a == MidsOf(u)
             b == Append(m, line.mid)
             n == Len(k)
  <2>1. /\ u \in Seq(W) /\ Len(u) = n + 1 /\ u[n + 1] = line /\ n \in Nat
        /\ \A i \in 1 .. n : u[i] = k[i]
    BY <1>2, <1>6, AppendProperties
  <2>2. m \in Seq(Nat) /\ Len(m) = n /\ \A i \in 1 .. n : m[i] = k[i].mid
    BY <1>2, <1>5
  <2>3. /\ b \in Seq(Nat) /\ Len(b) = n + 1 /\ b[n + 1] = line.mid
        /\ \A i \in 1 .. n : b[i] = m[i]
    <3>1. line.mid \in Nat
      BY <1>4, <1>6
    <3> HIDE DEF m, n
    <3> QED BY <2>2, <3>1, AppendProperties
  <2> HIDE DEF u
  <2>4. /\ a \in Seq(Nat) /\ Len(a) = n + 1 /\ \A i \in 1 .. (n + 1) : a[i] = u[i].mid
    <3>1. a \in Seq(Nat) /\ Len(a) = Len(u)
      <4> HIDE DEF MidsOf
      <4> QED BY <1>5, <2>1
    <3> QED BY <2>1, <3>1
  <2>5. ASSUME NEW i \in 1 .. (n + 1) PROVE a[i] = b[i]
    <3> HIDE DEF a, b, m, n
    <3>1. i \in 1 .. n \/ i = n + 1
      BY <2>1
    <3> QED BY <2>1, <2>2, <2>3, <2>4, <3>1
  <2>6. a = b
    <3> HIDE DEF a, b, n
    <3> QED BY <2>3, <2>4, <2>5, SeqEqual
  <2> QED BY <2>6 DEF u
<1>7. m \in Seq(Nat)
  BY <1>2, <1>5
<1> HIDE DEF MidsOf, m
<1>8. MidsOf(Keep(Append(s, line), W)) = IF line \in W THEN Append(m, line.mid) ELSE m
  BY <1>2, <1>6 DEF m
<1> QED BY <1>1, <1>3, <1>7, <1>8

LEMMA MidsNothing == ASSUME NEW spread PROVE MidsWithin(<<>>, spread) = <<>>
BY KeepNothing DEF MidsWithin

LEMMA RememberType ==
    ASSUME NEW s \in Seq(Nat), NEW mid \in Nat, Len(s) <= long_period + 5
    PROVE  /\ Ma!Remember(s, mid) \in Seq(Nat)
           /\ Len(Ma!Remember(s, mid)) <= long_period + 5
           /\ Len(s) >= long_period => Len(Ma!Remember(s, mid)) >= long_period
<1> DEFINE t == Append(s, mid)
<1>1. t \in Seq(Nat) /\ Len(t) = Len(s) + 1 /\ Len(s) \in Nat /\ t # <<>>
  BY AppendProperties
<1>2. Tail(t) \in Seq(Nat) /\ Len(Tail(t)) = Len(s)
  <2> HIDE DEF t
  <2> QED BY <1>1, HeadTailProperties
<1>3. long_period \in Nat
  BY PeriodsAssumption
<1>4. Ma!Remember(s, mid) = IF Len(t) > long_period + 5 THEN Tail(t) ELSE t
  BY DEF Ma!Remember
<1> HIDE DEF t
<1> QED BY <1>1, <1>2, <1>3, <1>4

-----------------------------------------------------------------------------
(* The invariant.                                                          *)

\* The deque and the sums are those of all accepted prices.
MaRemembers ==
    strategy = "ma" /\ NoHash(feed) =>
        LET mids == MidsWithin(feed, ma_max_spread) IN
        /\ mid_prices = AtMostLast(mids, long_period + 5)
        /\ prev_short = Ma!WindowSum(mids, short_period)
        /\ prev_long = Ma!WindowSum(mids, long_period)

\* The price of the last tick is the last accepted price.
SimpleRemembers ==
    strategy = "simple" /\ NoHash(feed) =>
        LET mids == MidsWithin(feed, simple_max_spread) IN
        prev_mid = IF mids = <<>> THEN Simple!None ELSE mids[Len(mids)]

\* The averages have not crossed since they were strictly on a side.
SideIsKept ==
    side # "unknown" =>
        /\ Len(mid_prices) >= long_period
        /\ prev_short # Ma!None /\ prev_long # Ma!None
        /\ side = "below" => Ma!AtMost(prev_short, prev_long)
        /\ side = "above" => Ma!AtLeast(prev_short, prev_long)

IInv == TypeOK /\ MaRemembers /\ SimpleRemembers /\ SideIsKept

LEMMA InvInit == Init => IInv
<1> SUFFICES ASSUME Init PROVE IInv
  OBVIOUS
<1>1. TypeOK /\ SideIsKept
  BY PeriodsAssumption DEF Init, Ma!Init, Simple!Init, TypeOK, Ma!TypeOK, SideIsKept
<1>2. SimpleRemembers
  BY MidsNothing DEF Init, Simple!Init, SimpleRemembers
<1>3. MaRemembers
  <2>1. Len(<<>>) = 0 /\ <<>> \in Seq(Nat)
    OBVIOUS
  <2>2. AtMostLast(<<>>, long_period + 5) = <<>>
    <3> DEFINE k == long_period + 5
               e == AtMostLast(<<>>, k)
    <3>1. k \in Nat /\ 0 \in Nat /\ 0 <= k
      BY PeriodsAssumption
    <3> HIDE DEF k
    <3>2. /\ e \in Seq(Nat) /\ Len(e) = IF Len(<<>>) < k THEN Len(<<>>) ELSE k
          /\ Ma!WindowSum(e, 0) = Ma!WindowSum(<<>>, 0)
      BY <2>1, <3>1, EndHasWindows
    <3> HIDE DEF e
    <3> QED BY <2>1, <3>1, <3>2, EmptySeq DEF e, k
  <2>3. /\ Ma!WindowSum(<<>>, short_period) = Ma!None
        /\ Ma!WindowSum(<<>>, long_period) = Ma!None
    BY <2>1, PeriodsAssumption DEF Ma!WindowSum
  <2> QED BY <2>2, <2>3, MidsNothing DEF Init, Ma!Init, MaRemembers
<1> QED BY <1>1, <1>2, <1>3 DEF IInv

-----------------------------------------------------------------------------
(* Types.                                                                  *)

LEMMA FeedGrows ==
    ASSUME TypeOK, NEW line \in Lines, Read(line)
    PROVE  feed' \in Seq(Lines) /\ strategy' = strategy
BY AppendProperties DEF TypeOK, Read

LEMMA CrossTypes ==
    ASSUME TypeOK, NEW line \in Lines, Ma!Cross(line)
    PROVE  /\ Ma!TypeOK'
           /\ signal' \in {"HOLD", "BUY", "SELL"}
<1>1. /\ mid_prices \in Seq(Nat) /\ Len(mid_prices) <= long_period + 5
      /\ line.mid \in Nat
  BY LinesAssumption DEF TypeOK, Ma!TypeOK
<1>2. mid_prices' \in Seq(Nat) /\ Len(mid_prices') <= long_period + 5
  BY <1>1, RememberType DEF Ma!Cross
<1>3. /\ prev_short' \in Nat \cup {Ma!None} /\ prev_long' \in Nat \cup {Ma!None}
  <2>1. short_period \in Nat /\ long_period \in Nat
    BY PeriodsAssumption
  <2> QED BY <1>2, <2>1, WindowType DEF Ma!Cross
<1>4. side' \in {"above", "below", "unknown"}
  BY DEF Ma!Cross, Ma!SideAfter, TypeOK, Ma!TypeOK
<1>5. signal' \in {"HOLD", "BUY", "SELL"}
  BY DEF Ma!Cross, Ma!Crossover
<1> QED BY <1>2, <1>3, <1>4, <1>5 DEF Ma!TypeOK

LEMMA TypeStep == TypeOK /\ [Next]_vars => TypeOK'
<1> SUFFICES ASSUME TypeOK, [Next]_vars PROVE TypeOK'
  OBVIOUS
<1>1. ASSUME NEW line \in Lines, OnBadLine(line) PROVE TypeOK'
  <2>1. feed' \in Seq(Lines) /\ strategy' = strategy
    BY <1>1, FeedGrows DEF OnBadLine
  <2> QED BY <1>1, <2>1 DEF OnBadLine, TypeOK, Ma!TypeOK, maVars
<1>2. ASSUME NEW line \in Lines, OnTickMa(line) PROVE TypeOK'
  <2>1. feed' \in Seq(Lines) /\ strategy' = strategy /\ prev_mid' = prev_mid
    BY <1>2, FeedGrows DEF OnTickMa
  <2>2. Ma!TypeOK' /\ signal' \in {"HOLD", "BUY", "SELL"}
    <3>1. CASE Ma!TooWide(line)
      BY <3>1 DEF Ma!TooWide, TypeOK, Ma!TypeOK
    <3>2. CASE Ma!Cross(line)
      BY <3>2, CrossTypes
    <3> QED BY <1>2, <3>1, <3>2 DEF OnTickMa, Ma!Next
  <2>3. order' \in {"none", "BUY", "SELL"}
    BY <1>2, <2>2 DEF OnTickMa, BuildOrderCommand
  <2> QED BY <2>1, <2>2, <2>3 DEF TypeOK
<1>3. ASSUME NEW line \in Lines, OnTickSimple(line) PROVE TypeOK'
  <2>1. feed' \in Seq(Lines) /\ strategy' = strategy
    BY <1>3, FeedGrows DEF OnTickSimple
  <2>2. prev_mid' \in Nat \cup {Simple!None} /\ signal' \in {"HOLD", "BUY", "SELL"}
    BY <1>3, LinesAssumption DEF OnTickSimple, Simple!Next, Simple!TooWide,
       Simple!Compare, Simple!Momentum, TypeOK
  <2>3. order' \in {"none", "BUY", "SELL"}
    BY <1>3, <2>2 DEF OnTickSimple, BuildOrderCommand
  <2>4. Ma!TypeOK'
    BY <1>3 DEF OnTickSimple, maVars, TypeOK, Ma!TypeOK
  <2> QED BY <2>1, <2>2, <2>3, <2>4 DEF TypeOK
<1>4. CASE UNCHANGED vars
  BY <1>4 DEF vars, maVars, TypeOK, Ma!TypeOK
<1> QED BY <1>1, <1>2, <1>3, <1>4 DEF Next

-----------------------------------------------------------------------------
(* No crossing is missed.                                                  *)

\* Two averages are in one order.
LEMMA Averages ==
    ASSUME NEW short \in Nat, NEW long \in Nat
    PROVE  /\ Ma!Less(short, long) => Ma!AtMost(short, long) /\ ~Ma!Greater(short, long)
           /\ Ma!Greater(short, long) => Ma!AtLeast(short, long) /\ ~Ma!Less(short, long)
           /\ Ma!Greater(short, long) <=> ~Ma!AtMost(short, long)
           /\ Ma!AtLeast(short, long) <=> ~Ma!Less(short, long)
<1> DEFINE a == short * long_period
           b == long * short_period
<1>1. a \in Nat /\ b \in Nat
  BY PeriodsAssumption
<1>2. /\ Ma!Less(short, long) <=> a < b
      /\ Ma!AtMost(short, long) <=> a <= b
  BY DEF Ma!Less, Ma!AtMost
<1> HIDE DEF a, b
<1> QED BY <1>1, <1>2 DEF Ma!Greater, Ma!AtLeast

CrossingSignalled ==
    /\ (side = "below" /\ side' = "above") => order' = "BUY"
    /\ (side = "above" /\ side' = "below") => order' = "SELL"

LEMMA SideStep == TypeOK /\ SideIsKept /\ [Next]_vars => SideIsKept' /\ CrossingSignalled
<1> SUFFICES ASSUME TypeOK, SideIsKept, [Next]_vars
             PROVE  SideIsKept' /\ CrossingSignalled
  OBVIOUS
<1>1. ASSUME UNCHANGED maVars PROVE SideIsKept' /\ CrossingSignalled
  BY <1>1 DEF maVars, SideIsKept, CrossingSignalled, Ma!AtMost, Ma!AtLeast, Ma!Less
<1>2. ASSUME NEW line \in Lines, OnTickMa(line), Ma!Cross(line)
      PROVE  SideIsKept' /\ CrossingSignalled
  <2> DEFINE short == Ma!WindowSum(mid_prices', short_period)
             long  == Ma!WindowSum(mid_prices', long_period)
  <2>1. /\ prev_short' = short /\ prev_long' = long
        /\ side' = Ma!SideAfter(short, long)
        /\ order' = BuildOrderCommand(Ma!Crossover(short, long))
    BY <1>2 DEF OnTickMa, Ma!Cross
  <2>2. /\ short_period \in Nat /\ long_period \in Nat /\ short_period < long_period
    BY PeriodsAssumption
  <2>3. mid_prices' \in Seq(Nat)
    BY <1>2, CrossTypes DEF Ma!TypeOK
  <2>4. /\ short \in Nat \cup {Ma!None} /\ long \in Nat \cup {Ma!None}
        /\ short = Ma!None <=> Len(mid_prices') < short_period
        /\ long = Ma!None <=> Len(mid_prices') < long_period
    BY <2>2, <2>3, WindowType
  <2>5. side # "unknown" => Len(mid_prices') >= long_period
    <3>1. mid_prices \in Seq(Nat) /\ Len(mid_prices) <= long_period + 5 /\ line.mid \in Nat
      BY LinesAssumption DEF TypeOK, Ma!TypeOK
    <3> QED BY <1>2, <3>1, RememberType DEF SideIsKept, Ma!Cross
  <2>6. Len(mid_prices') \in Nat
    BY <2>3
  <2> HIDE DEF short, long
  <2>7. CASE Ma!None \in {short, long}
    <3>1. side' = side
      BY <2>1, <2>7 DEF Ma!SideAfter
    <3>2. side = "unknown"
      BY <2>2, <2>4, <2>5, <2>6, <2>7
    <3> QED BY <3>1, <3>2 DEF SideIsKept, CrossingSignalled
  <2>8. CASE Ma!None \notin {short, long}
    <3>1. short \in Nat /\ long \in Nat /\ Len(mid_prices') >= long_period
      BY <2>2, <2>4, <2>6, <2>8
    <3>2. /\ Ma!Less(short, long) => Ma!AtMost(short, long) /\ ~Ma!Greater(short, long)
          /\ Ma!Greater(short, long) => Ma!AtLeast(short, long) /\ ~Ma!Less(short, long)
          /\ Ma!Greater(short, long) <=> ~Ma!AtMost(short, long)
          /\ Ma!AtLeast(short, long) <=> ~Ma!Less(short, long)
      BY <3>1, Averages
    <3>3. side' = IF Ma!Greater(short, long) THEN "above"
                  ELSE IF Ma!Less(short, long) THEN "below" ELSE side
      BY <2>1, <2>8 DEF Ma!SideAfter
    <3>4. /\ side' = "below" => Ma!AtMost(short, long)
          /\ side' = "above" => Ma!AtLeast(short, long)
      BY <3>2, <3>3
    <3>5. SideIsKept'
      BY <2>1, <2>4, <2>8, <3>1, <3>4 DEF SideIsKept, Ma!AtMost, Ma!AtLeast, Ma!Less
    <3>6. CrossingSignalled
      <4>1. CASE side = "below" /\ side' = "above"
        <5>1. /\ prev_short # Ma!None /\ prev_long # Ma!None
              /\ Ma!AtMost(prev_short, prev_long) /\ Ma!Greater(short, long)
          BY <3>2, <3>3, <4>1 DEF SideIsKept
        <5>2. Ma!Crossover(short, long) = "BUY"
          BY <2>8, <5>1 DEF Ma!Crossover
        <5> QED BY <2>1, <4>1, <5>2 DEF CrossingSignalled, BuildOrderCommand
      <4>2. CASE side = "above" /\ side' = "below"
        <5>1. /\ prev_short # Ma!None /\ prev_long # Ma!None
              /\ Ma!AtLeast(prev_short, prev_long) /\ Ma!Less(short, long)
              /\ ~Ma!Greater(short, long)
          BY <3>2, <3>3, <4>2 DEF SideIsKept
        <5>2. Ma!Crossover(short, long) = "SELL"
          BY <2>8, <5>1 DEF Ma!Crossover
        <5> QED BY <2>1, <4>2, <5>2 DEF CrossingSignalled, BuildOrderCommand
      <4> QED BY <4>1, <4>2 DEF CrossingSignalled
    <3> QED BY <3>5, <3>6
  <2> QED BY <2>7, <2>8
<1>3. ASSUME NEW line \in Lines, OnTickMa(line), Ma!TooWide(line)
      PROVE  SideIsKept' /\ CrossingSignalled
  BY <1>1, <1>3 DEF Ma!TooWide, maVars
<1> QED BY <1>1, <1>2, <1>3
        DEF Next, OnBadLine, OnTickMa, OnTickSimple, Ma!Next, vars

-----------------------------------------------------------------------------
(* Live orders are those of a backtest.                                    *)

\* The remembered sums give the crossing that the reference finds in all prices.
LEMMA CrossoverIsReference ==
    ASSUME NEW mids \in Seq(Nat), NEW mid \in Nat, NEW all, all = Append(mids, mid),
           prev_short = Ma!WindowSum(mids, short_period),
           prev_long = Ma!WindowSum(mids, long_period)
    PROVE  Ma!Crossover(Ma!WindowSum(all, short_period), Ma!WindowSum(all, long_period))
             = Ma!Reference(all)
<1> DEFINE n == Len(mids)
           short == Ma!WindowSum(all, short_period)
           long == Ma!WindowSum(all, long_period)
<1>1. all \in Seq(Nat) /\ Len(all) = n + 1 /\ n \in Nat /\ \A i \in 1 .. n : all[i] = mids[i]
  BY AppendProperties
<1>2. short_period \in Nat /\ long_period \in Nat /\ short_period < long_period
  BY PeriodsAssumption
<1>3. /\ prev_short \in Nat \cup {Ma!None} /\ prev_long \in Nat \cup {Ma!None}
      /\ prev_short = Ma!None <=> n < short_period
      /\ prev_long = Ma!None <=> n < long_period
      /\ n >= short_period => prev_short = Ma!Sum(Ma!LastOf(mids, short_period))
      /\ n >= long_period => prev_long = Ma!Sum(Ma!LastOf(mids, long_period))
  BY <1>2, WindowType
<1>4. /\ short \in Nat \cup {Ma!None} /\ long \in Nat \cup {Ma!None}
      /\ short = Ma!None <=> n + 1 < short_period
      /\ long = Ma!None <=> n + 1 < long_period
      /\ n + 1 >= short_period => short = Ma!Sum(Ma!LastOf(all, short_period))
      /\ n + 1 >= long_period => long = Ma!Sum(Ma!LastOf(all, long_period))
  <2> HIDE DEF n
  <2> QED BY <1>1, <1>2, WindowType
<1>5. SubSeq(all, 1, n) = mids /\ SubSeq(all, 1, n + 1) = all
  <2>1. SubSeq(all, 1, n + 1) = all
    BY <1>1, SubSeqFull
  <2>2. /\ SubSeq(all, 1, n) \in Seq(Nat) /\ Len(SubSeq(all, 1, n)) = n
        /\ \A i \in 1 .. n : SubSeq(all, 1, n)[i] = all[i]
    BY <1>1
  <2>3. SubSeq(all, 1, n) = mids
    <3> DEFINE s == SubSeq(all, 1, n)
    <3>1. s \in Seq(Nat) /\ Len(s) = Len(mids) /\ \A i \in 1 .. Len(s) : s[i] = mids[i]
      BY <1>1, <2>2
    <3> HIDE DEF s
    <3>2. s = mids
      BY <3>1, SeqEqual
    <3> QED BY <3>2 DEF s
  <2> QED BY <2>1, <2>3
<1> HIDE DEF n, short, long
<1>6. CASE n < long_period
  <2>1. Ma!Crossover(short, long) = "HOLD"
    BY <1>3, <1>6 DEF Ma!Crossover
  <2>2. Ma!Reference(all) = "HOLD"
    BY <1>1, <1>2, <1>6 DEF Ma!Reference
  <2> QED BY <2>1, <2>2 DEF short, long
<1>7. CASE n >= long_period
  <2>1. /\ prev_short \in Nat /\ prev_long \in Nat /\ short \in Nat /\ long \in Nat
        /\ Ma!None \notin {prev_short, prev_long, short, long}
    BY <1>1, <1>2, <1>3, <1>4, <1>7
  <2>2. Ma!Order(all, n) = IF Ma!Greater(prev_short, prev_long) THEN 1
                           ELSE IF Ma!Less(prev_short, prev_long) THEN -1 ELSE 0
    <3>1. /\ prev_short = Ma!Sum(Ma!LastOf(mids, short_period))
          /\ prev_long = Ma!Sum(Ma!LastOf(mids, long_period))
      BY <1>1, <1>2, <1>3, <1>7
    <3> QED BY <1>5, <3>1, Zenon DEF Ma!Order
  <2>3. Ma!Order(all, n + 1) = IF Ma!Greater(short, long) THEN 1
                               ELSE IF Ma!Less(short, long) THEN -1 ELSE 0
    <3>1. /\ short = Ma!Sum(Ma!LastOf(all, short_period))
          /\ long = Ma!Sum(Ma!LastOf(all, long_period))
      BY <1>1, <1>2, <1>4, <1>7
    <3> QED BY <1>5, <3>1, Zenon DEF Ma!Order
  <2>4. /\ Ma!Order(all, n) <= 0 <=> Ma!AtMost(prev_short, prev_long)
        /\ Ma!Order(all, n) >= 0 <=> Ma!AtLeast(prev_short, prev_long)
    BY <2>1, <2>2, Averages
  <2>5. /\ Ma!Order(all, n + 1) > 0 <=> Ma!Greater(short, long)
        /\ Ma!Order(all, n + 1) < 0 <=> Ma!Less(short, long)
    BY <2>1, <2>3, Averages
  <2>6. Ma!Reference(all) =
            IF Ma!Order(all, n) <= 0 /\ Ma!Order(all, n + 1) > 0 THEN "BUY"
            ELSE IF Ma!Order(all, n) >= 0 /\ Ma!Order(all, n + 1) < 0 THEN "SELL"
            ELSE "HOLD"
    <3>1. Len(all) = n + 1 /\ (n + 1) - 1 = n /\ ~(n + 1 <= long_period)
      BY <1>1, <1>2, <1>7
    <3> QED BY <3>1 DEF Ma!Reference
  <2>7. Ma!Crossover(short, long) =
            IF Ma!AtMost(prev_short, prev_long) /\ Ma!Greater(short, long) THEN "BUY"
            ELSE IF Ma!AtLeast(prev_short, prev_long) /\ Ma!Less(short, long) THEN "SELL"
            ELSE "HOLD"
    BY <2>1 DEF Ma!Crossover
  <2> QED BY <2>4, <2>5, <2>6, <2>7 DEF short, long
<1> QED BY <1>1, <1>2, <1>6, <1>7

LEMMA FeedSteps ==
    ASSUME TypeOK, NEW line \in Lines, Read(line), NEW spread
    PROVE  /\ MidsWithin(feed, spread) \in Seq(Nat)
           /\ MidsWithin(feed', spread) =
                  IF line.form = "tick" /\ line.spread <= spread
                  THEN Append(MidsWithin(feed, spread), line.mid)
                  ELSE MidsWithin(feed, spread)
           /\ NoHash(feed') => NoHash(feed) /\ line.form # "hash"
<1>1. feed \in Seq(Lines) /\ feed' = Append(feed, line)
  BY DEF TypeOK, Read
<1>2. /\ Len(feed') = Len(feed) + 1 /\ Len(feed) \in Nat
      /\ \A i \in 1 .. Len(feed) : feed'[i] = feed[i]
      /\ feed'[Len(feed) + 1] = line
      /\ DOMAIN feed = 1 .. Len(feed) /\ DOMAIN feed' = 1 .. Len(feed')
  BY <1>1, AppendProperties
<1>3. ASSUME NoHash(feed') PROVE NoHash(feed) /\ line.form # "hash"
  <2>1. \A i \in 1 .. (Len(feed) + 1) : feed'[i].form # "hash"
    BY <1>2, <1>3 DEF NoHash
  <2> QED BY <1>2, <2>1 DEF NoHash
<1>4. /\ MidsWithin(feed, spread) \in Seq(Nat)
      /\ MidsWithin(Append(feed, line), spread) =
             IF line.form = "tick" /\ line.spread <= spread
             THEN Append(MidsWithin(feed, spread), line.mid)
             ELSE MidsWithin(feed, spread)
  BY <1>1, MidsAppend
<1> QED BY <1>1, <1>3, <1>4

LEMMA MaCase ==
    ASSUME TypeOK, MaRemembers, NEW line \in Lines, Read(line), strategy = "ma", NoHash(feed'),
           \/ ~Parses(line) /\ order' = "none" /\ UNCHANGED maVars
           \/ Parses(line) /\ Ma!Next(line) /\ order' = BuildOrderCommand(signal')
    PROVE  LET mids == MidsWithin(feed, ma_max_spread)
               all == MidsWithin(feed', ma_max_spread)
           IN  /\ mid_prices' = AtMostLast(all, long_period + 5)
               /\ prev_short' = Ma!WindowSum(all, short_period)
               /\ prev_long' = Ma!WindowSum(all, long_period)
               /\ order' = Replayed(mids, all, Ma!Reference)
<1> DEFINE mids == MidsWithin(feed, ma_max_spread)
           all == MidsWithin(feed', ma_max_spread)
<1>1. /\ mids \in Seq(Nat)
      /\ all = IF line.form = "tick" /\ line.spread <= ma_max_spread
               THEN Append(mids, line.mid) ELSE mids
      /\ NoHash(feed) /\ line.form # "hash"
  BY FeedSteps
<1>2. /\ mid_prices = AtMostLast(mids, long_period + 5)
      /\ prev_short = Ma!WindowSum(mids, short_period)
      /\ prev_long = Ma!WindowSum(mids, long_period)
  BY <1>1 DEF MaRemembers
<1>3. line.form \in {"tick", "bad", "hash"} /\ line.mid \in Nat /\ line.spread \in Nat
      /\ ma_max_spread \in Nat
  BY LinesAssumption, ThresholdsAssumption
<1> HIDE DEF mids, all
<1>4. ASSUME all = mids, order' = "none", UNCHANGED maVars
      PROVE  /\ mid_prices' = AtMostLast(all, long_period + 5)
             /\ prev_short' = Ma!WindowSum(all, short_period)
             /\ prev_long' = Ma!WindowSum(all, long_period)
             /\ order' = Replayed(mids, all, Ma!Reference)
  BY <1>2, <1>4 DEF maVars, Replayed
<1>5. CASE ~Parses(line) /\ order' = "none" /\ UNCHANGED maVars
  <2>1. all = mids
    BY <1>1, <1>5 DEF Parses
  <2> QED BY <1>4, <1>5, <2>1 DEF mids, all
<1>6. CASE Ma!TooWide(line) /\ order' = BuildOrderCommand(signal')
  <2>1. all = mids
    BY <1>1, <1>3, <1>6 DEF Ma!TooWide
  <2>2. order' = "none" /\ UNCHANGED maVars
    BY <1>6 DEF Ma!TooWide, BuildOrderCommand, maVars
  <2> QED BY <1>4, <2>1, <2>2 DEF mids, all
<1>7. CASE Parses(line) /\ Ma!Cross(line) /\ order' = BuildOrderCommand(signal')
  <2>1. all = Append(mids, line.mid)
    BY <1>1, <1>3, <1>7 DEF Ma!Cross, Parses
  <2>2. mid_prices' = AtMostLast(all, long_period + 5)
    <3>1. Ma!Remember(mid_prices, line.mid) = AtMostLast(all, long_period + 5)
      BY <1>1, <1>2, <1>3, <2>1, RememberEnd
    <3> QED BY <1>7, <3>1 DEF Ma!Cross
  <2>3. /\ prev_short' = Ma!WindowSum(all, short_period)
        /\ prev_long' = Ma!WindowSum(all, long_period)
    <3> DEFINE k == long_period + 5
               e == AtMostLast(all, k)
    <3>1. /\ k \in Nat /\ short_period \in Nat /\ long_period \in Nat
          /\ short_period <= k /\ long_period <= k
      BY PeriodsAssumption
    <3>2. all \in Seq(Nat)
      BY <1>1, <1>3, <2>1, AppendProperties
    <3>3. mid_prices' = e
      BY <2>2
    <3> HIDE DEF k
    <3>4. /\ Ma!WindowSum(e, short_period) = Ma!WindowSum(all, short_period)
          /\ Ma!WindowSum(e, long_period) = Ma!WindowSum(all, long_period)
      BY <3>1, <3>2, EndHasWindows
    <3> QED BY <1>7, <3>3, <3>4 DEF Ma!Cross
  <2>4. order' = Replayed(mids, all, Ma!Reference)
    <3>1. Ma!Crossover(Ma!WindowSum(all, short_period), Ma!WindowSum(all, long_period))
            = Ma!Reference(all)
      BY <1>1, <1>2, <1>3, <2>1, CrossoverIsReference
    <3>2. signal' = Ma!Reference(all)
      BY <1>7, <2>3, <3>1 DEF Ma!Cross
    <3>3. Len(all) # Len(mids)
      BY <1>1, <1>3, <2>1, AppendProperties
    <3> QED BY <1>7, <3>2, <3>3, Zenon DEF Replayed
  <2> QED BY <2>2, <2>3, <2>4 DEF mids, all
<1> QED BY <1>5, <1>6, <1>7 DEF Ma!Next

MaReplayed ==
    strategy = "ma" /\ feed' # feed /\ NoHash(feed') =>
        order' = Replayed(MidsWithin(feed, ma_max_spread),
                          MidsWithin(feed', ma_max_spread), Ma!Reference)

LEMMA MaStep == TypeOK /\ MaRemembers /\ [Next]_vars => MaRemembers' /\ MaReplayed
<1> SUFFICES ASSUME TypeOK, MaRemembers, [Next]_vars
             PROVE  MaRemembers' /\ MaReplayed
  OBVIOUS
<1>1. CASE strategy' # "ma"
  <2>1. strategy # "ma"
    BY <1>1 DEF Next, OnBadLine, OnTickMa, OnTickSimple, Read, vars
  <2> QED BY <1>1, <2>1 DEF MaRemembers, MaReplayed
<1>2. CASE ~NoHash(feed')
  BY <1>2 DEF MaRemembers, MaReplayed, NoHash
<1>3. CASE UNCHANGED vars
  BY <1>3 DEF vars, maVars, MaRemembers, MaReplayed, NoHash, AtMostLast, Ma!LastOf, Ma!WindowSum
<1>4. ASSUME NEW line \in Lines, OnBadLine(line) \/ OnTickMa(line) \/ OnTickSimple(line),
             strategy' = "ma", NoHash(feed')
      PROVE  MaRemembers' /\ MaReplayed
  <2>1. /\ Read(line) /\ strategy = "ma"
        /\ \/ ~Parses(line) /\ order' = "none" /\ UNCHANGED maVars
           \/ Parses(line) /\ Ma!Next(line) /\ order' = BuildOrderCommand(signal')
    BY <1>4 DEF OnBadLine, OnTickMa, OnTickSimple, Read
  <2>2. /\ mid_prices' = AtMostLast(MidsWithin(feed', ma_max_spread), long_period + 5)
        /\ prev_short' = Ma!WindowSum(MidsWithin(feed', ma_max_spread), short_period)
        /\ prev_long' = Ma!WindowSum(MidsWithin(feed', ma_max_spread), long_period)
        /\ order' = Replayed(MidsWithin(feed, ma_max_spread),
                             MidsWithin(feed', ma_max_spread), Ma!Reference)
    BY <1>4, <2>1, MaCase
  <2> QED BY <2>2 DEF MaRemembers, MaReplayed
<1> QED BY <1>1, <1>2, <1>3, <1>4 DEF Next

SimpleReplayed ==
    strategy = "simple" /\ feed' # feed /\ NoHash(feed') =>
        order' = Replayed(MidsWithin(feed, simple_max_spread),
                          MidsWithin(feed', simple_max_spread), Simple!Reference)

LEMMA SimpleCase ==
    ASSUME TypeOK, SimpleRemembers, NEW line \in Lines, Read(line), strategy = "simple",
           NoHash(feed'),
           \/ ~Parses(line) /\ order' = "none" /\ UNCHANGED prev_mid
           \/ Parses(line) /\ Simple!Next(line) /\ order' = BuildOrderCommand(signal')
    PROVE  LET mids == MidsWithin(feed, simple_max_spread)
               all == MidsWithin(feed', simple_max_spread)
           IN  /\ prev_mid' = IF all = <<>> THEN Simple!None ELSE all[Len(all)]
               /\ order' = Replayed(mids, all, Simple!Reference)
<1> DEFINE mids == MidsWithin(feed, simple_max_spread)
           all == MidsWithin(feed', simple_max_spread)
           mid == line.mid
           n == Len(mids)
<1>1. /\ mids \in Seq(Nat)
      /\ all = IF line.form = "tick" /\ line.spread <= simple_max_spread
               THEN Append(mids, mid) ELSE mids
      /\ NoHash(feed) /\ line.form # "hash"
  BY FeedSteps
<1>2. prev_mid = IF mids = <<>> THEN Simple!None ELSE mids[n]
  BY <1>1 DEF SimpleRemembers
<1>3. /\ line.form \in {"tick", "bad", "hash"} /\ mid \in Nat /\ line.spread \in Nat
      /\ simple_max_spread \in Nat /\ momentum \in Nat
  BY LinesAssumption, ThresholdsAssumption
<1> HIDE DEF mids, all, mid
<1>4. ASSUME all = mids, order' = "none", UNCHANGED prev_mid
      PROVE  /\ prev_mid' = IF all = <<>> THEN Simple!None ELSE all[Len(all)]
             /\ order' = Replayed(mids, all, Simple!Reference)
  BY <1>2, <1>4 DEF Replayed
<1>5. CASE ~Parses(line) /\ order' = "none" /\ UNCHANGED prev_mid
  <2>1. all = mids
    BY <1>1, <1>5 DEF Parses
  <2> QED BY <1>4, <1>5, <2>1 DEF mids, all
<1>6. CASE Simple!TooWide(line) /\ order' = BuildOrderCommand(signal')
  <2>1. all = mids
    BY <1>1, <1>3, <1>6 DEF Simple!TooWide
  <2>2. order' = "none" /\ UNCHANGED prev_mid
    BY <1>6 DEF Simple!TooWide, BuildOrderCommand
  <2> QED BY <1>4, <2>1, <2>2 DEF mids, all
<1>7. CASE Parses(line) /\ Simple!Compare(line) /\ order' = BuildOrderCommand(signal')
  <2>1. all = Append(mids, mid)
    BY <1>1, <1>3, <1>7 DEF Simple!Compare, Parses
  <2>2. /\ Len(all) = n + 1 /\ n \in Nat /\ all # <<>> /\ all[n + 1] = mid
        /\ \A i \in 1 .. n : all[i] = mids[i]
    BY <1>1, <1>3, <2>1, AppendProperties
  <2>3. signal' = Simple!Momentum(prev_mid, mid) /\ prev_mid' = mid
    BY <1>7 DEF Simple!Compare, mid
  <2>4. signal' = Simple!Reference(all)
    <3>1. CASE n = 0
      <4>1. mids = <<>>
        BY <1>1, <3>1, EmptySeq
      <4> QED BY <1>2, <2>2, <2>3, <3>1, <4>1 DEF Simple!Momentum, Simple!Reference
    <3>2. CASE n > 0
      <4>1. prev_mid = mids[n] /\ mids[n] \in Nat /\ all[n] = mids[n]
        BY <1>1, <1>2, <2>2, <3>2
      <4>2. signal' = IF mid - mids[n] >= momentum THEN "BUY"
                      ELSE IF mid - mids[n] <= -momentum THEN "SELL" ELSE "HOLD"
        BY <2>3, <4>1 DEF Simple!Momentum, Simple!None
      <4>3. (n + 1) - 1 = n /\ ~(n + 1 < 2)
        BY <2>2, <3>2
      <4>4. Simple!Reference(all) =
                IF mid >= mids[n] + momentum THEN "BUY"
                ELSE IF mids[n] >= mid + momentum THEN "SELL" ELSE "HOLD"
        BY <2>2, <4>1, <4>3 DEF Simple!Reference
      <4> QED BY <1>3, <4>1, <4>2, <4>4
    <3> QED BY <2>2, <3>1, <3>2
  <2>5. order' = Replayed(mids, all, Simple!Reference)
    <3>1. Len(all) # Len(mids)
      BY <2>2
    <3> QED BY <1>7, <2>4, <3>1, Zenon DEF Replayed
  <2> QED BY <2>2, <2>3, <2>5 DEF mids, all
<1> QED BY <1>5, <1>6, <1>7 DEF Simple!Next

LEMMA SimpleStep ==
    TypeOK /\ SimpleRemembers /\ [Next]_vars => SimpleRemembers' /\ SimpleReplayed
<1> SUFFICES ASSUME TypeOK, SimpleRemembers, [Next]_vars
             PROVE  SimpleRemembers' /\ SimpleReplayed
  OBVIOUS
<1>1. CASE strategy' # "simple"
  <2>1. strategy # "simple"
    BY <1>1 DEF Next, OnBadLine, OnTickMa, OnTickSimple, Read, vars
  <2> QED BY <1>1, <2>1 DEF SimpleRemembers, SimpleReplayed
<1>2. CASE ~NoHash(feed')
  BY <1>2 DEF SimpleRemembers, SimpleReplayed, NoHash
<1>3. CASE UNCHANGED vars
  BY <1>3 DEF vars, SimpleRemembers, SimpleReplayed, NoHash
<1>4. ASSUME NEW line \in Lines, OnBadLine(line) \/ OnTickMa(line) \/ OnTickSimple(line),
             strategy' = "simple", NoHash(feed')
      PROVE  SimpleRemembers' /\ SimpleReplayed
  <2>1. /\ Read(line) /\ strategy = "simple"
        /\ \/ ~Parses(line) /\ order' = "none" /\ UNCHANGED prev_mid
           \/ Parses(line) /\ Simple!Next(line) /\ order' = BuildOrderCommand(signal')
    BY <1>4 DEF OnBadLine, OnTickMa, OnTickSimple, Read
  <2> DEFINE mids == MidsWithin(feed, simple_max_spread)
             all == MidsWithin(feed', simple_max_spread)
  <2>2. /\ prev_mid' = IF all = <<>> THEN Simple!None ELSE all[Len(all)]
        /\ order' = Replayed(mids, all, Simple!Reference)
    BY <1>4, <2>1, SimpleCase
  <2> QED BY <2>2 DEF SimpleRemembers, SimpleReplayed
<1> QED BY <1>1, <1>2, <1>3, <1>4 DEF Next

-----------------------------------------------------------------------------
(* The theorems.                                                           *)

LEMMA Invariance == Spec => []IInv
<1>1. IInv /\ [Next]_vars => IInv'
  BY TypeStep, SideStep, MaStep, SimpleStep DEF IInv
<1> QED BY <1>1, InvInit, PTL DEF Spec

\* The deque stays within its limit and a sum is a number or None, for feeds of any
\* length.
THEOREM TypeCorrect == Spec => []TypeOK
<1>1. IInv => TypeOK
  BY DEF IInv
<1> QED BY <1>1, Invariance, PTL

\* Whenever the short average is strictly over the long one after it was last strictly
\* under it, or the other way round, that line gives the order.
THEOREM CrossingsSignalled == Spec => NoCrossingMissed
<1>1. IInv /\ [Next]_vars => [CrossingSignalled]_vars
  BY SideStep DEF IInv
<1>2. Spec => [][CrossingSignalled]_vars
  BY <1>1, Invariance, PTL DEF Spec
<1> QED BY <1>2 DEF NoCrossingMissed, CrossingSignalled

\* The moving-average strategy, which keeps a bounded deque and two sums, sends the
\* orders that a backtest finds in the averages of all recorded prices.
THEOREM MaOrdersReplayed == Spec => MaTradesAreReplayed
<1>1. IInv /\ [Next]_vars => [MaReplayed]_vars
  BY MaStep DEF IInv
<1>2. Spec => [][MaReplayed]_vars
  BY <1>1, Invariance, PTL DEF Spec
<1> QED BY <1>2 DEF MaTradesAreReplayed, MaReplayed

\* The simple strategy sends the orders that a backtest finds in neighbouring recorded
\* prices.
THEOREM SimpleOrdersReplayed == Spec => SimpleTradesAreReplayed
<1>1. IInv /\ [Next]_vars => [SimpleReplayed]_vars
  BY SimpleStep DEF IInv
<1>2. Spec => [][SimpleReplayed]_vars
  BY <1>1, Invariance, PTL DEF Spec
<1> QED BY <1>2 DEF SimpleTradesAreReplayed, SimpleReplayed
=============================================================================
