-------------------------- MODULE TradeLogProofs --------------------------
(***************************************************************************)
(* Proofs about TradeLog, for any number of days, rows and interrupted     *)
(* appends.                                                                *)
(*                                                                         *)
(* A summary counts lines, the properties speak of rows.  Counted gives    *)
(* the difference, for each layout: a file that lost its header to an      *)
(* interrupted append loses its first row to csv.DictReader.  Dated says   *)
(* that with no such file the dates of a summary are those of the rows.    *)
(***************************************************************************)
EXTENDS TradeLog, FoldLemmas, SequenceTheorems

\* What output_pnl_summary counts, and the dates it finds.
Counts(perDay) == [name \in Of(perDay) |-> RowCount(files[name])]
Count(perDay)  == SumFunction(Counts(perDay))
Dated(perDay)  == UNION {Dates(files[name]) : name \in Of(perDay)}
DatesWritten(perDay) == {written[perDay][i] : i \in DOMAIN written[perDay]}

\* The files without a header, and those whose first row is taken for one.
Bare == {name \in DOMAIN files : files[name] = <<>> \/ files[name][1] # Header}
Lost(perDay) == {name \in Of(perDay) : files[name] # <<>> /\ files[name][1] # Header}

Counted ==
    /\ \A perDay \in BOOLEAN : Rows(perDay) = Count(perDay) + Cardinality(Lost(perDay))
    /\ Cardinality(Bare) <= faults

DatesKept == faults = 0 => \A perDay \in BOOLEAN : Dated(perDay) = DatesWritten(perDay)

IInv == TypeOK /\ HeaderOnce /\ Counted /\ DatesKept

\* No row is taken for a header.
LEMMA RowIsNoHeader == Header \notin Stamps /\ None \notin Stamps
BY DEF Header, None, Stamps

\* A line after a good file, and after a header, makes a good file.
LEMMA AppendGood ==
    ASSUME NEW S, NEW h \in S, NEW s \in Seq(S), \A i \in DOMAIN s : s[i] = h => i = 1,
           NEW e \in S, e # h
    PROVE  /\ s \o <<>> \o <<e>> \in Seq(S)
           /\ \A i \in DOMAIN (s \o <<>> \o <<e>>) : (s \o <<>> \o <<e>>)[i] = h => i = 1
<1>1. s \o <<>> = s /\ s \o <<e>> = Append(s, e)
  OBVIOUS
<1>2. /\ Append(s, e) \in Seq(S)
      /\ \A i \in DOMAIN Append(s, e) : Append(s, e)[i] = h => i = 1
  OBVIOUS
<1> QED BY <1>1, <1>2

-----------------------------------------------------------------------------
(* The order of the dates.                                                 *)

LEMMA YearBounds ==
    ASSUME NEW a \in Stamps
    PROVE  /\ Year(a) \in Nat /\ Year(a) <= MaxDay
           /\ a.day \in Nat /\ a.day <= MaxDay
<1>1. a.day \in Nat /\ a.day <= MaxDay /\ YearLength \in Nat \ {0} /\ MaxDay \in Nat
  BY NumbersAssumption DEF Stamps, Days
<1>2. a.day \div YearLength \in Nat /\ a.day \div YearLength <= a.day
  BY <1>1
<1> QED BY <1>1, <1>2 DEF Year

\* A later year has later days.
LEMMA YearsInOrder ==
    ASSUME NEW a \in Stamps, NEW b \in Stamps, Year(a) < Year(b)
    PROVE  a.day < b.day
<1>1. a.day \in Nat /\ b.day \in Nat /\ YearLength \in Nat \ {0}
  BY YearBounds, NumbersAssumption
<1>2. b.day <= a.day => b.day \div YearLength <= a.day \div YearLength
  BY <1>1
<1>3. a.day \div YearLength \in Nat /\ b.day \div YearLength \in Nat
  BY <1>1
<1> QED BY <1>1, <1>2, <1>3 DEF Year

\* Dates have a first one.
LEMMA LeastExists ==
    ASSUME NEW S \in SUBSET Stamps, S # {}
    PROVE  /\ Least(S) \in S
           /\ \A b \in S : AtMost(Least(S), b)
<1>1. PICK y \in {Year(a) : a \in S} : \A z \in {Year(a) : a \in S} : y <= z
  <2> DEFINE N == {Year(a) : a \in S}
  <2>1. N \in SUBSET Nat /\ N # {}
    BY YearBounds
  <2> HIDE DEF N
  <2>2. \E y \in N : \A z \in N : y <= z
    BY <2>1, LeastNumber
  <2> QED BY <2>2 DEF N
<1>2. \A b \in S : Year(b) \in Nat /\ y <= Year(b)
  BY <1>1, YearBounds
<1>3. PICK sep \in {"-", "."} :
          /\ \E a \in S : Year(a) = y /\ a.sep = sep
          /\ \A b \in S : Year(b) = y => sep = "-" \/ b.sep = sep
  BY <1>1 DEF Stamps
<1> DEFINE T == {a \in S : Year(a) = y /\ a.sep = sep}
<1>4. PICK a \in T : \A b \in T : a.day <= b.day
  <2> DEFINE N == {a.day : a \in T}
  <2>1. N \in SUBSET Nat /\ N # {}
    BY <1>3, YearBounds
  <2>2. PICK d \in N : \A e \in N : d <= e
    <3> HIDE DEF N
    <3> QED BY <2>1, LeastNumber
  <2> QED BY <2>2
<1>5. ASSUME NEW b \in S PROVE AtMost(a, b)
  <2>1. CASE Year(b) # y
    BY <1>2, <2>1 DEF AtMost
  <2>2. CASE Year(b) = y /\ b.sep = sep
    BY <1>4, <2>2 DEF AtMost
  <2>3. CASE Year(b) = y /\ b.sep # sep
    BY <1>3, <2>3 DEF AtMost
  <2> QED BY <2>1, <2>2, <2>3
<1>6. \E c \in S : \A b \in S : AtMost(c, b)
  BY <1>5
<1> QED BY <1>6 DEF Least

\* And a last one.
LEMMA GreatestExists ==
    ASSUME NEW S \in SUBSET Stamps, S # {}
    PROVE  /\ Greatest(S) \in S
           /\ \A b \in S : AtMost(b, Greatest(S))
<1>0. MaxDay \in Nat
  BY NumbersAssumption
<1>1. PICK y \in {Year(a) : a \in S} : \A z \in {Year(a) : a \in S} : z <= y
  <2> DEFINE N == {Year(a) : a \in S}
  <2>1. N \in SUBSET (0 .. MaxDay) /\ N # {}
    BY <1>0, YearBounds
  <2> HIDE DEF N
  <2>2. \E y \in N : \A z \in N : z <= y
    BY <1>0, <2>1, GreatestNumber
  <2> QED BY <2>2 DEF N
<1>2. \A b \in S : Year(b) \in Nat /\ Year(b) <= y
  BY <1>1, YearBounds
<1>3. PICK sep \in {"-", "."} :
          /\ \E a \in S : Year(a) = y /\ a.sep = sep
          /\ \A b \in S : Year(b) = y => sep = "." \/ b.sep = sep
  BY <1>1 DEF Stamps
<1> DEFINE T == {a \in S : Year(a) = y /\ a.sep = sep}
<1>4. PICK a \in T : \A b \in T : b.day <= a.day
  <2> DEFINE N == {a.day : a \in T}
  <2>1. N \in SUBSET (0 .. MaxDay) /\ N # {}
    BY <1>0, <1>3, YearBounds
  <2>2. PICK d \in N : \A e \in N : e <= d
    <3> HIDE DEF N
    <3> QED BY <1>0, <2>1, GreatestNumber
  <2> QED BY <2>2
<1>5. ASSUME NEW b \in S PROVE AtMost(b, a)
  <2>1. CASE Year(b) # y
    BY <1>2, <2>1 DEF AtMost
  <2>2. CASE Year(b) = y /\ b.sep = sep
    BY <1>4, <2>2 DEF AtMost
  <2>3. CASE Year(b) = y /\ b.sep # sep
    BY <1>3, <2>3 DEF AtMost, Stamps
  <2> QED BY <2>1, <2>2, <2>3
<1>6. \E c \in S : \A b \in S : AtMost(b, c)
  BY <1>5
<1> QED BY <1>6 DEF Greatest

\* Dates of one clock are in the order of their days.
LEMMA OneClockOrder ==
    ASSUME NEW a \in Stamps, NEW b \in Stamps, a.sep = b.sep, AtMost(a, b)
    PROVE  a.day <= b.day
<1>1. a.day \in Nat /\ b.day \in Nat /\ Year(a) \in Nat /\ Year(b) \in Nat
  BY YearBounds
<1>2. CASE Year(a) = Year(b)
  BY <1>2 DEF AtMost
<1>3. CASE Year(a) < Year(b)
  BY <1>1, <1>3, YearsInOrder
<1> QED BY <1>1, <1>2, <1>3 DEF AtMost

-----------------------------------------------------------------------------
(* Writing to files.                                                       *)

LEMMA FilesFinite ==
    ASSUME TypeOK, NEW perDay \in BOOLEAN
    PROVE  /\ IsFiniteSet(Of(perDay)) /\ IsFiniteSet(Bare) /\ IsFiniteSet(Lost(perDay))
           /\ Counts(perDay) \in [Of(perDay) -> Nat]
           /\ Lost(perDay) \subseteq Bare
           /\ Count(perDay) \in Nat
<1>1. IsFiniteSet(Names)
  <2>1. IsFiniteSet(Days)
    BY NumbersAssumption, FS_Interval DEF Days
  <2>2. IsFiniteSet(BOOLEAN)
    <3>1. IsFiniteSet({}) /\ IsFiniteSet({} \cup {TRUE})
      BY FS_EmptySet, FS_AddElement
    <3>2. IsFiniteSet(({} \cup {TRUE}) \cup {FALSE})
      BY <3>1, FS_AddElement
    <3>3. BOOLEAN = ({} \cup {TRUE}) \cup {FALSE}
      OBVIOUS
    <3> QED BY <3>2, <3>3
  <2> QED BY <2>1, <2>2, FS_Product DEF Names
<1>2. /\ Of(perDay) \in SUBSET Names /\ Bare \in SUBSET Names
      /\ Lost(perDay) \in SUBSET Names
  BY DEF TypeOK, Of, Bare, Lost
<1>3. Counts(perDay) \in [Of(perDay) -> Nat]
  <2>1. ASSUME NEW name \in Of(perDay) PROVE RowCount(files[name]) \in Nat
    BY DEF TypeOK, Of, RowCount
  <2> QED BY <2>1 DEF Counts
<1>4. IsFiniteSet(Of(perDay)) /\ IsFiniteSet(Bare) /\ IsFiniteSet(Lost(perDay))
  BY <1>1, <1>2, FS_Subset
<1>5. Count(perDay) \in Nat
  BY <1>3, <1>4, SumsExist DEF Count, SumFunction
<1> QED BY <1>3, <1>4, <1>5 DEF Of, Bare, Lost

\* Writing to a file changes the count of its layout, by the rows it gains.
LEMMA WriteFacts ==
    ASSUME TypeOK, NEW name \in Names, NEW lines \in Seq(Stamps \cup {Header}),
           NEW perDay \in BOOLEAN, name[1] = perDay,
           files' = Write(name, lines)
    PROVE  /\ DOMAIN files' = DOMAIN files \cup {name}
           /\ \A n \in DOMAIN files' : files'[n] = IF n = name THEN lines ELSE files[n]
           /\ Count(perDay) \in Nat
           /\ Count(perDay)' = Count(perDay) + RowCount(lines) - RowCount(Lines(name))
<1>1. /\ DOMAIN files' = DOMAIN files \cup {name}
      /\ \A n \in DOMAIN files' : files'[n] = IF n = name THEN lines ELSE files[n]
  BY DEF Write
<1>2. Of(perDay)' = Of(perDay) \cup {name}
  BY <1>1 DEF Of
<1>3. RowCount(lines) \in Nat
  BY DEF RowCount
<1>4. IsFiniteSet(Of(perDay)) /\ Counts(perDay) \in [Of(perDay) -> Nat]
  BY FilesFinite
<1>5. /\ SumFunction(Counts(perDay)) \in Nat
      /\ SumFunction(Counts(perDay)') = SumFunction(Counts(perDay)) + RowCount(lines)
              - (IF name \in Of(perDay) THEN Counts(perDay)[name] ELSE 0)
  <2> DEFINE g == Counts(perDay)'
             f == Counts(perDay)
             D == Of(perDay)
             v == RowCount(lines)
  <2>1. /\ DOMAIN g = D \cup {name}
        /\ \A n \in D \cup {name} : g[n] = IF n = name THEN v ELSE f[n]
    <3>1. g = [n \in D \cup {name} |-> RowCount(files'[n])]
      BY <1>2 DEF Counts, RowCount
    <3>2. ASSUME NEW n \in D \cup {name} PROVE g[n] = IF n = name THEN v ELSE f[n]
      <4>1. g[n] = RowCount(files'[n]) /\ n \in DOMAIN files'
        BY <1>1, <3>1 DEF Of
      <4>2. n # name => f[n] = RowCount(files[n])
        BY DEF Counts
      <4> QED BY <1>1, <4>1, <4>2
    <3> QED BY <3>1, <3>2
  <2>2. v \in Nat /\ IsFiniteSet(D) /\ f \in [D -> Nat]
    BY <1>3, <1>4
  <2> HIDE DEF g, f, D, v
  <2>3. /\ SumFunction(f) \in Nat
        /\ SumFunction(g) = SumFunction(f) + v - (IF name \in D THEN f[name] ELSE 0)
    <3>1. Put(g, f, D, name, v)
      BY <2>1, <2>2 DEF Put
    <3> QED BY <2>2, <3>1, SumPut
  <2> QED BY <2>3 DEF g, f, D, v
<1>6. (IF name \in Of(perDay) THEN Counts(perDay)[name] ELSE 0) = RowCount(Lines(name))
  BY DEF Of, Counts, Lines, RowCount
<1>7. Count(perDay)' = SumFunction(Counts(perDay)')
  BY DEF Count
<1> QED BY <1>1, <1>5, <1>6, <1>7 DEF Count

\* And no other layout sees it.
LEMMA OtherLayout ==
    ASSUME TypeOK, NEW name \in Names, NEW lines, NEW perDay \in BOOLEAN, name[1] # perDay,
           files' = Write(name, lines)
    PROVE  /\ Count(perDay)' = Count(perDay)
           /\ Lost(perDay)' = Lost(perDay)
           /\ Dated(perDay)' = Dated(perDay)
<1>1. /\ DOMAIN files' = DOMAIN files \cup {name}
      /\ \A n \in DOMAIN files' : files'[n] = IF n = name THEN lines ELSE files[n]
  BY DEF Write
<1>2. Of(perDay)' = Of(perDay)
  BY <1>1 DEF Of
<1>3. \A n \in Of(perDay) : files'[n] = files[n]
  BY <1>1 DEF Of
<1>4. Counts(perDay)' = Counts(perDay)
  <2>1. Counts(perDay)' = [n \in Of(perDay) |-> RowCount(files'[n])]
    BY <1>2 DEF Counts, RowCount
  <2>2. \A n \in Of(perDay) : RowCount(files'[n]) = RowCount(files[n])
    BY <1>3
  <2> QED BY <2>1, <2>2 DEF Counts
<1>5. Lost(perDay)' = Lost(perDay)
  BY <1>2, <1>3 DEF Lost
<1>6. Dated(perDay)' = Dated(perDay)
  <2>1. Dated(perDay)' = UNION {Dates(files'[n]) : n \in Of(perDay)}
    BY <1>2 DEF Dated, Dates
  <2>2. \A n \in Of(perDay) : Dates(files'[n]) = Dates(files[n])
    BY <1>3
  <2> QED BY <2>1, <2>2 DEF Dated
<1> QED BY <1>4, <1>5, <1>6 DEF Count

\* What append_trade_result makes of the lines of a file.
Appended(name, r) == Lines(name) \o NewHeader(name) \o <<r>>

LEMMA AppendedLines ==
    ASSUME TypeOK, HeaderOnce, NEW r \in Stamps, NEW name \in Names,
           NEW lines, lines = Appended(name, r)
    PROVE  /\ lines \in Seq(Stamps \cup {Header})
           /\ \A i \in DOMAIN lines : lines[i] = Header => i = 1
           /\ lines # <<>>
           /\ name \notin DOMAIN files => Len(lines) = 2 /\ lines[1] = Header /\ lines[2] = r
           /\ name \in DOMAIN files => lines = Append(files[name], r)
<1>1. r # Header /\ r \in Stamps \cup {Header}
  BY RowIsNoHeader
<1>2. CASE name \in DOMAIN files
  <2> DEFINE old == files[name]
             S == Stamps \cup {Header}
  <2>1. /\ old \in Seq(S) /\ Header \in S /\ r \in S
        /\ \A i \in DOMAIN old : old[i] = Header => i = 1
        /\ lines = old \o <<>> \o <<r>>
    BY <1>1, <1>2 DEF TypeOK, HeaderOnce, Appended, Lines, NewHeader
  <2>2. /\ lines \in Seq(S)
        /\ \A i \in DOMAIN lines : lines[i] = Header => i = 1
    <3> HIDE DEF old, S
    <3> QED BY <1>1, <2>1, AppendGood
  <2>3. lines = Append(old, r) /\ Append(old, r) # <<>>
    <3>1. old \o <<>> = old
      BY <2>1, ConcatEmptySeq
    <3> HIDE DEF old
    <3> QED BY <2>1, <3>1, AppendIsConcat, AppendProperties
  <2> QED BY <1>2, <2>2, <2>3
<1>3. CASE name \notin DOMAIN files
  <2> DEFINE S == Stamps \cup {Header}
             h == Header
  <2>1. lines = <<>> \o <<h>> \o <<r>> /\ h \in S /\ r \in S /\ r # h
    BY <1>1, <1>3 DEF Appended, Lines, NewHeader
  <2>2. /\ lines \in Seq(S) /\ lines # <<>>
        /\ Len(lines) = 2 /\ lines[1] = h /\ lines[2] = r
        /\ \A i \in DOMAIN lines : lines[i] = h => i = 1
    <3> HIDE DEF h, S
    <3>1. <<h>> \in Seq(S) /\ <<r>> \in Seq(S) /\ <<>> \o <<h>> = <<h>>
      BY <2>1
    <3>2. <<h>> \o <<r>> \in Seq(S) /\ Len(<<h>> \o <<r>>) = 2
          /\ (<<h>> \o <<r>>)[1] = h /\ (<<h>> \o <<r>>)[2] = r
      BY <2>1, <3>1
    <3>3. lines = <<h>> \o <<r>>
      BY <2>1, <3>1
    <3>4. /\ lines \in Seq(S) /\ Len(lines) = 2 /\ lines[1] = h /\ lines[2] = r
      BY <3>2, <3>3
    <3>5. DOMAIN lines = 1 .. 2 /\ lines # <<>>
      BY <3>4
    <3>6. \A i \in 1 .. 2 : lines[i] = h => i = 1
      <4>1. \A i \in 1 .. 2 : i = 1 \/ i = 2
        OBVIOUS
      <4> QED BY <2>1, <3>4, <4>1
    <3> QED BY <3>4, <3>5, <3>6
  <2> QED BY <1>3, <2>2
<1> QED BY <1>2, <1>3

\* What those lines are for the summary.
LEMMA AppendedRows ==
    ASSUME TypeOK, HeaderOnce, NEW r \in Stamps, NEW name \in Names,
           NEW lines, lines = Appended(name, r)
    PROVE  /\ RowCount(Lines(name)) \in Nat
           /\ RowCount(lines) = IF (name \in Bare /\ Lines(name) = <<>>) THEN RowCount(Lines(name))
                                ELSE RowCount(Lines(name)) + 1
           /\ lines[1] # Header <=> name \in Bare
           /\ name \notin Bare => Dates(lines) = Dates(Lines(name)) \cup {r}
<1>1. r # Header
  BY RowIsNoHeader
<1>2. /\ lines \in Seq(Stamps \cup {Header}) /\ lines # <<>>
      /\ name \notin DOMAIN files => Len(lines) = 2 /\ lines[1] = Header /\ lines[2] = r
      /\ name \in DOMAIN files => lines = Append(files[name], r)
  BY AppendedLines
<1>3. CASE name \notin DOMAIN files
  <2>1. Lines(name) = <<>> /\ name \notin Bare
    BY <1>3 DEF Lines, Bare
  <2>2. RowCount(lines) = 1 /\ RowCount(Lines(name)) = 0
    BY <1>2, <1>3, <2>1 DEF RowCount
  <2>3. Dates(lines) = {r} /\ Dates(Lines(name)) = {}
    <3>1. DOMAIN lines = 1 .. 2
      BY <1>2, <1>3
    <3> QED BY <1>2, <1>3, <2>1, <3>1 DEF Dates
  <2> QED BY <1>2, <1>3, <2>1, <2>2, <2>3
<1>4. CASE name \in DOMAIN files /\ files[name] = <<>>
  <2>1. lines = <<r>> /\ Lines(name) = <<>> /\ (name \in Bare /\ Lines(name) = <<>>)
    BY <1>2, <1>4 DEF Lines, Bare, Lost
  <2> QED BY <1>1, <2>1 DEF RowCount
<1>5. CASE name \in DOMAIN files /\ files[name] # <<>>
  <2> DEFINE old == files[name]
  <2>1. /\ old \in Seq(Stamps \cup {Header}) /\ old # <<>> /\ lines = Append(old, r)
        /\ Lines(name) = old
        /\ name \in Bare <=> old[1] # Header
    BY <1>2, <1>5 DEF TypeOK, Lines, Bare
  <2> HIDE DEF old
  <2>2. /\ Len(lines) = Len(old) + 1 /\ Len(old) \in Nat \ {0}
        /\ \A i \in 1 .. Len(old) : lines[i] = old[i]
        /\ lines[Len(old) + 1] = r
        /\ DOMAIN lines = 1 .. (Len(old) + 1) /\ DOMAIN old = 1 .. Len(old)
    BY <2>1, EmptySeq
  <2>3. RowCount(lines) = RowCount(old) + 1 /\ RowCount(old) \in Nat
    <3>1. lines # <<>>
      BY <1>2
    <3> QED BY <2>1, <2>2, <3>1 DEF RowCount
  <2>4. lines[1] = old[1]
    BY <2>2
  <2>5. ASSUME old[1] = Header PROVE Dates(lines) = Dates(old) \cup {r}
    <3>1. Dates(lines) = {lines[i] : i \in {j \in 1 .. (Len(old) + 1) : j > 1}}
      BY <2>2, <2>4, <2>5 DEF Dates
    <3>2. Dates(old) = {old[i] : i \in {j \in 1 .. Len(old) : j > 1}}
      BY <2>2, <2>5 DEF Dates
    <3>3. {j \in 1 .. (Len(old) + 1) : j > 1}
              = {j \in 1 .. Len(old) : j > 1} \cup {Len(old) + 1}
      BY <2>2
    <3>4. Len(old) + 1 \notin 1 .. Len(old)
      BY <2>2
    <3>5. {lines[i] : i \in {j \in 1 .. Len(old) : j > 1}} = Dates(old)
      BY <2>2, <3>2
    <3> QED BY <2>2, <3>1, <3>3, <3>5
  <2> QED BY <2>1, <2>3, <2>4, <2>5
<1> QED BY <1>3, <1>4, <1>5

\* Writing good lines to one file leaves all files good.
LEMMA WriteKeeps ==
    ASSUME TypeOK, HeaderOnce, NEW name \in Names, NEW lines \in Seq(Stamps \cup {Header}),
           \A i \in DOMAIN lines : lines[i] = Header => i = 1,
           files' = Write(name, lines)
    PROVE  /\ DOMAIN files' \subseteq Names
           /\ \A d \in DOMAIN files' : files'[d] \in Seq(Stamps \cup {Header})
           /\ HeaderOnce'
<1>1. DOMAIN files' = DOMAIN files \cup {name}
  BY DEF Write
<1>2. ASSUME NEW d \in DOMAIN files'
      PROVE  files'[d] = IF d = name THEN lines ELSE files[d]
  BY <1>1 DEF Write
<1>3. ASSUME NEW d \in DOMAIN files', d # name
      PROVE  d \in DOMAIN files /\ files'[d] = files[d]
  BY <1>1, <1>2, <1>3
<1>4. HeaderOnce'
  BY <1>2, <1>3 DEF HeaderOnce
<1> QED BY <1>1, <1>2, <1>3, <1>4 DEF TypeOK

-----------------------------------------------------------------------------
(* The invariant.                                                          *)

\* The row in hand and the file it goes to.
LEMMA RowAndPath ==
    ASSUME TypeOK, row # NoRow
    PROVE  /\ row.stamp \in Stamps /\ row.perDay \in BOOLEAN
           /\ Path(row.perDay) \in Names /\ Path(row.perDay)[1] = row.perDay
<1>1. row \in InHand
  BY DEF TypeOK
<1>2. row.stamp \in Stamps /\ row.perDay \in BOOLEAN
  BY <1>1 DEF InHand
<1>3. today \in Days /\ 0 \in Days
  BY NumbersAssumption DEF TypeOK, Days
<1>4. CASE row.perDay = TRUE
  BY <1>2, <1>3, <1>4 DEF Path, Names
<1>5. CASE row.perDay = FALSE
  BY <1>2, <1>3, <1>5 DEF Path, Names
<1> QED BY <1>2, <1>4, <1>5

LEMMA AppendStep ==
    ASSUME IInv, AppendTradeResult
    PROVE  IInv'
<1>0. row # NoRow
  BY DEF AppendTradeResult
<1>00. PICK b \in BOOLEAN : b = row.perDay
  BY <1>0, RowAndPath DEF IInv
<1> DEFINE stamp == row.stamp
           name  == Path(b)
           lines == Appended(name, stamp)
<1>1. /\ TypeOK /\ HeaderOnce /\ Counted /\ DatesKept
      /\ stamp \in Stamps /\ b \in BOOLEAN /\ name \in Names /\ name[1] = b
  BY <1>0, <1>00, RowAndPath DEF IInv
<1>2. /\ files' = Write(name, lines) /\ row' = NoRow /\ faults' = faults
      /\ written' = [written EXCEPT ![b] = Append(@, stamp)]
      /\ UNCHANGED <<file_per_day, today, summary>>
  BY <1>00 DEF AppendTradeResult, Appended
<1> HIDE DEF stamp, name, lines
<1>3. /\ lines \in Seq(Stamps \cup {Header}) /\ lines # <<>>
      /\ \A i \in DOMAIN lines : lines[i] = Header => i = 1
  BY <1>1, AppendedLines DEF lines
<1>4. /\ RowCount(Lines(name)) \in Nat
      /\ RowCount(lines) = IF name \in Bare /\ Lines(name) = <<>> THEN RowCount(Lines(name))
                           ELSE RowCount(Lines(name)) + 1
      /\ lines[1] # Header <=> name \in Bare
      /\ name \notin Bare => Dates(lines) = Dates(Lines(name)) \cup {stamp}
  BY <1>1, AppendedRows DEF lines
<1>5. /\ DOMAIN files' = DOMAIN files \cup {name}
      /\ \A n \in DOMAIN files' : files'[n] = IF n = name THEN lines ELSE files[n]
      /\ Count(b) \in Nat
      /\ Count(b)' = Count(b) + RowCount(lines) - RowCount(Lines(name))
  BY <1>1, <1>2, <1>3, WriteFacts
<1>6. \A n : n # name => /\ (n \in DOMAIN files' <=> n \in DOMAIN files)
                        /\ (n \in DOMAIN files => files'[n] = files[n])
  BY <1>5
<1>7. name \in DOMAIN files' /\ files'[name] = lines
  BY <1>5
<1>8. Bare' = Bare
  <2>1. \A n : n # name => (n \in Bare' <=> n \in Bare)
    BY <1>6 DEF Bare
  <2>2. name \in Bare' <=> name \in Bare
    BY <1>3, <1>4, <1>7 DEF Bare
  <2> QED BY <2>1, <2>2
<1>9. Lost(b)' = Lost(b) \cup (Bare \cap {name})
  <2>1. \A n : n # name => (n \in Lost(b)' <=> n \in Lost(b))
    BY <1>6 DEF Lost, Of
  <2>2. name \in Lost(b)' <=> name \in Bare
    BY <1>1, <1>3, <1>4, <1>7 DEF Lost, Of
  <2>3. name \in Lost(b) => name \in Bare
    BY <1>1, FilesFinite
  <2> QED BY <2>1, <2>2, <2>3
<1>10. name \in Lost(b) <=> name \in Bare /\ Lines(name) # <<>>
  BY <1>1 DEF Lost, Of, Bare, Lines
<1>11. ASSUME NEW c \in BOOLEAN, c # b
       PROVE  /\ Count(c)' = Count(c) /\ Lost(c)' = Lost(c) /\ Dated(c)' = Dated(c)
              /\ written'[c] = written[c]
  <2>1. name[1] # c
    BY <1>1, <1>11
  <2>2. written'[c] = written[c]
    BY <1>1, <1>2, <1>11 DEF TypeOK
  <2> QED BY <1>1, <1>2, <2>1, <2>2, OtherLayout
<1>12. /\ written[b] \in Seq(Stamps) /\ written'[b] = Append(written[b], stamp)
       /\ written' \in [BOOLEAN -> Seq(Stamps)]
  <2>1. written \in [BOOLEAN -> Seq(Stamps)]
    BY <1>1 DEF TypeOK
  <2>2. written[b] \in Seq(Stamps) /\ Append(written[b], stamp) \in Seq(Stamps)
    BY <1>1, <2>1
  <2> QED BY <1>1, <1>2, <2>1, <2>2
<1>13. Counted'
  <2>1. /\ IsFiniteSet(Lost(b)) /\ Cardinality(Lost(b)) \in Nat
        /\ Rows(b) = Count(b) + Cardinality(Lost(b))
    BY <1>1, FilesFinite, FS_CardinalityType DEF Counted
  <2>2. Rows(b)' = Rows(b) + 1 /\ Rows(b) \in Nat
    BY <1>12 DEF Rows
  <2>3. ASSUME name \in Bare, Lines(name) = <<>>
        PROVE  Rows(b)' = Count(b)' + Cardinality(Lost(b)')
    <3>1. Lost(b)' = Lost(b) \cup {name} /\ name \notin Lost(b)
      BY <1>9, <1>10, <2>3
    <3>2. Cardinality(Lost(b)') = Cardinality(Lost(b)) + 1
      BY <2>1, <3>1, FS_AddElement
    <3>3. Count(b)' = Count(b)
      BY <1>4, <1>5, <2>3
    <3> QED BY <1>5, <2>1, <2>2, <3>2, <3>3
  <2>4. ASSUME ~(name \in Bare /\ Lines(name) = <<>>)
        PROVE  Rows(b)' = Count(b)' + Cardinality(Lost(b)')
    <3>1. Lost(b)' = Lost(b)
      BY <1>9, <1>10, <2>4
    <3>2. Count(b)' = Count(b) + 1
      BY <1>4, <1>5, <2>4
    <3> QED BY <1>5, <2>1, <2>2, <3>1, <3>2
  <2>5. Rows(b)' = Count(b)' + Cardinality(Lost(b)')
    BY <2>3, <2>4
  <2>6. ASSUME NEW c \in BOOLEAN PROVE Rows(c)' = Count(c)' + Cardinality(Lost(c)')
    <3>1. CASE c = b
      BY <2>5, <3>1
    <3>2. CASE c # b
      <4>1. Rows(c)' = Rows(c)
        BY <1>11, <3>2 DEF Rows
      <4>2. Rows(c) = Count(c) + Cardinality(Lost(c))
        BY <1>1 DEF Counted
      <4> QED BY <1>11, <3>2, <4>1, <4>2
    <3> QED BY <3>1, <3>2
  <2>7. Cardinality(Bare') <= faults'
    BY <1>1, <1>2, <1>8 DEF Counted
  <2> QED BY <2>6, <2>7 DEF Counted
<1>14. DatesKept'
  <2> SUFFICES ASSUME faults = 0, NEW c \in BOOLEAN
               PROVE  Dated(c)' = DatesWritten(c)'
    BY <1>2 DEF DatesKept
  <2>1. Dated(c) = DatesWritten(c)
    BY <1>1 DEF DatesKept
  <2>2. CASE c # b
    <3>1. DatesWritten(c)' = DatesWritten(c)
      BY <1>11, <2>2 DEF DatesWritten
    <3> QED BY <1>11, <2>1, <2>2, <3>1
  <2>3. CASE c = b
    <3>1. Bare = {}
      <4>1. IsFiniteSet(Bare) /\ Cardinality(Bare) \in Nat /\ Cardinality(Bare) <= 0
        BY <1>1, FilesFinite, FS_CardinalityType DEF Counted
      <4> QED BY <4>1, FS_EmptySet
    <3>2. Dates(files'[name]) = Dates(Lines(name)) \cup {stamp}
      BY <1>4, <1>7, <3>1
    <3>3. \A n \in Of(b) : n # name => Dates(files'[n]) = Dates(files[n])
      BY <1>6 DEF Of
    <3>4. Dates(Lines(name)) = IF name \in Of(b) THEN Dates(files[name]) ELSE {}
      BY <1>1 DEF Lines, Dates, Of
    <3>5. Of(b)' = Of(b) \cup {name}
      BY <1>1, <1>5 DEF Of
    <3>6. Dated(b)' = UNION {Dates(files'[n]) : n \in Of(b) \cup {name}}
      BY <3>5 DEF Dated, Dates
    <3>7. Dated(b)' = Dated(b) \cup {stamp}
      BY <3>2, <3>3, <3>4, <3>6 DEF Dated
    <3>8. DatesWritten(b)' = DatesWritten(b) \cup {stamp}
      <4> DEFINE old == written[b]
                 new == written'[b]
      <4>1. old \in Seq(Stamps) /\ new = Append(old, stamp)
        BY <1>12
      <4> HIDE DEF old, new
      <4>2. /\ DOMAIN new = 1 .. (Len(old) + 1) /\ DOMAIN old = 1 .. Len(old)
            /\ \A i \in 1 .. Len(old) : new[i] = old[i]
            /\ new[Len(old) + 1] = stamp
            /\ Len(old) \in Nat
        BY <4>1
      <4>3. {new[i] : i \in DOMAIN new} = {old[i] : i \in DOMAIN old} \cup {stamp}
        BY <4>2
      <4> QED BY <4>3 DEF old, new, DatesWritten
    <3> QED BY <2>1, <2>3, <3>7, <3>8
  <2> QED BY <2>2, <2>3
<1>15. TypeOK' /\ HeaderOnce'
  <2>1. /\ DOMAIN files' \subseteq Names
        /\ \A n \in DOMAIN files' : files'[n] \in Seq(Stamps \cup {Header})
        /\ HeaderOnce'
    BY <1>1, <1>2, <1>3, WriteKeeps
  <2> QED BY <1>1, <1>2, <1>12, <2>1 DEF TypeOK
<1> QED BY <1>13, <1>14, <1>15 DEF IInv

\* An interrupted append may leave an empty file, which has no header and no row.
LEMMA InterruptStep ==
    ASSUME IInv, AppendInterrupted
    PROVE  IInv'
<1>0. row # NoRow
  BY DEF AppendInterrupted
<1>00. PICK b \in BOOLEAN : b = row.perDay
  BY <1>0, RowAndPath DEF IInv
<1> DEFINE name  == Path(b)
           lines == Lines(name)
<1>1. /\ TypeOK /\ HeaderOnce /\ Counted /\ DatesKept
      /\ b \in BOOLEAN /\ name \in Names /\ name[1] = b
  BY <1>0, <1>00, RowAndPath DEF IInv
<1>2. /\ files' = Write(name, lines) /\ row' = NoRow /\ faults' = faults + 1
      /\ faults < MaxFaults
      /\ UNCHANGED <<file_per_day, today, summary, written>>
  BY <1>00 DEF AppendInterrupted
<1> HIDE DEF name
<1>3. /\ lines \in Seq(Stamps \cup {Header})
      /\ \A i \in DOMAIN lines : lines[i] = Header => i = 1
  BY <1>1 DEF Lines, TypeOK, HeaderOnce
<1>4. RowCount(lines) \in Nat
  BY <1>3 DEF RowCount
<1>5. /\ DOMAIN files' = DOMAIN files \cup {name}
      /\ \A n \in DOMAIN files' : files'[n] = IF n = name THEN lines ELSE files[n]
      /\ Count(b) \in Nat
      /\ Count(b)' = Count(b) + RowCount(lines) - RowCount(Lines(name))
  <2> HIDE DEF lines
  <2> QED BY <1>1, <1>2, <1>3, WriteFacts
<1>6. \A n \in DOMAIN files : files'[n] = files[n]
  BY <1>5 DEF Lines
<1>7. name \notin DOMAIN files => files'[name] = <<>>
  BY <1>5 DEF Lines
<1>8. Bare' \in {Bare, Bare \cup {name}}
  BY <1>5, <1>6 DEF Bare
<1>9. ASSUME NEW c \in BOOLEAN
      PROVE  /\ Count(c)' = Count(c) /\ Lost(c)' = Lost(c) /\ Rows(c)' = Rows(c)
  <2>1. Rows(c)' = Rows(c)
    BY <1>2 DEF Rows
  <2>2. Lost(c)' = Lost(c)
    BY <1>5, <1>6, <1>7 DEF Lost, Of
  <2>3. CASE c = b
    <3>1. Count(b)' = Count(b)
      BY <1>4, <1>5
    <3> QED BY <2>1, <2>2, <2>3, <3>1
  <2>4. CASE c # b
    <3>1. name[1] # c
      BY <1>1, <2>4
    <3>2. Count(c)' = Count(c)
      <4> HIDE DEF lines
      <4> QED BY <1>1, <1>2, <3>1, OtherLayout
    <3> QED BY <2>1, <2>2, <3>2
  <2> QED BY <2>3, <2>4
<1>10. Counted'
  <2>1. IsFiniteSet(Bare) /\ Cardinality(Bare) \in Nat /\ Cardinality(Bare) <= faults
    BY <1>1, FilesFinite, FS_CardinalityType DEF Counted
  <2>2. /\ Cardinality(Bare \cup {name}) \in Nat
        /\ Cardinality(Bare \cup {name}) <= Cardinality(Bare) + 1
    BY <2>1, FS_AddElement
  <2>3. faults \in Nat
    BY <1>1, NumbersAssumption DEF TypeOK
  <2>4. Cardinality(Bare') <= faults'
    <3>1. CASE Bare' = Bare
      BY <1>2, <2>1, <2>3, <3>1
    <3>2. CASE Bare' = Bare \cup {name}
      BY <1>2, <2>1, <2>2, <2>3, <3>2
    <3> QED BY <1>8, <3>1, <3>2
  <2>5. ASSUME NEW c \in BOOLEAN PROVE Rows(c)' = Count(c)' + Cardinality(Lost(c)')
    <3>1. Rows(c) = Count(c) + Cardinality(Lost(c))
      BY <1>1 DEF Counted
    <3> QED BY <1>9, <3>1
  <2> QED BY <2>4, <2>5 DEF Counted
<1>11. DatesKept'
  BY <1>1, <1>2, NumbersAssumption DEF DatesKept, TypeOK
<1>12. TypeOK' /\ HeaderOnce'
  <2>1. /\ DOMAIN files' \subseteq Names
        /\ \A n \in DOMAIN files' : files'[n] \in Seq(Stamps \cup {Header})
        /\ HeaderOnce'
    <3> HIDE DEF lines
    <3> QED BY <1>1, <1>2, <1>3, WriteKeeps
  <2>2. faults' \in 0 .. MaxFaults
    BY <1>1, <1>2, NumbersAssumption DEF TypeOK
  <2> QED BY <1>1, <1>2, <2>1, <2>2 DEF TypeOK
<1> QED BY <1>10, <1>11, <1>12 DEF IInv

LEMMA InvInit == Init => IInv
<1> SUFFICES ASSUME Init PROVE IInv
  OBVIOUS
<1>1. DOMAIN files = {} /\ written = [perDay \in BOOLEAN |-> <<>>] /\ faults = 0
  BY DEF Init
<1>2. TypeOK
  BY NumbersAssumption, PeriodTypesAssumption DEF Init, TypeOK, Days
<1>3. Bare = {} /\ Cardinality({}) = 0
  BY <1>1, FS_EmptySet DEF Bare
<1>4. ASSUME NEW perDay \in BOOLEAN
      PROVE  /\ Of(perDay) = {} /\ Lost(perDay) = {} /\ Dated(perDay) = {}
             /\ written[perDay] = <<>> /\ DatesWritten(perDay) = {}
  BY <1>1 DEF Of, Lost, Dated, DatesWritten
<1>5. ASSUME NEW perDay \in BOOLEAN PROVE Count(perDay) = 0 /\ Rows(perDay) = 0
  <2>1. DOMAIN Counts(perDay) = {}
    BY <1>4 DEF Counts
  <2>2. Count(perDay) = 0
    BY <2>1, EmptySum DEF Count
  <2> QED BY <1>4, <2>2 DEF Rows
<1>6. Counted
  BY <1>1, <1>3, <1>4, <1>5 DEF Counted
<1>7. DatesKept
  BY <1>4 DEF DatesKept
<1> QED BY <1>1, <1>2, <1>6, <1>7 DEF IInv, HeaderOnce

\* The rows that OutputPnlSummary counts and dates.
LEMMA SummaryFacts ==
    ASSUME IInv, NEW period_type \in PeriodTypes, NEW perDay \in BOOLEAN,
           OutputPnlSummary(period_type, perDay)
    PROVE  /\ summary'.trade_count = Count(perDay)
           /\ summary'.period_start = Least(Dated(perDay))
           /\ summary'.period_end = Greatest(Dated(perDay))
           /\ Count(perDay) \in Nat /\ Count(perDay) > 0
           /\ Dated(perDay) \in SUBSET Stamps
           /\ summary' \in [period_type : PeriodTypes, trade_count : Nat,
                            period_start : Stamps \cup {None}, period_end : Stamps \cup {None}]
           /\ UNCHANGED <<file_per_day, today, row, files, written, faults>>
<1>1. /\ summary' = [period_type |-> period_type, trade_count |-> Count(perDay),
                     period_start |-> Least(Dated(perDay)),
                     period_end |-> Greatest(Dated(perDay))]
      /\ Count(perDay) > 0
      /\ UNCHANGED <<file_per_day, today, row, files, written, faults>>
  BY DEF OutputPnlSummary, FilesRead, Count, Counts, Dated
<1>2. TypeOK /\ HeaderOnce
  BY DEF IInv
<1>3. Count(perDay) \in Nat
  BY <1>2, FilesFinite
<1>4. Dated(perDay) \in SUBSET Stamps
  <2>1. ASSUME NEW name \in Of(perDay) PROVE Dates(files[name]) \subseteq Stamps
    BY <1>2 DEF TypeOK, HeaderOnce, Dates, Of
  <2> QED BY <2>1 DEF Dated
<1>5. /\ Least(Dated(perDay)) \in Stamps \cup {None}
      /\ Greatest(Dated(perDay)) \in Stamps \cup {None}
  <2>1. CASE Dated(perDay) = {}
    BY <2>1 DEF Least, Greatest
  <2>2. CASE Dated(perDay) # {}
    BY <1>4, <2>2, LeastExists, GreatestExists
  <2> QED BY <2>1, <2>2
<1> QED BY <1>1, <1>3, <1>4, <1>5

LEMMA InvStep == IInv /\ [Next]_vars => IInv'
<1> SUFFICES ASSUME IInv, [Next]_vars PROVE IInv'
  OBVIOUS
<1>1. TypeOK /\ HeaderOnce /\ Counted /\ DatesKept
  BY DEF IInv
<1>2. ASSUME UNCHANGED <<files, written, faults>>, TypeOK' PROVE IInv'
  <2>1. HeaderOnce' /\ Bare' = Bare
    BY <1>1, <1>2 DEF HeaderOnce, Bare
  <2>2. ASSUME NEW perDay \in BOOLEAN
        PROVE  /\ Count(perDay)' = Count(perDay) /\ Lost(perDay)' = Lost(perDay)
               /\ Dated(perDay)' = Dated(perDay) /\ Rows(perDay)' = Rows(perDay)
               /\ DatesWritten(perDay)' = DatesWritten(perDay)
    BY <1>2 DEF Count, Counts, Of, Lost, Dated, Rows, DatesWritten, Dates
  <2>3. Counted'
    BY <1>1, <1>2, <2>1, <2>2 DEF Counted
  <2>4. DatesKept'
    BY <1>1, <1>2, <2>2 DEF DatesKept
  <2> QED BY <1>2, <2>1, <2>3, <2>4 DEF IInv
<1>3. CASE NextDay \/ Restart \/ UNCHANGED vars
  <2>1. TypeOK' /\ UNCHANGED <<files, written, faults>>
    BY <1>1, <1>3, NumbersAssumption DEF NextDay, Restart, vars, TypeOK, Days
  <2> QED BY <1>2, <2>1
<1>4. ASSUME NEW sep \in {"-", "."}, NEW day \in Days, NEW perDay \in BOOLEAN,
             Stamp([sep |-> sep, day |-> day], perDay)
      PROVE  IInv'
  <2>1. TypeOK' /\ UNCHANGED <<files, written, faults>>
    BY <1>1, <1>4 DEF Stamp, Stamps, InHand, TypeOK
  <2> QED BY <1>2, <2>1
<1>5. CASE OnOrderResult \/ OnPendingOpened \/ OnBacktestSignal
  <2>1. 0 .. today \subseteq Days /\ today \in Days /\ file_per_day \in BOOLEAN
    BY <1>1, NumbersAssumption DEF TypeOK, Days
  <2> QED BY <1>4, <1>5, <2>1 DEF OnOrderResult, OnPendingOpened, OnBacktestSignal
<1>6. ASSUME NEW period_type \in PeriodTypes, NEW perDay \in BOOLEAN,
             OutputPnlSummary(period_type, perDay)
      PROVE  IInv'
  <2>1. TypeOK' /\ UNCHANGED <<files, written, faults>>
    BY <1>1, <1>6, SummaryFacts DEF TypeOK
  <2> QED BY <1>2, <2>1
<1> QED BY <1>3, <1>5, <1>6, AppendStep, InterruptStep DEF Next

-----------------------------------------------------------------------------
(* The theorems.                                                           *)

\* The state keeps its types: the count of a summary is a number, its period two dates
\* of rows or none.
THEOREM TypeCorrect == Spec => []TypeOK
<1>1. IInv => TypeOK
  BY DEF IInv
<1> QED BY <1>1, InvInit, InvStep, PTL DEF Spec

\* A file has its header once at most and only as its first line, over any midnights,
\* interrupted appends and restarts.
THEOREM HeaderCorrect == Spec => []HeaderOnce
<1>1. IInv => HeaderOnce
  BY DEF IInv
<1> QED BY <1>1, InvInit, InvStep, PTL DEF Spec

\* A summary counts every row of its layout, but for one at most for each append that
\* was interrupted.
LEMMA LossStep ==
    ASSUME IInv, NEW period_type \in PeriodTypes, NEW perDay \in BOOLEAN,
           OutputPnlSummary(period_type, perDay)
    PROVE  /\ summary'.trade_count <= Rows(perDay)
           /\ Rows(perDay) <= summary'.trade_count + faults
<1>1. summary'.trade_count = Count(perDay) /\ Count(perDay) \in Nat
  BY SummaryFacts
<1>2. TypeOK /\ Counted
  BY DEF IInv
<1>3. /\ Cardinality(Lost(perDay)) \in Nat /\ Cardinality(Bare) \in Nat
      /\ Cardinality(Lost(perDay)) <= Cardinality(Bare)
  BY <1>2, FilesFinite, FS_CardinalityType, FS_Subset
<1>4. /\ Rows(perDay) = Count(perDay) + Cardinality(Lost(perDay))
      /\ Cardinality(Bare) <= faults /\ faults \in Nat
  BY <1>2, NumbersAssumption DEF Counted, TypeOK
<1> QED BY <1>1, <1>3, <1>4

\* No summary counts a row of the other layout or a row twice, and an interrupted append
\* costs it one row at most, for any number of files, rows and days.
THEOREM LossBounded == Spec => LossIsBounded
<1>1. IInv /\ [Next]_vars =>
        [\A period_type \in PeriodTypes, perDay \in BOOLEAN :
            OutputPnlSummary(period_type, perDay) =>
                /\ summary'.trade_count <= Rows(perDay)
                /\ Rows(perDay) <= summary'.trade_count + faults]_vars
  BY LossStep
<1> QED BY <1>1, InvInit, InvStep, PTL DEF Spec, LossIsBounded

LEMMA PeriodStep ==
    ASSUME IInv, NEW period_type \in PeriodTypes, NEW perDay \in BOOLEAN,
           OutputPnlSummary(period_type, perDay), faults = 0, OneClock(written[perDay])
    PROVE  LET days == {written[perDay][i].day : i \in DOMAIN written[perDay]} IN
           /\ summary'.period_start.day = Min(days)
           /\ summary'.period_end.day = Max(days)
<1> DEFINE dates == Dated(perDay)
           rows  == written[perDay]
           days  == {rows[i].day : i \in DOMAIN rows}
<1>2. /\ summary'.period_start = Least(dates) /\ summary'.period_end = Greatest(dates)
      /\ Count(perDay) \in Nat /\ Count(perDay) > 0 /\ dates \in SUBSET Stamps
  BY SummaryFacts
<1>3. TypeOK /\ Counted /\ DatesKept
  BY DEF IInv
<1>4. dates = {rows[i] : i \in DOMAIN rows}
  BY <1>3 DEF DatesKept, DatesWritten
<1>5. dates # {}
  <2>1. rows \in Seq(Stamps) /\ Len(rows) = Count(perDay) + Cardinality(Lost(perDay))
    BY <1>3 DEF TypeOK, Counted, Rows
  <2>2. Cardinality(Lost(perDay)) \in Nat
    BY <1>3, FilesFinite, FS_CardinalityType
  <2>3. 1 \in DOMAIN rows
    BY <1>2, <2>1, <2>2
  <2> QED BY <1>4, <2>3
<1>6. \A a, b \in dates : a.sep = b.sep
  BY <1>4 DEF OneClock
<1>7. days = {a.day : a \in dates} /\ \A d \in days : d \in Nat
  BY <1>2, <1>4, YearBounds
<1> HIDE DEF dates, days, rows
<1>8. /\ Least(dates) \in dates /\ \A b \in dates : AtMost(Least(dates), b)
      /\ Greatest(dates) \in dates /\ \A b \in dates : AtMost(b, Greatest(dates))
  BY <1>2, <1>5, LeastExists, GreatestExists
<1>9. /\ Least(dates).day \in days /\ \A d \in days : Least(dates).day <= d
      /\ Greatest(dates).day \in days /\ \A d \in days : d <= Greatest(dates).day
  <2>1. \A b \in dates : Least(dates).day <= b.day /\ b.day <= Greatest(dates).day
    BY <1>2, <1>6, <1>8, OneClockOrder
  <2> QED BY <1>7, <1>8, <2>1
<1> DEFINE lo == Least(dates).day
           hi == Greatest(dates).day
<1>10. /\ lo \in days /\ \A d \in days : lo <= d
       /\ hi \in days /\ \A d \in days : d <= hi
  BY <1>9
<1> HIDE DEF lo, hi
<1>11. Min(days) = lo
  <2>1. Min(days) \in days /\ \A d \in days : Min(days) <= d
    BY <1>10 DEF Min
  <2>2. Min(days) \in Nat /\ lo \in Nat /\ Min(days) <= lo /\ lo <= Min(days)
    BY <1>7, <1>10, <2>1
  <2> QED BY <2>2
<1>12. Max(days) = hi
  <2>1. Max(days) \in days /\ \A d \in days : Max(days) >= d
    BY <1>10 DEF Max
  <2>2. Max(days) \in Nat /\ hi \in Nat /\ Max(days) >= hi /\ Max(days) <= hi
    BY <1>7, <1>10, <2>1
  <2> QED BY <2>2
<1> QED BY <1>2, <1>11, <1>12 DEF days, rows, lo, hi

\* With no append interrupted and all dates from one clock, the order of the strings is
\* that of the days: the period of a summary is from the first to the last of its rows.
THEOREM PeriodExact == Spec => PeriodIsExact
<1>1. IInv /\ [Next]_vars =>
        [\A period_type \in PeriodTypes, perDay \in BOOLEAN :
            (OutputPnlSummary(period_type, perDay) /\ faults = 0 /\ OneClock(written[perDay])) =>
                LET days == {written[perDay][i].day : i \in DOMAIN written[perDay]} IN
                /\ summary'.period_start.day = Min(days)
                /\ summary'.period_end.day = Max(days)]_vars
  BY PeriodStep
<1> QED BY <1>1, InvInit, InvStep, PTL DEF Spec, PeriodIsExact
=============================================================================
