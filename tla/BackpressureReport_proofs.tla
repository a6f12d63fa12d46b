--------------------- MODULE BackpressureReport_proofs ---------------------
(***************************************************************************)
(* Proofs about BackpressureReport, for every command line and every value *)
(* of --n a reader may try next.                                           *)
(***************************************************************************)
EXTENDS BackpressureReport, FiniteSetTheorems, SequenceTheorems, TLAPS

-----------------------------------------------------------------------------
(* Cells and rows.                                                         *)

\* Two things at most are more than one exactly when they are two.
LEMMA TwoOf ==
  ASSUME NEW x, NEW y, NEW S, S \subseteq {x, y}
  PROVE  Cardinality(S) > 1 <=> x # y /\ x \in S /\ y \in S
<1>1. Cardinality({}) = 0 /\ Cardinality({x}) = 1 /\ Cardinality({y}) = 1
  BY FS_EmptySet, FS_Singleton
<1>2. CASE x # y /\ x \in S /\ y \in S
  <2>1. S = {x} \cup {y}
    BY <1>2
  <2>2. IsFiniteSet({x}) /\ y \notin {x}
    BY <1>2, FS_Singleton
  <2>3. Cardinality(S) = 2
    BY <1>1, <2>1, <2>2, FS_AddElement
  <2> QED BY <1>2, <2>3
<1>3. CASE ~ (x # y /\ x \in S /\ y \in S)
  <2>1. S = {} \/ S = {x} \/ S = {y}
    BY <1>3
  <2>2. Cardinality(S) = 0 \/ Cardinality(S) = 1
    BY <1>1, <2>1
  <2> QED BY <1>3, <2>2
<1> QED BY <1>2, <1>3

\* A tenth of the items, and never none.
LEMMA TenthText ==
  ASSUME NEW n \in Nat \ {0}
  PROVE  /\ Tenth(n) \in Nat \ {0} /\ Tenth(n) <= n
         /\ Tenth(n) > 1 => Tenth(n) # n /\ Tenth(n) = n \div 10
         /\ n \div 10 > 1 => Tenth(n) = n \div 10
BY DEF Tenth

\* Whatever run_one measures, the producer waited, and the row counts as
\* having reached the bound, exactly if there were more items than room.
LEMMA MeasuredText ==
  ASSUME NEW n \in Nat \ {0}, NEW q \in Nat \ {0},
         NEW r \in Measured([n |-> n, queue_size |-> q])
  PROVE  /\ r.n = n /\ r.queue_size = q
         /\ Saturated(r) <=> n > q
         /\ Waited(r) <=> n > q
<1>1. PICK p \in PauseCounts(n, q) :
        r = [n |-> n, queue_size |-> q, max_queue_depth |-> Depth(n, q), producer_pauses |-> p]
  BY DEF Measured
<1>2. r.n = n /\ r.queue_size = q /\ r.producer_pauses = p /\ r.max_queue_depth = Depth(n, q)
  BY <1>1
<1>3. p \in Nat /\ (p > 0 <=> n > q) /\ (n > q => Depth(n, q) = q)
  BY DEF PauseCounts, Depth
<1> QED BY <1>2, <1>3 DEF Saturated, Waited

\* Something is measured for every cell.
LEMMA MeasuredSome ==
  ASSUME NEW n \in Nat \ {0}, NEW q \in Nat \ {0}
  PROVE  \E r : r \in Measured([n |-> n, queue_size |-> q])
<1>1. \E p : p \in PauseCounts(n, q) \cap Pauses
  <2>1. n > q => 1 \in 1..(n - q)
    OBVIOUS
  <2> QED BY <2>1, PausesAssumption DEF PauseCounts
<1> QED BY <1>1 DEF Measured

Base(f)   == [n |-> f.n, queue_size |-> f.queue_size]
Wider(f)  == [n |-> f.n, queue_size |-> 4 * f.queue_size]
Fewer(f)  == [n |-> Tenth(f.n), queue_size |-> f.queue_size]

\* The cells of a command line.
CellSet(f) == {Base(f)} \cup (IF f.compare THEN {Wider(f)} ELSE {})
                        \cup (IF f.compare_n THEN {Fewer(f)} ELSE {})

\* A list of at most one thing.
LEMMA RangeOfOne ==
  ASSUME NEW S, NEW a \in S
  PROVE  /\ <<a>> \in Seq(S) /\ Range(<<a>>) = {a}
         /\ <<>> \in Seq(S) /\ Range(<<>>) = {}
<1>1. <<a>> \in Seq(S) /\ <<>> \in Seq(S)
  OBVIOUS
<1>2. Range(<<a>>) = {a}
  BY DEF Range
<1>3. Range(<<>>) = {}
  BY DEF Range
<1> QED BY <1>1, <1>2, <1>3

\* The list of cells holds these and no others.
LEMMA CellsText ==
  ASSUME NEW f, f.compare \in BOOLEAN, f.compare_n \in BOOLEAN
  PROVE  /\ Len(Cells(f)) \in Nat /\ DOMAIN Cells(f) = 1..Len(Cells(f))
         /\ Range(Cells(f)) = CellSet(f)
<1>1. PICK a, b, c, S : a = Base(f) /\ b = Wider(f) /\ c = Fewer(f) /\ S = {a, b, c}
  OBVIOUS
<1>2. PICK u, v, w : /\ u = <<a>>
                     /\ v = IF f.compare THEN <<b>> ELSE <<>>
                     /\ w = IF f.compare_n THEN <<c>> ELSE <<>>
  OBVIOUS
<1>3. u \in Seq(S) /\ Range(u) = {a}
  BY <1>1, <1>2, RangeOfOne
<1>4. v \in Seq(S) /\ Range(v) = IF f.compare THEN {b} ELSE {}
  BY <1>1, <1>2, RangeOfOne
<1>5. w \in Seq(S) /\ Range(w) = IF f.compare_n THEN {c} ELSE {}
  BY <1>1, <1>2, RangeOfOne
<1>6. PICK x : x = u \o v /\ x \in Seq(S) /\ Range(x) = Range(u) \cup Range(v)
  <2>1. u \o v \in Seq(S)
    BY <1>3, <1>4, ConcatProperties
  <2>2. Range(u \o v) = Range(u) \cup Range(v)
    BY <1>3, <1>4, RangeConcatenation
  <2> QED BY <2>1, <2>2
<1>7. PICK y : y = x \o w /\ y \in Seq(S) /\ Range(y) = Range(x) \cup Range(w)
  <2>1. x \o w \in Seq(S)
    BY <1>5, <1>6, ConcatProperties
  <2>2. Range(x \o w) = Range(x) \cup Range(w)
    <3>1. x \in Seq(S) /\ w \in Seq(S)
      BY <1>5, <1>6
    <3> QED BY <3>1, RangeConcatenation
  <2> QED BY <2>1, <2>2
<1>8. Cells(f) = y
  BY <1>1, <1>2, <1>6, <1>7 DEF Cells, Base, Wider, Fewer
<1>9. Range(y) = CellSet(f)
  BY <1>1, <1>3, <1>4, <1>5, <1>6, <1>7 DEF CellSet
<1> QED BY <1>7, <1>8, <1>9, LenProperties


-----------------------------------------------------------------------------
(* What the report concludes from a full set of rows.                      *)

\* The rows are what the cells of a command line measured: every row belongs
\* to a cell, and every cell has one.
RowsFit(rows, f) ==
  /\ \A r \in rows : \E c \in CellSet(f) : r \in Measured(c)
  /\ \A c \in CellSet(f) : \E r \in rows : r \in Measured(c)

Counts(f) == /\ f.n \in Nat \ {0} /\ f.queue_size \in Nat \ {0}
             /\ f.compare \in BOOLEAN /\ f.compare_n \in BOOLEAN

\* A row is of f.n items or of a tenth of them, at the queue of the command
\* line or at four times it, and of a tenth only at the former.
LEMMA RowText ==
  ASSUME NEW f, Counts(f), NEW rows, RowsFit(rows, f), NEW r \in rows
  PROVE  /\ \/ r.n = f.n /\ r.queue_size \in {f.queue_size, 4 * f.queue_size}
            \/ f.compare_n /\ r.n = Tenth(f.n) /\ r.queue_size = f.queue_size
         /\ Saturated(r) <=> r.n > r.queue_size
         /\ Waited(r) <=> r.n > r.queue_size
<1>1. PICK n, q : n = f.n /\ q = f.queue_size /\ n \in Nat \ {0} /\ q \in Nat \ {0}
  BY DEF Counts
<1>2. 4 * q \in Nat \ {0} /\ Tenth(n) \in Nat \ {0}
  BY <1>1, TenthText
<1>3. PICK c \in CellSet(f) : r \in Measured(c)
  BY DEF RowsFit
<1>4. \/ c = [n |-> n, queue_size |-> q]
      \/ c = [n |-> n, queue_size |-> 4 * q]
      \/ c = [n |-> Tenth(n), queue_size |-> q] /\ f.compare_n
  BY <1>1, <1>3 DEF CellSet, Base, Wider, Fewer
<1>5. CASE c = [n |-> n, queue_size |-> q]
  BY <1>1, <1>3, <1>5, MeasuredText
<1>6. CASE c = [n |-> n, queue_size |-> 4 * q]
  BY <1>1, <1>2, <1>3, <1>6, MeasuredText
<1>7. CASE c = [n |-> Tenth(n), queue_size |-> q] /\ f.compare_n
  BY <1>1, <1>2, <1>3, <1>7, MeasuredText
<1> QED BY <1>4, <1>5, <1>6, <1>7

\* The base cell has its row, and with --compare-n so has the tenth.
LEMMA RowsThere ==
  ASSUME NEW f, Counts(f), NEW rows, RowsFit(rows, f)
  PROVE  /\ \E r \in rows : r.n = f.n /\ r.queue_size = f.queue_size
         /\ f.compare_n => \E r \in rows : r.n = Tenth(f.n) /\ r.queue_size = f.queue_size
<1>1. PICK n, q : n = f.n /\ q = f.queue_size /\ n \in Nat \ {0} /\ q \in Nat \ {0}
  BY DEF Counts
<1>2. Tenth(n) \in Nat \ {0}
  BY <1>1, TenthText
<1>3. \E r \in rows : r.n = n /\ r.queue_size = q
  <2>1. PICK r \in rows : r \in Measured([n |-> n, queue_size |-> q])
    BY <1>1 DEF RowsFit, CellSet, Base
  <2> QED BY <1>1, <2>1, MeasuredText
<1>4. ASSUME f.compare_n PROVE \E r \in rows : r.n = Tenth(n) /\ r.queue_size = q
  <2>1. PICK r \in rows : r \in Measured([n |-> Tenth(n), queue_size |-> q])
    BY <1>1, <1>4 DEF RowsFit, CellSet, Fewer
  <2> QED BY <1>1, <1>2, <2>1, MeasuredText
<1> QED BY <1>1, <1>3, <1>4

\* The rows are evidence exactly if --compare-n was given and a tenth of the
\* items is still more than the queue holds.
LEMMA EvidenceText ==
  ASSUME NEW f, Counts(f), NEW rows, RowsFit(rows, f)
  PROVE  Conclusion(rows).evidence <=> f.compare_n /\ Tenth(f.n) > f.queue_size
<1>1. PICK n, q, m : /\ n = f.n /\ q = f.queue_size /\ m = Tenth(n)
                     /\ n \in Nat \ {0} /\ q \in Nat \ {0}
  BY DEF Counts
<1>2. m \in Nat \ {0} /\ m <= n /\ (m > 1 => m # n)
  BY <1>1, TenthText
<1>3. PICK S : S = {r.n : r \in {r \in rows : Saturated(r)}}
  OBVIOUS
<1>4. Conclusion(rows).evidence <=> Cardinality(S) > 1
  BY <1>3 DEF Conclusion
<1>5. S \subseteq {n, m}
  <2>1. ASSUME NEW r \in rows PROVE r.n \in {n, m}
    BY <1>1, <2>1, RowText
  <2> QED BY <1>3, <2>1
<1>6. Cardinality(S) > 1 <=> n # m /\ n \in S /\ m \in S
  BY <1>5, TwoOf
<1>7. ASSUME f.compare_n, m > q PROVE n # m /\ n \in S /\ m \in S
  <2>1. PICK r \in rows : r.n = n /\ r.queue_size = q
    BY <1>1, RowsThere
  <2>2. PICK s \in rows : s.n = m /\ s.queue_size = q
    BY <1>1, <1>7, RowsThere
  <2>3. n > q /\ m > 1
    BY <1>1, <1>2, <1>7
  <2>4. Saturated(r) /\ Saturated(s)
    BY <1>7, <2>1, <2>2, <2>3, RowText
  <2>5. n \in S /\ m \in S
    BY <1>3, <2>1, <2>2, <2>4
  <2> QED BY <1>2, <2>3, <2>5
<1>8. ASSUME n # m, m \in S PROVE f.compare_n /\ m > q
  <2>1. PICK r \in rows : Saturated(r) /\ r.n = m
    BY <1>3, <1>8
  <2>2. f.compare_n /\ r.queue_size = q
    BY <1>1, <1>8, <2>1, RowText
  <2>3. r.n > r.queue_size
    BY <2>1, RowText
  <2> QED BY <2>1, <2>2, <2>3
<1> QED BY <1>1, <1>4, <1>6, <1>7, <1>8

\* The queue the report names in its advice is the command line's own.
LEMMA BaseQueueText ==
  ASSUME NEW f, Counts(f), NEW rows, RowsFit(rows, f)
  PROVE  BaseQueue(rows) = f.queue_size
<1>1. PICK q \in Nat \ {0} : q = f.queue_size
  BY DEF Counts
<1>2. PICK Q : Q = {r.queue_size : r \in rows}
  OBVIOUS
<1>3. \A r \in rows : r.queue_size \in {q, 4 * q}
  BY <1>1, RowText
<1>4. \A r \in rows : q <= r.queue_size
  BY <1>1, <1>3
<1>5. PICK s \in rows : s.queue_size = q
  BY <1>1, RowsThere
<1>6. q \in Q
  BY <1>2, <1>5
<1>7. PICK x \in Q : /\ x = CHOOSE y \in Q : \A r \in rows : y <= r.queue_size
                     /\ \A r \in rows : x <= r.queue_size
  BY <1>4, <1>6
<1>8. x \in {q, 4 * q} /\ x <= q
  BY <1>2, <1>3, <1>5, <1>7
<1>9. BaseQueue(rows) = x
  BY <1>2, <1>7 DEF BaseQueue
<1> QED BY <1>1, <1>8, <1>9


-----------------------------------------------------------------------------
(* The inductive invariant.                                                *)

\* What the cells of a command line may measure.
RowSet(f) == UNION {Measured(c) : c \in Range(Cells(f))}

\* The k-th row is of the k-th cell, and the report is written from them all.
DemoInv ==
  /\ flags \in CommandLines
  /\ table \in Seq(RowSet(flags))
  /\ Len(table) <= Len(Cells(flags))
  /\ \A k \in 1..Len(table) : table[k] \in Measured(Cells(flags)[k])
  /\ exit = 0 => /\ ~BadFlags /\ Len(table) = Len(Cells(flags))
                 /\ claim = Conclusion(RowsOf(table))

\* The flags' types.
LEMMA FlagsType ==
  ASSUME flags \in CommandLines
  PROVE  /\ flags.n \in Int /\ flags.queue_size \in Int
         /\ flags.compare \in BOOLEAN /\ flags.compare_n \in BOOLEAN
         /\ flags \in CommandLine
BY CommandLinesAssumption DEF CommandLine

\* A demonstration begins with no row.
LEMMA DemoInitInv == ASSUME DemoInit PROVE DemoInv
<1>1. flags \in CommandLines /\ table = <<>> /\ exit = Nothing
  BY DEF DemoInit
<1>2. <<>> \in Seq(RowSet(flags)) /\ Len(<<>>) = 0
  BY EmptySeq
<1>3. Len(Cells(flags)) \in Nat
  BY <1>1, FlagsType, CellsText
<1>4. exit # 0
  BY <1>1, NothingAssumption
<1> QED BY <1>1, <1>2, <1>3, <1>4 DEF DemoInv

\* Every step keeps the invariant.
LEMMA DemoStepInv == ASSUME DemoInv, [DemoNext]_demo PROVE DemoInv'
<1>1. flags' = flags /\ BadFlags' = BadFlags
  BY DEF DemoNext, ExitTwo, RunOne, RenderDemo, DemoEnded, demo, BadFlags
<1>2. CASE ExitTwo
  <2>1. table' = table /\ exit' = 2
    BY <1>2 DEF ExitTwo
  <2> QED BY <1>1, <2>1 DEF DemoInv
<1>3. CASE RunOne
  <2>1. PICK l, m : l = Len(table) /\ m = Len(Cells(flags)) /\ l \in Nat /\ m \in Nat
    BY FlagsType, CellsText, LenProperties DEF DemoInv
  <2>2. PICK row \in Measured(Cells(flags)[l + 1]) : table' = Append(table, row)
    BY <1>3, <2>1 DEF RunOne
  <2>3. l < m /\ exit' = exit /\ exit # 0
    BY <1>3, <2>1, NothingAssumption DEF RunOne
  <2>4. row \in RowSet(flags)
    <3>1. DOMAIN Cells(flags) = 1..m /\ l + 1 \in 1..m
      BY <2>1, <2>3, FlagsType, CellsText DEF DemoInv
    <3> QED BY <2>2, <3>1 DEF RowSet, Range
  <2>5. /\ table' \in Seq(RowSet(flags)) /\ Len(table') = l + 1
        /\ \A k \in 1..l : table'[k] = table[k]
        /\ table'[l + 1] = row
    BY <2>1, <2>2, <2>4, AppendProperties DEF DemoInv
  <2>6. \A k \in 1..(l + 1) : table'[k] \in Measured(Cells(flags)[k])
    <3> TAKE k \in 1..(l + 1)
    <3>1. CASE k = l + 1
      BY <2>2, <2>5, <3>1
    <3>2. CASE k # l + 1
      <4>1. k \in 1..l
        BY <2>1, <3>2
      <4> QED BY <2>1, <2>5, <4>1 DEF DemoInv
    <3> QED BY <3>1, <3>2
  <2>7. l + 1 <= m
    BY <2>1, <2>3
  <2> QED BY <1>1, <2>1, <2>3, <2>5, <2>6, <2>7 DEF DemoInv
<1>4. CASE RenderDemo
  <2>1. /\ table' = table /\ exit' = 0 /\ ~BadFlags /\ Len(table) = Len(Cells(flags))
        /\ claim' = Conclusion(RowsOf(table))
    BY <1>4 DEF RenderDemo
  <2>2. claim' = Conclusion(RowsOf(table))'
    BY <2>1
  <2> QED BY <1>1, <2>1, <2>2 DEF DemoInv
<1>5. CASE UNCHANGED demo
  BY <1>1, <1>5 DEF DemoInv, demo
<1> QED BY <1>2, <1>3, <1>4, <1>5 DEF DemoNext, DemoEnded

\* The invariant holds of every run of the demonstration.
THEOREM DemoInvariance == DemoSpec => []DemoInv
BY DemoInitInv, DemoStepInv, PTL DEF DemoSpec

-----------------------------------------------------------------------------
(* What the report promises.                                               *)

\* The finished table holds what the cells measured.
LEMMA TableFits ==
  ASSUME DemoInv, exit = 0
  PROVE  Counts(flags) /\ RowsFit(RowsOf(table), flags)
<1>1. flags.n \in Int /\ flags.queue_size \in Int
      /\ flags.compare \in BOOLEAN /\ flags.compare_n \in BOOLEAN
  BY FlagsType DEF DemoInv
<1>2. Counts(flags)
  BY <1>1 DEF DemoInv, BadFlags, Counts
<1>3. PICK cells, m : /\ cells = Cells(flags) /\ m \in Nat /\ DOMAIN cells = 1..m
                      /\ m = Len(table) /\ Range(cells) = CellSet(flags)
  BY <1>1, CellsText DEF DemoInv
<1>4. DOMAIN table = 1..m /\ \A k \in 1..m : table[k] \in Measured(cells[k])
  BY <1>3, LenProperties DEF DemoInv
<1>5. ASSUME NEW r \in RowsOf(table) PROVE \E c \in CellSet(flags) : r \in Measured(c)
  <2>1. PICK k \in 1..m : r = table[k]
    BY <1>4 DEF RowsOf
  <2> QED BY <1>3, <1>4, <2>1 DEF Range
<1>6. ASSUME NEW c \in CellSet(flags) PROVE \E r \in RowsOf(table) : r \in Measured(c)
  <2>1. PICK k \in 1..m : c = cells[k]
    BY <1>3 DEF Range
  <2> QED BY <1>4, <2>1 DEF RowsOf
<1> QED BY <1>2, <1>5, <1>6 DEF RowsFit

\* What all rows that another run may measure conclude.
LEMMA WouldBeText ==
  ASSUME flags \in CommandLines, Counts(flags), NEW n \in Nat \ {0}
  PROVE  WouldBeEvidence(n) <=> n \div 10 > flags.queue_size
<1>1. PICK f : f = [flags EXCEPT !.n = n, !.compare_n = TRUE]
  OBVIOUS
<1>2. /\ f.n = n /\ f.queue_size = flags.queue_size /\ f.compare_n = TRUE
      /\ f.compare = flags.compare
  BY <1>1, FlagsType DEF CommandLine
<1>3. Counts(f)
  BY <1>2 DEF Counts
<1>4. PICK rows : rows = UNION {Measured(Cells(f)[k]) : k \in DOMAIN Cells(f)}
  OBVIOUS
<1>5. {Cells(f)[k] : k \in DOMAIN Cells(f)} = CellSet(f)
  BY <1>3, CellsText DEF Counts, Range
<1>6. RowsFit(rows, f)
  <2>1. ASSUME NEW r \in rows PROVE \E c \in CellSet(f) : r \in Measured(c)
    BY <1>4, <1>5
  <2>2. ASSUME NEW c \in CellSet(f) PROVE \E r \in rows : r \in Measured(c)
    <3>1. PICK k \in DOMAIN Cells(f) : c = Cells(f)[k]
      BY <1>5
    <3>2. PICK r : r \in Measured(c)
      <4>1. Tenth(f.n) \in Nat \ {0} /\ 4 * f.queue_size \in Nat \ {0}
        BY <1>3, TenthText DEF Counts
      <4>2. PICK m, q \in Nat \ {0} : c = [n |-> m, queue_size |-> q]
        BY <1>3, <2>2, <4>1 DEF CellSet, Base, Wider, Fewer, Counts
      <4> QED BY <4>2, MeasuredSome
    <3> QED BY <1>4, <3>1, <3>2
  <2> QED BY <2>1, <2>2 DEF RowsFit
<1>7. WouldBeEvidence(n) <=> Conclusion(rows).evidence
  BY <1>1, <1>4 DEF WouldBeEvidence
<1>8. Conclusion(rows).evidence <=> Tenth(n) > flags.queue_size
  BY <1>2, <1>3, <1>6, EvidenceText
<1>9. PICK q \in Nat \ {0} : q = flags.queue_size
  BY DEF Counts
<1>10. Tenth(n) > q <=> n \div 10 > q
  <2>1. Tenth(n) \in Nat /\ n \div 10 \in Nat
    BY TenthText
  <2>2. (Tenth(n) > 1 => Tenth(n) = n \div 10) /\ (n \div 10 > 1 => Tenth(n) = n \div 10)
    BY TenthText
  <2> QED BY <2>1, <2>2
<1> QED BY <1>7, <1>8, <1>9, <1>10

\* The report calls its table evidence only on two rows at one queue size
\* with different n in both of which the producer had to wait (#134, #161); a
\* row it calls unfilled is one whose producer never did (#144, #149); and
\* advice it gives is right both ways (#202, #208).
THEOREM ReportAlwaysTrue == DemoSpec => []ReportIsTrue
<1>1. ASSUME DemoInv PROVE ReportIsTrue
  <2> SUFFICES ASSUME exit = 0
               PROVE  /\ claim.evidence => \E r, s \in RowsOf(table) :
                           r.queue_size = s.queue_size /\ r.n # s.n /\ Waited(r) /\ Waited(s)
                      /\ \A r \in RowsOf(table) :
                           <<r.n, r.queue_size>> \in claim.unfilled => ~Waited(r)
                      /\ claim.advice # Nothing =>
                           \A n \in Retries : WouldBeEvidence(n) <=> n \div 10 > claim.advice
    BY DEF ReportIsTrue
  <2>1. PICK rows : rows = RowsOf(table)
    OBVIOUS
  <2>2. flags \in CommandLines /\ claim = Conclusion(rows)
    BY <1>1, <2>1 DEF DemoInv
  <2>3. Counts(flags) /\ RowsFit(rows, flags)
    BY <1>1, <2>1, TableFits
  <2>4. PICK n, q : n = flags.n /\ q = flags.queue_size /\ n \in Nat \ {0} /\ q \in Nat \ {0}
    BY <2>3 DEF Counts
  <2>5. claim.evidence <=> flags.compare_n /\ Tenth(n) > q
    BY <2>2, <2>3, <2>4, EvidenceText
  <2>6. ASSUME claim.evidence
        PROVE  \E r, s \in rows :
                 r.queue_size = s.queue_size /\ r.n # s.n /\ Waited(r) /\ Waited(s)
    <3>1. flags.compare_n /\ Tenth(n) > q
      BY <2>5, <2>6
    <3>2. PICK r \in rows : r.n = n /\ r.queue_size = q
      BY <2>3, <2>4, RowsThere
    <3>3. PICK s \in rows : s.n = Tenth(n) /\ s.queue_size = q
      BY <2>3, <2>4, <3>1, RowsThere
    <3>4. PICK m \in Nat : m = Tenth(n) /\ m <= n /\ (m > 1 => m # n)
      BY <2>4, TenthText
    <3>5. n > q /\ m > q /\ n # m
      BY <2>4, <3>1, <3>4
    <3>6. Waited(r) /\ Waited(s)
      BY <2>3, <3>2, <3>3, <3>4, <3>5, RowText
    <3> QED BY <3>2, <3>3, <3>4, <3>5, <3>6
  <2>7. ASSUME NEW r \in rows, <<r.n, r.queue_size>> \in claim.unfilled
        PROVE  ~Waited(r)
    <3>1. PICK filled : filled = {s \in rows : Saturated(s)}
      OBVIOUS
    <3>2. claim.unfilled = {<<s.n, s.queue_size>> : s \in rows \ filled}
      BY <2>2, <3>1 DEF Conclusion
    <3>3. PICK s \in rows : ~Saturated(s) /\ <<r.n, r.queue_size>> = <<s.n, s.queue_size>>
      BY <2>7, <3>1, <3>2
    <3>4. r.n = s.n /\ r.queue_size = s.queue_size
      BY <3>3
    <3> QED BY <2>3, <3>3, <3>4, RowText
  <2>8. ASSUME claim.advice # Nothing, NEW k \in Retries
        PROVE  WouldBeEvidence(k) <=> k \div 10 > claim.advice
    <3>1. claim.advice = q
      BY <2>2, <2>3, <2>4, <2>8, BaseQueueText DEF Conclusion
    <3>2. k \in Nat \ {0}
      BY RetriesAssumption
    <3> QED BY <2>2, <2>3, <2>4, <3>1, <3>2, WouldBeText
  <2> QED BY <2>1, <2>6, <2>7, <2>8
<1> QED BY <1>1, DemoInvariance, PTL
=============================================================================
