------------------------- MODULE Benchmark_proofs -------------------------
(***************************************************************************)
(* Proofs about Benchmark, for every workload, plan of pipelines, batch    *)
(* size, concurrency and set of durations.                                 *)
(***************************************************************************)
EXTENDS Benchmark, FiniteSetTheorems, SequenceTheorems, TLAPS

-----------------------------------------------------------------------------
(* Numbers and sequences.                                                  *)

\* A set of numbers that is not empty has a least one.
LEMMA LeastOf ==
  ASSUME NEW S, S \subseteq Nat, S # {}
  PROVE  \E i \in S : \A j \in S : i <= j
<1> DEFINE R == OpToRel(<, Nat)
<1>1. IsWellFoundedOn(R, Nat)
  BY NatLessThanWellFounded
<1>2. \A x, y \in Nat : y < x => <<y, x>> \in R
  BY DEF OpToRel
<1> HIDE DEF R
<1>3. PICK i \in S : \A j \in S : <<j, i>> \notin R
  BY <1>1, WFMin
<1>4. ASSUME NEW j \in S PROVE i <= j
  <2>1. i \in Nat /\ j \in Nat
    OBVIOUS
  <2>2. ~ (j < i)
    BY <1>2, <1>3, <2>1, Zenon
  <2> QED BY <2>1, <2>2
<1> QED BY <1>4

\* Integer division.
LEMMA Quotient ==
  ASSUME NEW a \in Nat, NEW m \in Nat \ {0}
  PROVE  /\ a \div m \in Nat
         /\ (a \div m) * m <= a /\ a < (a \div m) * m + m
OBVIOUS

\* A function on 1..n is a sequence of that length.
LEMMA FunctionIsSeq ==
  ASSUME NEW S, NEW n \in Nat, NEW f \in [1..n -> S]
  PROVE  f \in Seq(S) /\ Len(f) = n /\ DOMAIN f = 1..n
<1>1. f \in Seq(S)
  BY SeqDef
<1>2. Len(f) \in Nat /\ DOMAIN f = 1..Len(f)
  BY <1>1, LenProperties
<1> QED BY <1>1, <1>2

-----------------------------------------------------------------------------
(* Calls and batches.                                                      *)

LLMs == {"llm1", "llm2"}

\* A call on a list of texts keeps its length and its order.
LEMMA CalledText ==
  ASSUME NEW s \in Seq(Texts), NEW llm \in LLMs
  PROVE  /\ Called(s, llm) \in Seq(Texts) /\ Len(Called(s, llm)) = Len(s)
         /\ \A k \in 1..Len(s) : Called(s, llm)[k] = [s[k] EXCEPT !.calls = Append(@, llm)]
<1>1. Len(s) \in Nat /\ DOMAIN s = 1..Len(s) /\ \A k \in 1..Len(s) : s[k] \in Texts
  BY LenProperties, ElementOfSeq
<1>2. ASSUME NEW t \in Texts PROVE [t EXCEPT !.calls = Append(@, llm)] \in Texts
  <2>1. t.calls \in Seq(LLMs) /\ t.doc \in Nat
    BY DEF Texts, LLMs
  <2>2. Append(t.calls, llm) \in Seq(LLMs)
    BY <2>1, AppendProperties
  <2> QED BY <2>1, <2>2 DEF Texts, LLMs
<1>3. Called(s, llm) \in [1..Len(s) -> Texts]
  BY <1>1, <1>2 DEF Called
<1> QED BY <1>1, <1>3, FunctionIsSeq DEF Called

\* Where the b-th unit of `size` ends in a list of n.
Upper(b, size, n) == IF b * size <= n THEN b * size ELSE n

UnitCount(n, size) == (n + size - 1) \div size

\* The units of a list cover it: each begins where the one before it ended,
\* none is empty, and the last one ends with the list.
LEMMA UnitBounds ==
  ASSUME NEW n \in Nat, NEW size \in Nat \ {0}
  PROVE  /\ UnitCount(n, size) \in Nat
         /\ \A b \in 1..UnitCount(n, size) :
              /\ (b - 1) * size \in Nat /\ (b - 1) * size < n
              /\ Upper(b, size, n) \in Nat /\ (b - 1) * size < Upper(b, size, n) /\ Upper(b, size, n) <= n
              /\ Upper(b - 1, size, n) = (b - 1) * size
         /\ Upper(UnitCount(n, size), size, n) = n /\ Upper(0, size, n) = 0
<1>1. PICK q : q = UnitCount(n, size)
  OBVIOUS
<1>2. n + size - 1 \in Nat
  OBVIOUS
<1>3. q \in Nat /\ q * size <= n + size - 1 /\ n + size - 1 < q * size + size
  BY <1>1, <1>2, Quotient DEF UnitCount
<1>4. ASSUME NEW b \in 1..q
      PROVE  /\ (b - 1) * size \in Nat /\ (b - 1) * size < n
             /\ b * size \in Nat /\ (b - 1) * size < b * size
  <2>1. b - 1 \in Nat /\ b \in Nat /\ b <= q
    BY <1>3
  <2>2. b * size = (b - 1) * size + size /\ (b - 1) * size \in Nat
    BY <2>1
  <2>3. b * size <= q * size
    BY <1>3, <2>1
  <2>4. q * size \in Nat /\ b * size \in Nat
    BY <1>3, <2>1
  <2> QED BY <1>3, <2>2, <2>3, <2>4
<1>5. q * size >= n
  <2>1. q * size \in Nat
    BY <1>3
  <2> QED BY <1>3, <2>1
<1>6. Upper(q, size, n) = n /\ Upper(0, size, n) = 0
  <2>1. q * size \in Nat /\ 0 * size = 0
    BY <1>3
  <2> QED BY <1>5, <2>1 DEF Upper
<1>7. ASSUME NEW b \in 1..q
      PROVE  /\ Upper(b, size, n) \in Nat /\ (b - 1) * size < Upper(b, size, n) /\ Upper(b, size, n) <= n
             /\ Upper(b - 1, size, n) = (b - 1) * size
  BY <1>4 DEF Upper
<1> QED BY <1>1, <1>3, <1>4, <1>6, <1>7

\* What _chunk makes of a list.
LEMMA ChunkText ==
  ASSUME NEW s \in Seq(Texts), NEW size \in Nat \ {0}
  PROVE  /\ DOMAIN Chunk(s, size) = 1..UnitCount(Len(s), size)
         /\ \A b \in DOMAIN Chunk(s, size) :
              /\ Chunk(s, size)[b] = SubSeq(s, (b - 1) * size + 1, Upper(b, size, Len(s)))
              /\ Chunk(s, size)[b] \in Seq(Texts)
              /\ Len(Chunk(s, size)[b]) = Upper(b, size, Len(s)) - (b - 1) * size
              /\ Len(Chunk(s, size)[b]) >= 1
              /\ \A i \in 1..Len(Chunk(s, size)[b]) : Chunk(s, size)[b][i] = s[(b - 1) * size + i]
<1>1. Len(s) \in Nat /\ \A i \in 1..Len(s) : s[i] \in Texts
  BY LenProperties, ElementOfSeq
<1>2. DOMAIN Chunk(s, size) = 1..UnitCount(Len(s), size)
  BY DEF Chunk, UnitCount
<1>3. ASSUME NEW b \in DOMAIN Chunk(s, size)
      PROVE  /\ Chunk(s, size)[b] = SubSeq(s, (b - 1) * size + 1, Upper(b, size, Len(s)))
             /\ Chunk(s, size)[b] \in Seq(Texts)
             /\ Len(Chunk(s, size)[b]) = Upper(b, size, Len(s)) - (b - 1) * size
             /\ Len(Chunk(s, size)[b]) >= 1
             /\ \A i \in 1..Len(Chunk(s, size)[b]) : Chunk(s, size)[b][i] = s[(b - 1) * size + i]
  <2>1. PICK lo, up : lo = (b - 1) * size /\ up = Upper(b, size, Len(s))
    OBVIOUS
  <2>2. lo \in Nat /\ up \in Nat /\ lo < up /\ up <= Len(s)
    BY <1>1, <1>2, <2>1, UnitBounds, Zenon
  <2>3. Chunk(s, size)[b] = SubSeq(s, lo + 1, up)
    BY <2>1 DEF Chunk, Upper
  <2>4. \A i \in lo + 1 .. up : s[i] \in Texts
    BY <1>1, <2>2
  <2>5. /\ SubSeq(s, lo + 1, up) \in Seq(Texts)
        /\ Len(SubSeq(s, lo + 1, up)) = IF lo + 1 <= up THEN up - (lo + 1) + 1 ELSE 0
        /\ \A i \in 1..(up - (lo + 1) + 1) : SubSeq(s, lo + 1, up)[i] = s[lo + 1 + i - 1]
    BY <2>2, <2>4, SubSeqProperties
  <2>6. Len(SubSeq(s, lo + 1, up)) = up - lo /\ up - (lo + 1) + 1 = up - lo
    BY <2>2, <2>5
  <2>7. ASSUME NEW i \in 1..(up - lo) PROVE SubSeq(s, lo + 1, up)[i] = s[lo + i]
    <3>1. lo + 1 + i - 1 = lo + i
      BY <2>2
    <3> QED BY <2>5, <2>6, <3>1
  <2>8. Chunk(s, size)[b] = SubSeq(s, (b - 1) * size + 1, Upper(b, size, Len(s)))
    BY <2>1, <2>3
  <2>9. Chunk(s, size)[b] \in Seq(Texts) /\ Len(Chunk(s, size)[b]) = up - lo
    BY <2>3, <2>5, <2>6
  <2>10. Len(Chunk(s, size)[b]) = Upper(b, size, Len(s)) - (b - 1) * size
    BY <2>1, <2>9
  <2>11. Len(Chunk(s, size)[b]) >= 1
    BY <2>2, <2>9
  <2>12. \A i \in 1..Len(Chunk(s, size)[b]) : Chunk(s, size)[b][i] = s[lo + i]
    BY <2>3, <2>7, <2>9
  <2>13. \A i \in 1..Len(Chunk(s, size)[b]) : Chunk(s, size)[b][i] = s[(b - 1) * size + i]
    BY <2>1, <2>12, Zenon
  <2> QED BY <2>8, <2>9, <2>10, <2>11, <2>13
<1> QED BY <1>2, <1>3

\* What passes the check is the unit's own outputs, one each and in order,
\* whichever of the modelled answers the endpoint gave.
LEMMA CheckedIsOwn ==
  ASSUME NEW sent \in Seq(Texts), Len(sent) >= 1, NEW llm \in LLMs,
         NEW got \in Answers(sent, llm), Checked(sent, got)
  PROVE  got.items = Called(sent, llm)
<1>1. PICK own : own = Called(sent, llm)
  OBVIOUS
<1>2. PICK n \in Nat : n >= 1 /\ Len(own) = n /\ Len(sent) = n
  BY <1>1, CalledText, LenProperties
<1>3. own \in Seq(Texts) /\ DOMAIN own = 1..n /\ \A k \in 1..n : own[k] \in Texts
  BY <1>1, <1>2, CalledText, LenProperties, ElementOfSeq
<1>4. got.form \in {"list", "iterator"} /\ Len(got.items) = n
  BY <1>2 DEF Checked, Ordered
<1>5. Len(Append(own, own[1])) # n
  <2>1. PICK e \in Texts : e = own[1]
    BY <1>2, <1>3
  <2>2. Len(Append(own, e)) = n + 1
    BY <1>2, <1>3, AppendProperties
  <2> QED BY <1>2, <2>1, <2>2
<1>6. ASSUME NEW k \in DOMAIN own PROVE Len(Dropping(own, k)) # n
  <2>1. PICK m \in Nat : m = n - 1
    BY <1>2
  <2>2. PICK d : d = Dropping(own, k)
    OBVIOUS
  <2>3. d \in [1..m -> Texts]
    BY <1>2, <1>3, <2>1, <2>2 DEF Dropping
  <2>4. Len(d) = m
    BY <2>3, FunctionIsSeq
  <2> QED BY <2>1, <2>2, <2>4
<1>7. CASE Running = "async+batched"
  <2>1. got \in {[form |-> f, items |-> s] : f \in {"list", "iterator"},
                   s \in {own, Append(own, own[1])} \cup {Dropping(own, k) : k \in DOMAIN own}}
    BY <1>1, <1>4, <1>7 DEF Answers, BatchAnswers
  <2>2. got.items \in {own, Append(own, own[1])} \cup {Dropping(own, k) : k \in DOMAIN own}
    BY <2>1
  <2> QED BY <1>1, <1>4, <1>5, <1>6, <2>2
<1>8. CASE Running # "async+batched"
  BY <1>1, <1>4, <1>8 DEF Answers
<1> QED BY <1>7, <1>8

\* Two calls on each text.
Twice(s) == Called(Called(s, "llm1"), "llm2")

After(text) == [[text EXCEPT !.calls = Append(@, "llm1")] EXCEPT !.calls = Append(@, "llm2")]

\* Calling twice keeps the length, and is done text by text.
LEMMA TwiceText ==
  ASSUME NEW s \in Seq(Texts)
  PROVE  /\ Twice(s) \in Seq(Texts) /\ Len(Twice(s)) = Len(s)
         /\ \A k \in 1..Len(s) : Twice(s)[k] = After(s[k])
<1>1. "llm1" \in LLMs /\ "llm2" \in LLMs
  BY DEF LLMs
<1>2. PICK c : c = Called(s, "llm1")
  OBVIOUS
<1>3. /\ c \in Seq(Texts) /\ Len(c) = Len(s)
      /\ \A k \in 1..Len(s) : c[k] = [s[k] EXCEPT !.calls = Append(@, "llm1")]
  BY <1>1, <1>2, CalledText
<1>4. PICK d : d = Called(c, "llm2")
  OBVIOUS
<1>5. /\ d \in Seq(Texts) /\ Len(d) = Len(c)
      /\ \A k \in 1..Len(c) : d[k] = [c[k] EXCEPT !.calls = Append(@, "llm2")]
  <2>1. \A x \in Seq(Texts) :
          /\ Called(x, "llm2") \in Seq(Texts) /\ Len(Called(x, "llm2")) = Len(x)
          /\ \A k \in 1..Len(x) : Called(x, "llm2")[k] = [x[k] EXCEPT !.calls = Append(@, "llm2")]
    BY <1>1, CalledText
  <2> QED BY <1>3, <1>4, <2>1, Zenon
<1>6. d = Twice(s)
  BY <1>2, <1>4 DEF Twice
<1>7. ASSUME NEW k \in 1..Len(s) PROVE d[k] = After(s[k])
  BY <1>3, <1>5 DEF After
<1> QED BY <1>3, <1>5, <1>6, <1>7

\* The unit's outputs are the slice of the list's outputs at its place.
LEMMA UnitIsSlice ==
  ASSUME NEW s \in Seq(Texts), NEW size \in Nat \ {0}, NEW b \in DOMAIN Chunk(s, size)
  PROVE  Twice(Chunk(s, size)[b]) = SubSeq(Twice(s), (b - 1) * size + 1, Upper(b, size, Len(s)))
<1>1. PICK c, lo, up : c = Chunk(s, size)[b] /\ lo = (b - 1) * size /\ up = Upper(b, size, Len(s))
  OBVIOUS
<1>2. /\ c \in Seq(Texts) /\ Len(c) = up - lo /\ \A i \in 1..Len(c) : c[i] = s[lo + i]
  BY <1>1, ChunkText
<1>3. lo \in Nat /\ up \in Nat /\ lo < up /\ up <= Len(s) /\ Len(s) \in Nat
  <2>1. b \in 1..UnitCount(Len(s), size) /\ Len(s) \in Nat
    BY ChunkText, LenProperties
  <2> QED BY <1>1, <2>1, UnitBounds, Zenon
<1>4. PICK t : t = Twice(s) /\ t \in Seq(Texts) /\ Len(t) = Len(s)
             /\ \A k \in 1..Len(s) : t[k] = After(s[k])
  BY TwiceText
<1>5. PICK d : d = Twice(c) /\ d \in Seq(Texts) /\ Len(d) = Len(c)
             /\ \A k \in 1..Len(c) : d[k] = After(c[k])
  BY <1>2, TwiceText
<1>6. \A k \in 1..Len(c) : d[k] = t[lo + k]
  <2> TAKE k \in 1..Len(c)
  <2>1. lo + k \in 1..Len(s)
    BY <1>2, <1>3
  <2> QED BY <1>2, <1>4, <1>5, <2>1
<1>7. /\ SubSeq(t, lo + 1, up) \in Seq(Texts)
      /\ Len(SubSeq(t, lo + 1, up)) = up - lo
      /\ \A i \in 1..(up - lo) : SubSeq(t, lo + 1, up)[i] = t[lo + i]
  <2>1. \A i \in lo + 1 .. up : t[i] \in Texts
    <3>1. \A i \in 1..Len(t) : t[i] \in Texts
      BY <1>4, ElementOfSeq
    <3> QED BY <1>3, <1>4, <3>1
  <2>2. /\ SubSeq(t, lo + 1, up) \in Seq(Texts)
        /\ Len(SubSeq(t, lo + 1, up)) = IF lo + 1 <= up THEN up - (lo + 1) + 1 ELSE 0
        /\ \A i \in 1..(up - (lo + 1) + 1) : SubSeq(t, lo + 1, up)[i] = t[lo + 1 + i - 1]
    BY <1>3, <2>1, SubSeqProperties
  <2>3. up - (lo + 1) + 1 = up - lo
    BY <1>3
  <2>4. ASSUME NEW i \in 1..(up - lo) PROVE SubSeq(t, lo + 1, up)[i] = t[lo + i]
    <3>1. lo + 1 + i - 1 = lo + i
      BY <1>3
    <3> QED BY <2>2, <2>3, <3>1
  <2> QED BY <1>3, <2>2, <2>3, <2>4
<1>8. d = SubSeq(t, lo + 1, up)
  <2>1. Len(d) = Len(SubSeq(t, lo + 1, up)) /\ \A i \in 1..Len(d) : d[i] = SubSeq(t, lo + 1, up)[i]
    BY <1>2, <1>3, <1>5, <1>6, <1>7
  <2> QED BY <1>5, <1>7, <2>1, SeqEqual
<1> QED BY <1>1, <1>4, <1>5, <1>8

\* Put end to end, the units' outputs are the outputs of the list: nothing is
\* lost at a seam or with a short last unit, and nothing changes places.
LEMMA FlatIsTwice ==
  ASSUME NEW s \in Seq(Texts), NEW size \in Nat \ {0},
         outs \in [DOMAIN Chunk(s, size) -> Seq(Texts)],
         \A b \in DOMAIN Chunk(s, size) : outs[b] = Twice(Chunk(s, size)[b])
  PROVE  Flat = Twice(s)
<1>1. PICK n, q, t : n = Len(s) /\ q = UnitCount(n, size) /\ t = Twice(s)
  OBVIOUS
<1>2. n \in Nat /\ q \in Nat /\ DOMAIN Chunk(s, size) = 1..q /\ t \in Seq(Texts) /\ Len(t) = n
  BY <1>1, LenProperties, UnitBounds, ChunkText, TwiceText
<1>3. Len(outs) = q
  BY <1>2, FunctionIsSeq
<1>4. PICK X : X = [u \in 0..q |-> SubSeq(t, 1, Upper(u, size, n))]
  OBVIOUS
<1>5. X[0] = <<>> /\ X[q] = t
  <2>1. Upper(0, size, n) = 0 /\ Upper(q, size, n) = n
    BY <1>1, <1>2, UnitBounds
  <2>2. SubSeq(t, 1, 0) = <<>>
    BY SubSeqEmpty
  <2>3. SubSeq(t, 1, n) = t
    BY <1>2, SubSeqFull
  <2> QED BY <1>2, <1>4, <2>1, <2>2, <2>3
<1>6. ASSUME NEW u \in 1..q PROVE X[u] = X[u - 1] \o outs[u]
  <2>1. PICK lo, up : lo = (u - 1) * size /\ up = Upper(u, size, n)
    OBVIOUS
  <2>2. lo \in Nat /\ up \in Nat /\ lo < up /\ up <= n /\ Upper(u - 1, size, n) = lo
    BY <1>1, <1>2, <2>1, UnitBounds, Zenon
  <2>3. outs[u] = SubSeq(t, lo + 1, up)
    <3>1. u \in DOMAIN Chunk(s, size)
      BY <1>2
    <3>2. Twice(Chunk(s, size)[u]) = SubSeq(Twice(s), (u - 1) * size + 1, Upper(u, size, Len(s)))
      BY <3>1, UnitIsSlice
    <3>3. outs[u] = Twice(Chunk(s, size)[u])
      BY <3>1
    <3> QED BY <1>1, <2>1, <3>2, <3>3
  <2>4. X[u - 1] = SubSeq(t, 1, lo) /\ X[u] = SubSeq(t, 1, up)
    <3>1. u - 1 \in 0..q /\ u \in 0..q
      BY <1>2
    <3> QED BY <1>4, <2>1, <2>2, <3>1
  <2>5. SubSeq(t, 1, lo) \o SubSeq(t, lo + 1, up) = SubSeq(t, 1, up)
    <3>1. 1 \in 1..Len(t) + 1 /\ lo \in 1 - 1 .. Len(t) /\ up \in lo..Len(t)
      BY <1>2, <2>2
    <3> QED BY <1>2, <3>1, ConcatAdjacentSubSeq
  <2> QED BY <2>3, <2>4, <2>5
<1>7. X = [u \in 0..q |-> IF u = 0 THEN <<>> ELSE X[u - 1] \o outs[u]]
  <2>1. ASSUME NEW u \in 0..q PROVE X[u] = IF u = 0 THEN <<>> ELSE X[u - 1] \o outs[u]
    <3>1. CASE u = 0
      BY <1>5, <3>1
    <3>2. CASE u # 0
      <4>1. u \in 1..q
        BY <1>2, <3>2
      <4> QED BY <1>6, <3>2, <4>1
    <3> QED BY <3>1, <3>2
  <2>2. X = [u \in 0..q |-> X[u]]
    BY <1>4
  <2> QED BY <2>1, <2>2
<1>8. PICK f : f = (CHOOSE g : g = [u \in 0..q |-> IF u = 0 THEN <<>> ELSE g[u - 1] \o outs[u]])
  BY Zenon
<1>9. f = [u \in 0..q |-> IF u = 0 THEN <<>> ELSE f[u - 1] \o outs[u]]
  BY <1>7, <1>8, Zenon
<1>10. \A u \in 0..q : f[u] = X[u]
  <2>1. PICK W : W = {u \in 0..q : f[u] # X[u]}
    OBVIOUS
  <2>2. ASSUME W # {} PROVE FALSE
    <3>1. W \subseteq Nat
      BY <2>1
    <3>2. PICK u \in W : \A v \in W : u <= v
      BY <2>2, <3>1, LeastOf
    <3>3. u \in 0..q /\ f[u] # X[u]
      BY <2>1
    <3>4. u # 0
      BY <1>2, <1>5, <1>9, <3>3
    <3>5. u - 1 \in 0..q /\ u \in 1..q /\ ~ (u <= u - 1)
      BY <1>2, <3>3, <3>4
    <3>6. f[u - 1] = X[u - 1]
      BY <2>1, <3>2, <3>5
    <3>7. f[u] = f[u - 1] \o outs[u]
      BY <1>9, <3>3, <3>4
    <3>8. X[u] = X[u - 1] \o outs[u]
      BY <1>6, <3>5
    <3> QED BY <3>3, <3>6, <3>7, <3>8
  <2> QED BY <2>1, <2>2
<1>11. Flat = f[q]
  BY <1>3, <1>8 DEF Flat
<1> QED BY <1>1, <1>2, <1>5, <1>10, <1>11


-----------------------------------------------------------------------------
(* The inductive invariant.                                                *)

Rows == Seq([pipeline : Pipelines, n_docs : Nat, duration : Durations,
             docs_per_second : Rates, speedup : Rates])

\* What was run and what is left make up what was asked for; nothing runs
\* that the constructors should have refused.
PlanInv ==
  /\ Len(rows) + Len(plan) = Len(job.plan)
  /\ \A k \in 1..Len(rows) : rows[k].pipeline = job.plan[k]
  /\ \A k \in 1..Len(plan) : plan[k] = job.plan[Len(rows) + k]
  /\ status = "running" => plan # <<>> /\ ~Refused
  /\ status = "published" => plan = <<>>

\* The documents, read once or again, are the caller's.
SourceInv == source \in Seq([doc : 1..job.n, calls : {<<>>}])

\* While a pipeline runs: what each unit of work has been answered.
WorkInv ==
  status = "running" =>
    /\ UnitSize(Running) \in Nat \ {0}
    /\ limit >= 1
    /\ work \in [DOMAIN Units -> {"pending", "running", "kept", "lost"}]
    /\ DOMAIN mids = DOMAIN Units /\ outs = [u \in DOMAIN Units |-> outs[u]]
    /\ \A u \in DOMAIN Units :
         /\ mids[u] \in {None, Called(Units[u], "llm1")}
         /\ outs[u] \in {None, Twice(Units[u])}
         /\ work[u] = "kept" => outs[u] # None

\* The quotients against a baseline of b ticks.
Against(b, ticks) == IF b \in {None, 0} THEN None ELSE Rate(b, ticks)

\* Every column of the table is a quotient by the row's own duration, and all
\* speedups are quotients of the same baseline.
RateInv ==
  /\ \A k \in 1..Len(rows) : rows[k].docs_per_second = Rate(rows[k].n_docs, rows[k].duration)
  /\ status = "published" =>
       /\ landing = Landing(rows)
       /\ \E b \in {None} \cup Durations : \A k \in 1..Len(rows) :
            rows[k].speedup = Against(b, rows[k].duration)

IInv == TypeOK /\ PlanInv /\ SourceInv /\ WorkInv /\ EveryDocAnswered /\ RateInv


\* What is asked for has its parts' types.
LEMMA JobType ==
  ASSUME job \in Jobs
  PROVE  /\ job.n \in Nat /\ job.concurrency \in Int /\ job.batch_size \in Int
         /\ job.plan \in Seq(Pipelines)
BY JobsAssumption DEF Job

\* None is no number, no rate and no batch.
LEMMA NoneIsApart ==
  /\ None \notin Nat
  /\ \A a, b \in Nat : <<a, b>> # None
  /\ \A s \in Seq(Texts) : s # None
BY NoneAssumption

\* The caller's documents are texts.
LEMMA DocsAreTexts ==
  ASSUME job \in Jobs, NEW s \in Seq([doc : 1..job.n, calls : {<<>>}])
  PROVE  s \in Seq(Texts)
<1>1. job.n \in Nat
  BY JobType
<1>2. <<>> \in Seq({"llm1", "llm2"})
  BY EmptySeq
<1>3. [doc : 1..job.n, calls : {<<>>}] \subseteq Texts
  <2>1. PICK T, n : T = Seq({"llm1", "llm2"}) /\ n = job.n
    OBVIOUS
  <2>2. ASSUME NEW r \in [doc : 1..n, calls : {<<>>}]
        PROVE  r \in [doc : Nat, calls : T]
    <3>1. r = [doc |-> r.doc, calls |-> r.calls] /\ r.doc \in 1..n /\ r.calls \in T
      BY <1>2, <2>1
    <3>2. r.doc \in Nat
      BY <1>1, <2>1, <3>1
    <3> QED BY <3>1, <3>2
  <2> QED BY <2>1, <2>2 DEF Texts
<1>4. Len(s) \in Nat /\ \A i \in 1..Len(s) : s[i] \in Texts
  BY <1>3, LenProperties, ElementOfSeq
<1>5. s \in [1..Len(s) -> Texts]
  <2>1. s \in [1..Len(s) -> [doc : 1..job.n, calls : {<<>>}]]
    BY LenProperties
  <2> QED BY <1>3, <2>1
<1> QED BY <1>4, <1>5, FunctionIsSeq

\* Every session begins in the invariant.
LEMMA InitInv == ASSUME Init PROVE IInv
<1>1. job \in Jobs /\ plan = job.plan /\ status = "ready" /\ docs = <<>> /\ mids = <<>>
      /\ outs = <<>> /\ work = <<>> /\ rows = <<>> /\ landing = None
  BY DEF Init
<1>2. job.n \in Nat /\ job.plan \in Seq(Pipelines)
  BY <1>1, JobType
<1>3. Len(rows) = 0 /\ Len(plan) \in Nat
  BY <1>1, <1>2, LenProperties
<1>4. TypeOK
  <2>1. docs \in Seq([doc : 1..job.n, calls : {<<>>}])
    BY <1>1, EmptySeq
  <2>2. rows \in Rows
    BY <1>1, EmptySeq DEF Rows
  <2> QED BY <1>1, <1>2, <2>1, <2>2 DEF TypeOK, Rows
<1>5. PlanInv
  BY <1>1, <1>3 DEF PlanInv
<1>6. SourceInv
  <2>1. source \in [1..job.n -> [doc : 1..job.n, calls : {<<>>}]]
    BY <1>2 DEF Init
  <2> QED BY <1>2, <2>1, FunctionIsSeq DEF SourceInv
<1>7. WorkInv /\ EveryDocAnswered /\ RateInv
  BY <1>1, <1>3 DEF WorkInv, EveryDocAnswered, RateInv
<1> QED BY <1>4, <1>5, <1>6, <1>7 DEF IInv

\* While a pipeline runs its documents stay as they are, and so do its units.
LEMMA UnitsStay ==
  ASSUME UNCHANGED <<job, plan, docs>>
  PROVE  /\ Units' = Units /\ UnitSize(Running)' = UnitSize(Running)
         /\ Running' = Running /\ Refused' = Refused
BY DEF Units, UnitSize, Running, Refused, BadWorkload, FansOut

\* A step inside a run touches nothing but the run's own bookkeeping.
LEMMA WithinARun ==
  ASSUME IInv, status = "running",
         UNCHANGED <<job, plan, status, source, docs, rows, landing>>, WorkInv'
  PROVE  IInv'
<1>1. Refused' = Refused /\ Units' = Units
  BY UnitsStay
<1>2. TypeOK'
  <2>1. /\ DOMAIN work' = DOMAIN Units' /\ DOMAIN mids' = DOMAIN Units'
        /\ DOMAIN outs' = DOMAIN Units' /\ limit' >= 1
    BY DEF WorkInv
  <2> QED BY <2>1 DEF IInv, TypeOK
<1>3. PlanInv'
  BY <1>1 DEF IInv, PlanInv
<1>4. SourceInv' /\ EveryDocAnswered' /\ RateInv'
  BY DEF IInv, SourceInv, EveryDocAnswered, RateInv
<1> QED BY <1>2, <1>3, <1>4 DEF IInv

\* The units of the run are slices of its documents, none of them empty.
LEMMA UnitText ==
  ASSUME IInv, status = "running", NEW u \in DOMAIN work
  PROVE  /\ u \in DOMAIN Units
         /\ Units[u] \in Seq(Texts) /\ Len(Units[u]) >= 1
<1>1. docs \in Seq(Texts)
  <2>1. job \in Jobs /\ docs \in Seq([doc : 1..job.n, calls : {<<>>}])
    BY DEF IInv, TypeOK
  <2> QED BY <2>1, DocsAreTexts
<1>2. UnitSize(Running) \in Nat \ {0} /\ u \in DOMAIN Units
  BY DEF IInv, WorkInv
<1>3. PICK size : size = UnitSize(Running)
  OBVIOUS
<1>4. Units = Chunk(docs, size)
  BY <1>3 DEF Units
<1> QED BY <1>1, <1>2, <1>3, <1>4, ChunkText


\* A unit begins.
LEMMA BeginStep ==
  ASSUME IInv, status = "running", NEW u \in DOMAIN work, Begin(u)
  PROVE  IInv'
<1>1. /\ work' = [work EXCEPT ![u] = "running"] /\ limit' = limit
      /\ UNCHANGED <<job, plan, status, source, docs, mids, outs, rows, landing>>
  BY DEF Begin, FanOut!Begin
<1>2. PICK U : U = Units
  OBVIOUS
<1>3. Units' = U /\ UnitSize(Running)' = UnitSize(Running)
  BY <1>1, <1>2, UnitsStay
<1>4. WorkInv'
  <2>1. /\ UnitSize(Running) \in Nat \ {0} /\ limit >= 1
        /\ work \in [DOMAIN U -> {"pending", "running", "kept", "lost"}]
        /\ DOMAIN mids = DOMAIN U /\ outs = [v \in DOMAIN U |-> outs[v]]
        /\ \A v \in DOMAIN U :
             /\ mids[v] \in {None, Called(U[v], "llm1")} /\ outs[v] \in {None, Twice(U[v])}
             /\ work[v] = "kept" => outs[v] # None
    BY <1>2 DEF IInv, WorkInv
  <2>2. work' \in [DOMAIN U -> {"pending", "running", "kept", "lost"}]
    BY <1>1, <2>1
  <2>3. \A v \in DOMAIN U : work'[v] = "kept" => work[v] = "kept"
    BY <1>1, <2>1
  <2> QED BY <1>1, <1>3, <2>1, <2>2, <2>3 DEF WorkInv
<1> QED BY <1>1, <1>4, WithinARun

\* A unit is lost, or dropped before it began: no answer was kept for it.
LEMMA LoseStep ==
  ASSUME IInv, status = "running", NEW u \in DOMAIN work,
         work' = [work EXCEPT ![u] = "lost"],
         UNCHANGED <<job, plan, status, source, docs, mids, outs, rows, landing, limit>>
  PROVE  IInv'
<1>2. PICK U : U = Units
  OBVIOUS
<1>3. Units' = U /\ UnitSize(Running)' = UnitSize(Running)
  BY <1>2, UnitsStay
<1>4. WorkInv'
  <2>1. /\ UnitSize(Running) \in Nat \ {0} /\ limit >= 1
        /\ work \in [DOMAIN U -> {"pending", "running", "kept", "lost"}]
        /\ DOMAIN mids = DOMAIN U /\ outs = [v \in DOMAIN U |-> outs[v]]
        /\ \A v \in DOMAIN U :
             /\ mids[v] \in {None, Called(U[v], "llm1")} /\ outs[v] \in {None, Twice(U[v])}
             /\ work[v] = "kept" => outs[v] # None
    BY <1>2 DEF IInv, WorkInv
  <2>2. work' \in [DOMAIN U -> {"pending", "running", "kept", "lost"}]
    BY <2>1
  <2>3. \A v \in DOMAIN U : work'[v] = "kept" => work[v] = "kept"
    BY <2>1
  <2> QED BY <1>3, <2>1, <2>2, <2>3 DEF WorkInv
<1> QED BY <1>4, WithinARun

\* The first call of a unit answers: only the unit's own outputs are kept.
LEMMA FirstCallStep ==
  ASSUME IInv, status = "running", NEW u \in DOMAIN work, FirstCall(u)
  PROVE  IInv'
<1>1. /\ UNCHANGED <<job, plan, status, source, docs, outs, rows, landing>>
      /\ \E got \in Answers(Units[u], "llm1") :
           IF Checked(Units[u], got)
           THEN mids' = [mids EXCEPT ![u] = got.items] /\ UNCHANGED fanout
           ELSE FanOut!Lose(u) /\ UNCHANGED mids
  BY DEF FirstCall
<1>2. PICK got \in Answers(Units[u], "llm1") :
        \/ Checked(Units[u], got) /\ mids' = [mids EXCEPT ![u] = got.items] /\ UNCHANGED fanout
        \/ FanOut!Lose(u) /\ UNCHANGED mids
  BY <1>1
<1>3. CASE FanOut!Lose(u) /\ UNCHANGED mids
  BY <1>1, <1>3, LoseStep DEF FanOut!Lose
<1>4. CASE Checked(Units[u], got) /\ mids' = [mids EXCEPT ![u] = got.items] /\ UNCHANGED fanout
  <2>1. PICK U : U = Units
    OBVIOUS
  <2>2. Units' = U /\ UnitSize(Running)' = UnitSize(Running)
    BY <1>1, <2>1, UnitsStay
  <2>3. got.items = Called(U[u], "llm1")
    <3>1. Units[u] \in Seq(Texts) /\ Len(Units[u]) >= 1 /\ "llm1" \in LLMs
      BY UnitText DEF LLMs
    <3> QED BY <1>4, <2>1, <3>1, CheckedIsOwn
  <2>4. mids' = [mids EXCEPT ![u] = Called(U[u], "llm1")] /\ work' = work /\ limit' = limit
    BY <1>4, <2>3 DEF fanout
  <2>5. WorkInv'
    <3>1. /\ UnitSize(Running) \in Nat \ {0} /\ limit >= 1
          /\ work \in [DOMAIN U -> {"pending", "running", "kept", "lost"}]
          /\ DOMAIN mids = DOMAIN U /\ outs = [v \in DOMAIN U |-> outs[v]]
          /\ \A v \in DOMAIN U :
               /\ mids[v] \in {None, Called(U[v], "llm1")} /\ outs[v] \in {None, Twice(U[v])}
               /\ work[v] = "kept" => outs[v] # None
      BY <2>1 DEF IInv, WorkInv
    <3>2. DOMAIN mids' = DOMAIN U /\ \A v \in DOMAIN U : mids'[v] \in {None, Called(U[v], "llm1")}
      BY <2>4, <3>1
    <3> QED BY <1>1, <2>2, <2>4, <3>1, <3>2 DEF WorkInv
  <2> QED BY <1>1, <2>5, WithinARun
<1> QED BY <1>2, <1>3, <1>4

\* The second call answers to what the first one made of the unit.
LEMMA SecondCallStep ==
  ASSUME IInv, status = "running", NEW u \in DOMAIN work, SecondCall(u)
  PROVE  IInv'
<1>1. /\ UNCHANGED <<job, plan, status, source, docs, mids, rows, landing>>
      /\ mids[u] # None
      /\ \E got \in Answers(mids[u], "llm2") :
           IF Checked(mids[u], got)
           THEN outs' = [outs EXCEPT ![u] = got.items] /\ FanOut!Keep(u)
           ELSE FanOut!Lose(u) /\ UNCHANGED outs
  BY DEF SecondCall
<1>2. PICK got \in Answers(mids[u], "llm2") :
        \/ Checked(mids[u], got) /\ outs' = [outs EXCEPT ![u] = got.items] /\ FanOut!Keep(u)
        \/ FanOut!Lose(u) /\ UNCHANGED outs
  BY <1>1
<1>3. CASE FanOut!Lose(u) /\ UNCHANGED outs
  BY <1>1, <1>3, LoseStep DEF FanOut!Lose
<1>4. CASE Checked(mids[u], got) /\ outs' = [outs EXCEPT ![u] = got.items] /\ FanOut!Keep(u)
  <2>1. PICK U : U = Units
    OBVIOUS
  <2>2. Units' = U /\ UnitSize(Running)' = UnitSize(Running)
    BY <1>1, <2>1, UnitsStay
  <2>3. /\ UnitSize(Running) \in Nat \ {0} /\ limit >= 1
        /\ work \in [DOMAIN U -> {"pending", "running", "kept", "lost"}]
        /\ DOMAIN mids = DOMAIN U /\ outs = [v \in DOMAIN U |-> outs[v]]
        /\ \A v \in DOMAIN U :
             /\ mids[v] \in {None, Called(U[v], "llm1")} /\ outs[v] \in {None, Twice(U[v])}
             /\ work[v] = "kept" => outs[v] # None
    BY <2>1 DEF IInv, WorkInv
  <2>4. PICK sent : sent = mids[u] /\ sent = Called(U[u], "llm1")
    BY <1>1, <2>3
  <2>5. U[u] \in Seq(Texts) /\ Len(U[u]) >= 1 /\ "llm1" \in LLMs /\ "llm2" \in LLMs
    BY <2>1, UnitText DEF LLMs
  <2>6. sent \in Seq(Texts) /\ Len(sent) >= 1
    BY <2>4, <2>5, CalledText
  <2>7. got.items = Called(sent, "llm2")
    BY <1>4, <2>4, <2>5, <2>6, CheckedIsOwn
  <2>8. got.items = Twice(U[u]) /\ Twice(U[u]) # None
    <3>1. Twice(U[u]) \in Seq(Texts)
      BY <2>5, TwiceText
    <3> QED BY <2>4, <2>7, <3>1, NoneIsApart DEF Twice
  <2>9. /\ outs' = [outs EXCEPT ![u] = Twice(U[u])] /\ work' = [work EXCEPT ![u] = "kept"]
        /\ limit' = limit
    BY <1>4, <2>8 DEF FanOut!Keep
  <2>10. WorkInv'
    <3>1. work' \in [DOMAIN U -> {"pending", "running", "kept", "lost"}]
      BY <2>3, <2>9
    <3>2. /\ outs' = [v \in DOMAIN U |-> outs'[v]]
          /\ \A v \in DOMAIN U : outs'[v] \in {None, Twice(U[v])}
      BY <2>3, <2>9
    <3>3. \A v \in DOMAIN U : work'[v] = "kept" => outs'[v] # None
      BY <2>3, <2>8, <2>9
    <3> QED BY <1>1, <2>2, <2>3, <2>9, <3>1, <3>2, <3>3 DEF WorkInv
  <2> QED BY <1>1, <2>10, WithinARun
<1> QED BY <1>2, <1>3, <1>4


\* run_pipeline reads the documents and opens the run.
LEMMA BeginRunStep ==
  ASSUME IInv, BeginRun
  PROVE  IInv'
<1>1. /\ status = "ready" /\ ~Refused /\ plan # <<>> /\ status' = "running"
      /\ docs' = source /\ (source' = source \/ source' = <<>>)
      /\ limit' = IF FansOut(Running) THEN job.concurrency ELSE 1
      /\ UNCHANGED <<job, plan, rows, landing>>
  BY DEF BeginRun
<1>2. /\ job \in Jobs /\ plan \in Seq(Pipelines) /\ rows \in Rows
      /\ source \in Seq([doc : 1..job.n, calls : {<<>>}])
  BY DEF IInv, TypeOK, SourceInv, Rows
<1>3. job.concurrency \in Int /\ job.batch_size \in Int /\ job.plan \in Seq(Pipelines)
  BY <1>2, JobType
<1>4. \E k \in DOMAIN job.plan : Running = job.plan[k]
  <2>1. PICK n, m : n = Len(plan) /\ m = Len(rows)
    OBVIOUS
  <2>2. n \in Nat /\ m \in Nat /\ n # 0
    BY <1>1, <1>2, <2>1, LenProperties, EmptySeq DEF Rows
  <2>3. m + n = Len(job.plan) /\ plan[1] = job.plan[m + 1]
    BY <2>1, <2>2 DEF IInv, PlanInv
  <2>4. m + 1 \in 1..Len(job.plan)
    BY <2>2, <2>3
  <2>5. Running = plan[1]
    BY <1>1, <1>2, HeadTailProperties DEF Running
  <2> QED BY <1>3, <2>3, <2>4, <2>5, LenProperties
<1>5. limit' >= 1 /\ UnitSize(Running) \in Nat \ {0}
  <2>1. PICK k \in DOMAIN job.plan : Running = job.plan[k]
    BY <1>4
  <2>2. PICK p, c, s : p = job.plan[k] /\ c = job.concurrency /\ s = job.batch_size
    OBVIOUS
  <2>3. ~ (FansOut(p) /\ c < 1) /\ ~ (p = "async+batched" /\ s < 1)
    BY <1>1, <2>1, <2>2 DEF Refused
  <2>4. p = Running /\ c \in Int /\ s \in Int
    BY <1>3, <2>1, <2>2
  <2>5. limit' >= 1
    BY <1>1, <2>2, <2>3, <2>4
  <2>6. UnitSize(Running) = IF p = "async+batched" THEN s ELSE 1
    BY <2>2, <2>4 DEF UnitSize
  <2> QED BY <2>3, <2>4, <2>5, <2>6
<1>6. PICK U : U = Chunk(source, UnitSize(Running))
  OBVIOUS
<1>7. Units' = U /\ UnitSize(Running)' = UnitSize(Running) /\ Refused' = Refused
  BY <1>1, <1>6 DEF Units, UnitSize, Running, Refused, BadWorkload, FansOut
<1>8. /\ work' = [u \in DOMAIN U |-> "pending"] /\ mids' = [u \in DOMAIN U |-> None]
      /\ outs' = [u \in DOMAIN U |-> None]
  BY <1>6 DEF BeginRun
<1>9. WorkInv'
  BY <1>1, <1>5, <1>7, <1>8 DEF WorkInv
<1>10. TypeOK'
  <2>1. DOMAIN work' = DOMAIN mids' /\ DOMAIN work' = DOMAIN outs'
    BY <1>8
  <2> QED BY <1>1, <1>2, <1>5, <2>1 DEF IInv, TypeOK
<1>11. PlanInv'
  BY <1>1, <1>7 DEF IInv, PlanInv
<1>12. SourceInv'
  <2>1. <<>> \in Seq([doc : 1..job.n, calls : {<<>>}])
    BY EmptySeq
  <2> QED BY <1>1, <1>2, <2>1 DEF SourceInv
<1>13. EveryDocAnswered' /\ RateInv'
  BY <1>1 DEF IInv, EveryDocAnswered, RateInv
<1> QED BY <1>9, <1>10, <1>11, <1>12, <1>13 DEF IInv

\* A quotient the code makes of two counts is a rate.
LEMMA RateType ==
  ASSUME NEW amount \in Nat, NEW ticks \in Nat
  PROVE  /\ Rate(amount, ticks) \in Rates
         /\ ticks # 0 => Rate(amount, ticks) = <<amount, ticks>>
         /\ ticks = 0 => Rate(amount, ticks) = None
BY DEF Rate, Rates

\* A pipeline returns and its row is made.
LEMMA EndRunStep ==
  ASSUME IInv, EndRun
  PROVE  IInv'
<1>1. PICK ticks \in Durations :
        rows' = Append(rows, [pipeline |-> Running, n_docs |-> Len(docs), duration |-> ticks,
                              docs_per_second |-> Rate(Len(docs), ticks), speedup |-> None])
  BY DEF EndRun
<1>2. /\ status = "running" /\ status' = "ready" /\ plan' = Tail(plan)
      /\ FanOut!In("kept") = DOMAIN work
      /\ UNCHANGED <<job, source, docs, mids, outs, landing, work, limit>>
  BY DEF EndRun, FanOut!Return
<1>3. /\ job \in Jobs /\ plan \in Seq(Pipelines) /\ rows \in Rows
      /\ docs \in Seq([doc : 1..job.n, calls : {<<>>}]) /\ plan # <<>> /\ ~Refused
  BY <1>2 DEF IInv, TypeOK, PlanInv, Rows
<1>4. docs \in Seq(Texts)
  BY <1>3, DocsAreTexts
<1>5. Len(docs) \in Nat /\ ticks \in Nat
  BY <1>4, LenProperties, DurationsAssumption
<1>6. /\ Running \in Pipelines /\ Running = plan[1]
      /\ Tail(plan) \in Seq(Pipelines) /\ Len(Tail(plan)) = Len(plan) - 1
      /\ \A k \in 1..Len(Tail(plan)) : Tail(plan)[k] = plan[k + 1]
  BY <1>3, HeadTailProperties, ElementOfSeq DEF Running
<1>7. PICK r : r = [pipeline |-> Running, n_docs |-> Len(docs), duration |-> ticks,
                    docs_per_second |-> Rate(Len(docs), ticks), speedup |-> None]
  OBVIOUS
<1>8. r \in [pipeline : Pipelines, n_docs : Nat, duration : Durations,
             docs_per_second : Rates, speedup : Rates]
  <2>1. Rate(Len(docs), ticks) \in Rates /\ None \in Rates
    BY <1>5, RateType DEF Rates
  <2> QED BY <1>5, <1>6, <1>7, <2>1
<1>9. PICK n \in Nat : n = Len(rows)
  BY <1>3, LenProperties DEF Rows
<1>10. /\ rows' \in Rows /\ Len(rows') = n + 1 /\ rows'[n + 1] = r
       /\ \A k \in 1..n : rows'[k] = rows[k]
  BY <1>1, <1>3, <1>7, <1>8, <1>9, AppendProperties DEF Rows
<1>11. TypeOK'
  <2>1. /\ landing \in {None} \cup 0..1999
        /\ DOMAIN work = DOMAIN mids /\ DOMAIN work = DOMAIN outs
    BY DEF IInv, TypeOK
  <2>2. plan' \in Seq(Pipelines) /\ rows' \in Rows /\ job' \in Jobs
        /\ docs' \in Seq([doc : 1..job'.n, calls : {<<>>}])
    BY <1>2, <1>3, <1>6, <1>10
  <2> QED BY <1>2, <2>1, <2>2 DEF TypeOK, Rows
<1>12. PlanInv'
  <2>1. PICK m \in Nat : m = Len(plan)
    BY <1>3, LenProperties
  <2>2. PICK p, q : p = plan' /\ q = job.plan
    OBVIOUS
  <2>3. /\ Len(p) = m - 1 /\ m >= 1 /\ \A k \in 1..(m - 1) : p[k] = plan[k + 1]
    BY <1>2, <1>3, <1>6, <2>1, <2>2, EmptySeq
  <2>4. /\ n + m = Len(q) /\ \A k \in 1..n : rows[k].pipeline = q[k]
        /\ \A k \in 1..m : plan[k] = q[n + k]
    BY <1>9, <2>1, <2>2 DEF IInv, PlanInv
  <2>5. \A k \in 1..(n + 1) : rows'[k].pipeline = q[k]
    <3> TAKE k \in 1..(n + 1)
    <3>1. CASE k = n + 1
      <4>1. r.pipeline = plan[1] /\ plan[1] = q[n + 1]
        BY <1>6, <1>7, <2>3, <2>4
      <4> QED BY <1>10, <3>1, <4>1
    <3>2. CASE k # n + 1
      <4>1. k \in 1..n
        BY <3>2
      <4> QED BY <1>10, <2>4, <4>1
    <3> QED BY <3>1, <3>2
  <2>6. \A k \in 1..(m - 1) : p[k] = q[n + 1 + k]
    <3> TAKE k \in 1..(m - 1)
    <3>1. k + 1 \in 1..m /\ n + (k + 1) = n + 1 + k
      BY <2>3
    <3> QED BY <2>3, <2>4, <3>1
  <2>7. n + 1 + (m - 1) = Len(q)
    BY <2>4
  <2> QED BY <1>2, <1>10, <2>2, <2>3, <2>5, <2>6, <2>7 DEF PlanInv
<1>13. SourceInv' /\ WorkInv'
  BY <1>2 DEF IInv, SourceInv, WorkInv
<1>14. EveryDocAnswered'
  <2>1. PICK size : size = UnitSize(Running)
    OBVIOUS
  <2>2. /\ size \in Nat \ {0} /\ Units = Chunk(docs, size)
        /\ outs = [u \in DOMAIN Chunk(docs, size) |-> outs[u]]
        /\ DOMAIN work = DOMAIN Chunk(docs, size)
        /\ work \in [DOMAIN Chunk(docs, size) -> {"pending", "running", "kept", "lost"}]
        /\ \A u \in DOMAIN Chunk(docs, size) :
             /\ outs[u] \in {None, Twice(Chunk(docs, size)[u])}
             /\ work[u] = "kept" => outs[u] # None
    BY <1>2, <2>1 DEF IInv, WorkInv, Units
  <2>3. \A u \in DOMAIN Chunk(docs, size) : outs[u] = Twice(Chunk(docs, size)[u])
    <3> TAKE u \in DOMAIN Chunk(docs, size)
    <3>1. work[u] = "kept"
      BY <1>2, <2>2 DEF FanOut!In
    <3> QED BY <2>2, <3>1
  <2>4. outs \in [DOMAIN Chunk(docs, size) -> Seq(Texts)]
    <3>1. \A u \in DOMAIN Chunk(docs, size) : Twice(Chunk(docs, size)[u]) \in Seq(Texts)
      BY <1>4, <2>2, ChunkText, TwiceText
    <3> QED BY <2>2, <2>3, <3>1
  <2>5. Flat = Twice(docs) /\ Len(Twice(docs)) = Len(docs)
    BY <1>4, <2>2, <2>3, <2>4, FlatIsTwice, TwiceText
  <2>6. Flat' = Flat
    BY <1>2 DEF Flat
  <2>7. rows'[Len(rows')].n_docs = Len(docs)
    BY <1>7, <1>10
  <2> QED BY <1>2, <2>5, <2>6, <2>7 DEF EveryDocAnswered, Twice
<1>15. RateInv'
  <2>1. \A k \in 1..(n + 1) : rows'[k].docs_per_second = Rate(rows'[k].n_docs, rows'[k].duration)
    <3> TAKE k \in 1..(n + 1)
    <3>1. CASE k = n + 1
      <4>1. r.docs_per_second = Rate(r.n_docs, r.duration)
        BY <1>7
      <4> QED BY <1>10, <3>1, <4>1
    <3>2. CASE k # n + 1
      <4>1. k \in 1..n
        BY <3>2
      <4>2. rows[k].docs_per_second = Rate(rows[k].n_docs, rows[k].duration)
        BY <1>9, <4>1 DEF IInv, RateInv
      <4> QED BY <1>10, <4>1, <4>2
    <3> QED BY <3>1, <3>2
  <2> QED BY <1>2, <1>10, <2>1 DEF RateInv
<1> QED BY <1>11, <1>12, <1>13, <1>14, <1>15 DEF IInv


\* The baseline is the duration of a row, or there is none.
LEMMA BaselineType ==
  ASSUME rows \in Rows
  PROVE  Baseline \in {None} \cup Durations
<1>1. PICK S : S = {k \in DOMAIN rows : rows[k].pipeline = "serial"}
  OBVIOUS
<1>2. CASE S = {}
  BY <1>1, <1>2 DEF Baseline
<1>3. CASE S # {}
  <2>1. DOMAIN rows = 1..Len(rows) /\ Len(rows) \in Nat
    BY LenProperties DEF Rows
  <2>2. \E i \in S : \A j \in S : i <= j
    BY <1>1, <1>3, <2>1, LeastOf
  <2>3. PICK c \in S : c = CHOOSE k \in S : \A j \in S : k <= j
    BY <2>2
  <2>4. rows[c].duration \in Durations
    <3>1. c \in 1..Len(rows)
      BY <1>1, <2>1, <2>3
    <3>2. rows[c] \in [pipeline : Pipelines, n_docs : Nat, duration : Durations,
                       docs_per_second : Rates, speedup : Rates]
      BY <3>1, ElementOfSeq DEF Rows
    <3> QED BY <3>2
  <2>5. Baseline = rows[c].duration
    BY <1>1, <1>3, <2>3 DEF Baseline
  <2> QED BY <2>4, <2>5
<1> QED BY <1>2, <1>3

\* A speedup is a quotient of the baseline.
LEMMA AgainstType ==
  ASSUME NEW b \in {None} \cup Durations, NEW d \in Durations
  PROVE  /\ Against(b, d) \in Rates
         /\ Against(b, d) # None => /\ b \in Nat \ {0} /\ d \in Nat \ {0}
                                    /\ Against(b, d) = <<b, d>>
         /\ b \in Nat \ {0} /\ d # 0 => Against(b, d) = <<b, d>>
<1>1. d \in Nat /\ (b = None \/ b \in Nat)
  BY DurationsAssumption
<1>2. b \in Nat => b # None
  BY NoneIsApart
<1> QED BY <1>1, <1>2, RateType DEF Against, Rates

\* A quotient is printed as a number of hundredths.
LEMMA PrintedType ==
  ASSUME NEW b \in Nat \ {0}, NEW d \in Nat \ {0}
  PROVE  /\ Printed(<<b, d>>) \in Nat
         /\ Printed(<<b, d>>) * (2 * d) <= 200 * b + d
         /\ 200 * b + d < Printed(<<b, d>>) * (2 * d) + 2 * d
<1>1. 200 * b + d \in Nat /\ 2 * d \in Nat \ {0}
  OBVIOUS
<1>2. Printed(<<b, d>>) = (200 * b + d) \div (2 * d)
  BY DEF Printed
<1>3. \A m \in Nat \ {0} : \A a \in Nat :
        /\ a \div m \in Nat
        /\ (a \div m) * m <= a /\ a < (a \div m) * m + m
  BY Quotient
<1>4. /\ (200 * b + d) \div (2 * d) \in Nat
      /\ ((200 * b + d) \div (2 * d)) * (2 * d) <= 200 * b + d
      /\ 200 * b + d < ((200 * b + d) \div (2 * d)) * (2 * d) + 2 * d
  BY <1>1, <1>3, Zenon
<1> QED BY <1>2, <1>4

\* Of two quotients of one number, the one by less prints as no less.
LEMMA PrintedGrows ==
  ASSUME NEW b \in Nat \ {0}, NEW c \in Nat \ {0}, NEW d \in Nat \ {0}, c <= d
  PROVE  Printed(<<b, d>>) <= Printed(<<b, c>>)
<1>1. PICK x \in Nat : x = Printed(<<b, d>>)
  BY PrintedType
<1>2. PICK y \in Nat : y = Printed(<<b, c>>)
  BY PrintedType
<1>3. x * (2 * d) <= 200 * b + d /\ 200 * b + c < y * (2 * c) + 2 * c
  BY <1>1, <1>2, PrintedType
<1>4. ASSUME x > y PROVE FALSE
  <2>1. PICK z \in Nat : z = 2 * x - 1
    BY <1>4
  <2>2. z * d <= 200 * b
    <3>1. z * d = x * (2 * d) - d
      BY <2>1
    <3> QED BY <1>3, <3>1
  <2>3. 200 * b < z * c
    <3>1. y + 1 <= x
      BY <1>4
    <3>2. (y + 1) * (2 * c) <= x * (2 * c)
      BY <3>1
    <3>3. z * c = x * (2 * c) - c /\ (y + 1) * (2 * c) = y * (2 * c) + 2 * c
      BY <2>1
    <3>4. PICK e, f, g \in Nat : e = x * (2 * c) /\ f = y * (2 * c) /\ g = z * c
      BY <2>1
    <3> QED BY <1>3, <3>2, <3>3, <3>4
  <2>4. z * c <= z * d
    BY <2>1
  <2> QED BY <2>2, <2>3, <2>4
<1> QED BY <1>1, <1>2, <1>4

\* The rows whose cells speak of a ceiling.
Measurable(table) == {j \in DOMAIN table : table[j].speedup # None /\ table[j].pipeline \notin Excluded}

Measured(table) == {table[k].speedup : k \in Measurable(table)}

\* When the rows share a baseline, the report finds the highest cell.
LEMMA LandingText ==
  ASSUME NEW table \in Rows, NEW b \in {None} \cup Durations,
         \A k \in 1..Len(table) : table[k].speedup = Against(b, table[k].duration)
  PROVE  \/ Measured(table) = {} /\ Landing(table) = None
         \/ \E c \in Measured(table) :
              /\ \A q \in Measured(table) : Printed(q) \in Nat /\ Printed(q) <= Printed(c)
              /\ Landing(table) = IF Clears(c) THEN None ELSE Printed(c)
<1>1. PICK M : M = Measured(table)
  OBVIOUS
<1>2. Landing(table) = IF M = {} THEN None
                       ELSE LET c == CHOOSE r \in M : \A q \in M : q[1] * r[2] <= r[1] * q[2]
                            IN IF Clears(c) THEN None ELSE Printed(c)
  BY <1>1 DEF Landing, Measured, Measurable
<1>3. \A q \in M : \E d \in Nat \ {0} : b \in Nat \ {0} /\ q = <<b, d>>
  <2> TAKE q \in M
  <2>1. PICK k \in DOMAIN table : q = table[k].speedup /\ q # None
    BY <1>1 DEF Measured, Measurable
  <2>2. k \in 1..Len(table)
    BY LenProperties DEF Rows
  <2>3. table[k].duration \in Durations
    <3>1. table[k] \in [pipeline : Pipelines, n_docs : Nat, duration : Durations,
                        docs_per_second : Rates, speedup : Rates]
      BY <2>2, ElementOfSeq DEF Rows
    <3> QED BY <3>1
  <2>4. PICK d \in Durations : d = table[k].duration
    BY <2>3
  <2>5. q = Against(b, d)
    BY <2>1, <2>2, <2>4
  <2> QED BY <2>1, <2>5, AgainstType
<1>4. CASE M = {}
  BY <1>1, <1>2, <1>4
<1>5. CASE M # {}
  <2>1. PICK D : D = {d \in Nat \ {0} : <<b, d>> \in M}
    OBVIOUS
  <2>2. b \in Nat \ {0} /\ D # {} /\ D \subseteq Nat
    BY <1>3, <1>5, <2>1
  <2>3. PICK e \in D : \A d \in D : e <= d
    BY <2>2, LeastOf
  <2>4. \A q \in M : \E d \in D : q = <<b, d>>
    BY <1>3, <2>1
  <2>5. \A q \in M : q[1] * <<b, e>>[2] <= <<b, e>>[1] * q[2]
    <3> TAKE q \in M
    <3>1. PICK d \in D : q = <<b, d>>
      BY <2>4
    <3>2. b \in Nat /\ d \in Nat /\ e \in Nat /\ e <= d
      BY <2>1, <2>2, <2>3
    <3>3. b * e <= b * d
      BY <3>2
    <3> QED BY <3>1, <3>3
  <2>6. <<b, e>> \in M
    BY <2>1, <2>3
  <2>7. PICK c \in M : /\ c = CHOOSE r \in M : \A q \in M : q[1] * r[2] <= r[1] * q[2]
                       /\ \A q \in M : q[1] * c[2] <= c[1] * q[2]
    BY <2>5, <2>6
  <2>8. \A q \in M : Printed(q) \in Nat /\ Printed(q) <= Printed(c)
    <3> TAKE q \in M
    <3>1. PICK d \in Nat \ {0} : q = <<b, d>>
      BY <1>3
    <3>2. PICK f \in Nat \ {0} : c = <<b, f>>
      BY <1>3
    <3>3. b * f <= b * d
      BY <2>7, <3>1, <3>2
    <3>4. f <= d
      BY <2>2, <3>3
    <3> QED BY <2>2, <3>1, <3>2, <3>4, PrintedType, PrintedGrows
  <2>9. Landing(table) = IF Clears(c) THEN None ELSE Printed(c)
    BY <1>2, <1>5, <2>7
  <2> QED BY <1>1, <2>7, <2>8, <2>9
<1> QED BY <1>4, <1>5


\* attach_speedup, then the report.
LEMMA PublishStep ==
  ASSUME IInv, Publish
  PROVE  IInv'
<1>1. /\ status = "ready" /\ plan = <<>> /\ status' = "published" /\ rows' = AttachSpeedup
      /\ landing' = Landing(rows')
      /\ UNCHANGED <<job, plan, source, docs, mids, outs, work, limit>>
  BY DEF Publish, fanout
<1>2. rows \in Rows /\ job \in Jobs
  BY DEF IInv, TypeOK, Rows
<1>3. PICK n \in Nat : n = Len(rows) /\ DOMAIN rows = 1..n
  BY <1>2, LenProperties DEF Rows
<1>4. PICK b \in {None} \cup Durations : b = Baseline
  BY <1>2, BaselineType
<1>5. rows' = [k \in 1..n |-> [rows[k] EXCEPT !.speedup = Against(b, rows[k].duration)]]
  BY <1>1, <1>3, <1>4 DEF AttachSpeedup, Speedup, Against
<1>6. ASSUME NEW k \in 1..n
      PROVE  /\ rows'[k] \in [pipeline : Pipelines, n_docs : Nat, duration : Durations,
                              docs_per_second : Rates, speedup : Rates]
             /\ rows'[k].pipeline = rows[k].pipeline
             /\ rows'[k].n_docs = rows[k].n_docs /\ rows'[k].duration = rows[k].duration
             /\ rows'[k].docs_per_second = rows[k].docs_per_second
             /\ rows'[k].speedup = Against(b, rows'[k].duration)
  <2>1. PICK r : r = rows[k]
    OBVIOUS
  <2>2. r \in [pipeline : Pipelines, n_docs : Nat, duration : Durations,
               docs_per_second : Rates, speedup : Rates]
    BY <1>2, <1>3, <2>1, ElementOfSeq DEF Rows
  <2>3. PICK a \in Rates : a = Against(b, r.duration)
    BY <2>2, AgainstType
  <2>4. rows'[k] = [r EXCEPT !.speedup = a]
    BY <1>5, <2>1, <2>3
  <2>5. PICK e : e = [r EXCEPT !.speedup = a]
    OBVIOUS
  <2>6. /\ e \in [pipeline : Pipelines, n_docs : Nat, duration : Durations,
                  docs_per_second : Rates, speedup : Rates]
        /\ e.pipeline = r.pipeline /\ e.n_docs = r.n_docs /\ e.duration = r.duration
        /\ e.docs_per_second = r.docs_per_second /\ e.speedup = a
    BY <2>2, <2>5
  <2> QED BY <2>1, <2>3, <2>4, <2>5, <2>6
<1>7. rows' \in Rows /\ Len(rows') = n
  <2>1. rows' \in [1..n -> [pipeline : Pipelines, n_docs : Nat, duration : Durations,
                            docs_per_second : Rates, speedup : Rates]]
    BY <1>5, <1>6
  <2> QED BY <2>1, FunctionIsSeq DEF Rows
<1>8. landing' \in {None} \cup 0..1999
  <2>1. PICK t, l : t = rows' /\ l = landing' /\ l = Landing(t)
    BY <1>1
  <2>2. t \in Rows /\ \A k \in 1..Len(t) : t[k].speedup = Against(b, t[k].duration)
    BY <1>6, <1>7, <2>1
  <2>3. CASE Landing(t) = None
    BY <2>1, <2>3
  <2>4. CASE Landing(t) # None
    <3>1. PICK c \in Measured(t) : /\ Printed(c) \in Nat
                                   /\ Landing(t) = IF Clears(c) THEN None ELSE Printed(c)
      BY <2>2, <2>4, LandingText
    <3>2. Landing(t) = Printed(c) /\ Printed(c) < 2000
      BY <2>4, <3>1 DEF Clears
    <3>3. PICK p \in Nat : p = Printed(c)
      BY <3>1
    <3>4. l = p
      BY <2>1, <3>2, <3>3
    <3>5. p \in 0..1999
      BY <3>2, <3>3
    <3> QED BY <2>1, <3>4, <3>5
  <2> QED BY <2>3, <2>4
<1>9. TypeOK'
  <2>1. DOMAIN work = DOMAIN mids /\ DOMAIN work = DOMAIN outs
    BY DEF IInv, TypeOK
  <2>2. plan \in Seq(Pipelines) /\ docs \in Seq([doc : 1..job.n, calls : {<<>>}])
    BY DEF IInv, TypeOK
  <2> QED BY <1>1, <1>2, <1>7, <1>8, <2>1, <2>2 DEF TypeOK, Rows
<1>10. PlanInv'
  <2>1. /\ n + Len(plan) = Len(job.plan)
        /\ \A k \in 1..n : rows[k].pipeline = job.plan[k]
        /\ \A k \in 1..Len(plan) : plan[k] = job.plan[n + k]
    BY <1>3 DEF IInv, PlanInv
  <2> QED BY <1>1, <1>6, <1>7, <2>1 DEF PlanInv
<1>11. SourceInv' /\ WorkInv' /\ EveryDocAnswered'
  BY <1>1 DEF IInv, SourceInv, WorkInv, EveryDocAnswered
<1>12. RateInv'
  <2>1. \A k \in 1..n : rows[k].docs_per_second = Rate(rows[k].n_docs, rows[k].duration)
    BY <1>3 DEF IInv, RateInv
  <2>2. \A k \in 1..n : rows'[k].docs_per_second = Rate(rows'[k].n_docs, rows'[k].duration)
    BY <1>6, <2>1
  <2> QED BY <1>1, <1>4, <1>6, <1>7, <2>2 DEF RateInv
<1> QED BY <1>9, <1>10, <1>11, <1>12 DEF IInv

\* What a step leaves alone keeps its type.
LEMMA TypeStays ==
  ASSUME TypeOK, UNCHANGED <<job, plan, docs, mids, outs, rows, landing, work, limit>>,
         status' \in {"refused", "raised", status}
  PROVE  TypeOK'
<1>1. /\ job \in Jobs /\ plan \in Seq(Pipelines) /\ rows \in Rows
      /\ docs \in Seq([doc : 1..job.n, calls : {<<>>}])
  BY DEF TypeOK, Rows
<1>2. /\ job' \in Jobs /\ plan' \in Seq(Pipelines) /\ rows' \in Rows
      /\ docs' \in Seq([doc : 1..job'.n, calls : {<<>>}])
  BY <1>1
<1>3. /\ status \in {"ready", "running", "refused", "raised", "published"}
      /\ landing \in {None} \cup 0..1999
      /\ DOMAIN work = DOMAIN mids /\ DOMAIN work = DOMAIN outs
      /\ status = "running" => limit >= 1
  BY DEF TypeOK
<1>4. /\ status' \in {"ready", "running", "refused", "raised", "published"}
      /\ landing' \in {None} \cup 0..1999
      /\ DOMAIN work' = DOMAIN mids' /\ DOMAIN work' = DOMAIN outs'
      /\ status' = "running" => limit' >= 1
  BY <1>3
<1> QED BY <1>2, <1>4 DEF TypeOK, Rows

\* A table that stays as it is stays true of its session.
LEMMA TableStays ==
  ASSUME IInv, UNCHANGED <<docs, outs, rows, landing>>, status' \in {"refused", "raised", status}
  PROVE  EveryDocAnswered' /\ RateInv'
<1>1. Flat' = Flat
  BY DEF Flat
<1>2. EveryDocAnswered'
  BY <1>1 DEF IInv, EveryDocAnswered
<1>3. RateInv'
  BY DEF IInv, RateInv
<1> QED BY <1>2, <1>3

\* A session that is refused or raises ends with what it has.
LEMMA EndedStep ==
  ASSUME IInv, status' \in {"refused", "raised"},
         UNCHANGED <<job, plan, source, docs, mids, outs, rows, landing, work, limit>>
  PROVE  IInv'
<1>1. TypeOK'
  BY TypeStays DEF IInv
<1>2. PlanInv'
  BY DEF IInv, PlanInv
<1>3. SourceInv' /\ WorkInv'
  BY DEF IInv, SourceInv, WorkInv
<1>4. EveryDocAnswered' /\ RateInv'
  BY TableStays
<1> QED BY <1>1, <1>2, <1>3, <1>4 DEF IInv

\* Every step keeps the invariant.
LEMMA StepInv == ASSUME IInv, [Next]_vars PROVE IInv'
<1>1. CASE Refuse
  BY <1>1, EndedStep DEF Refuse, fanout
<1>2. CASE BeginRun
  BY <1>2, BeginRunStep
<1>3. ASSUME status = "running", NEW u \in DOMAIN work,
             Begin(u) \/ FirstCall(u) \/ SecondCall(u) \/ TearDown(u)
      PROVE  IInv'
  <2>1. CASE Begin(u)
    BY <1>3, <2>1, BeginStep
  <2>2. CASE FirstCall(u)
    BY <1>3, <2>2, FirstCallStep
  <2>3. CASE SecondCall(u)
    BY <1>3, <2>3, SecondCallStep
  <2>4. CASE TearDown(u)
    BY <1>3, <2>4, LoseStep DEF TearDown, FanOut!Lose, FanOut!Drop
  <2> QED BY <1>3, <2>1, <2>2, <2>3, <2>4
<1>4. CASE Interrupt
  <2>1. /\ status = "running"
        /\ UNCHANGED <<job, plan, status, source, docs, mids, outs, rows, landing, work, limit>>
    BY <1>4 DEF Interrupt, FanOut!Doom
  <2>2. WorkInv'
    <3>1. Units' = Units /\ UnitSize(Running)' = UnitSize(Running) /\ WorkInv
      BY <2>1, UnitsStay DEF IInv
    <3> QED BY <2>1, <3>1 DEF WorkInv
  <2> QED BY <2>1, <2>2, WithinARun
<1>5. CASE Raise
  BY <1>5, EndedStep DEF Raise, FanOut!Raise
<1>6. CASE EndRun
  BY <1>6, EndRunStep
<1>7. CASE Publish
  BY <1>7, PublishStep
<1>8. CASE UNCHANGED vars
  <2>1. UNCHANGED <<job, plan, status, source, docs, mids, outs, rows, landing, work, limit>>
    BY <1>8 DEF vars, fanout
  <2>2. Units' = Units /\ UnitSize(Running)' = UnitSize(Running) /\ Refused' = Refused
    BY <2>1, UnitsStay
  <2>3. TypeOK' /\ PlanInv'
    <3>1. TypeOK'
      BY <2>1, TypeStays DEF IInv
    <3>2. PlanInv'
      BY <2>1, <2>2 DEF IInv, PlanInv
    <3> QED BY <3>1, <3>2
  <2>4. WorkInv'
    BY <2>1, <2>2 DEF IInv, WorkInv
  <2>5. SourceInv' /\ EveryDocAnswered' /\ RateInv'
    <3>1. SourceInv'
      BY <2>1 DEF IInv, SourceInv
    <3> QED BY <2>1, <3>1, TableStays
  <2> QED BY <2>3, <2>4, <2>5 DEF IInv
<1> QED BY <1>1, <1>2, <1>3, <1>4, <1>5, <1>6, <1>7, <1>8 DEF Next, Ended

\* The inductive invariant holds of every session.
THEOREM BenchmarkInvariance == Spec => []IInv
BY InitInv, StepInv, PTL DEF Spec

-----------------------------------------------------------------------------
(* What a session promises.                                                *)

\* No published rate was divided by a run that took no time, and no run
\* begins with room for nobody (#28), whatever is asked for.
THEOREM BenchmarkTyped == Spec => []TypeOK
<1>1. IInv => TypeOK
  BY DEF IInv
<1> QED BY <1>1, BenchmarkInvariance, PTL

\* What a batch sends on and returns are outputs for its own documents, one
\* each and in their order, whatever its endpoint answers, short of a list of
\* the right length in another order (#226, #229, #231).
THEOREM BatchesAlwaysAligned == Spec => []BatchesStayAligned
<1>1. ASSUME IInv PROVE BatchesStayAligned
  <2>1. ASSUME status = "running", NEW u \in DOMAIN work
        PROVE  /\ mids[u] # None => mids[u] = Called(Units[u], "llm1")
               /\ outs[u] # None => outs[u] = Called(Called(Units[u], "llm1"), "llm2")
               /\ work[u] = "kept" => outs[u] # None
    <3>1. u \in DOMAIN Units
      BY <1>1, <2>1, UnitText
    <3> QED BY <1>1, <2>1, <3>1 DEF IInv, WorkInv, Twice
  <2> QED BY <2>1 DEF BatchesStayAligned
<1> QED BY <1>1, BenchmarkInvariance, PTL

\* A run that returns has called both LLMs on every document it read and
\* returns the outputs in document order, for every batch size.
THEOREM EveryDocAlwaysAnswered == Spec => []EveryDocAnswered
<1>1. IInv => EveryDocAnswered
  BY DEF IInv
<1> QED BY <1>1, BenchmarkInvariance, PTL

\* The less time the same work takes, the higher its quotient reads.
LEMMA LessTimeIsAbove ==
  ASSUME NEW amount \in Nat, NEW c \in Nat, NEW d \in Nat, c < d
  PROVE  Above(Rate(amount, c), Rate(amount, d))
<1>1. Rate(amount, d) = <<amount, d>> /\ <<amount, d>> # None
  BY RateType, NoneIsApart
<1>2. amount * d >= amount * c
  OBVIOUS
<1>3. c = 0 \/ Rate(amount, c) = <<amount, c>>
  BY RateType
<1>4. c = 0 => Rate(amount, c) = None
  BY RateType
<1>5. CASE c = 0
  BY <1>4, <1>5 DEF Above
<1>6. CASE c # 0
  <2>1. PICK r, s : r = <<amount, c>> /\ s = <<amount, d>>
    OBVIOUS
  <2>2. r[1] * s[2] >= s[1] * r[2]
    BY <1>2, <2>1
  <2> QED BY <1>1, <1>3, <1>6, <2>1, <2>2 DEF Above
<1> QED BY <1>5, <1>6

\* Of two published rows the faster one never reads as the slower, in either
\* column, and there is a row for every run, in order (#60, #94).
THEOREM FasterNeverBelow == Spec => []FasterNeverRanksLower
<1>1. ASSUME IInv PROVE FasterNeverRanksLower
  <2> SUFFICES ASSUME status = "published"
               PROVE  /\ [k \in DOMAIN rows |-> rows[k].pipeline] = job.plan
                      /\ \A j, k \in DOMAIN rows : rows[j].duration < rows[k].duration =>
                           /\ Above(rows[j].speedup, rows[k].speedup)
                           /\ rows[j].n_docs = rows[k].n_docs =>
                                Above(rows[j].docs_per_second, rows[k].docs_per_second)
    BY DEF FasterNeverRanksLower
  <2>1. rows \in Rows /\ job.plan \in Seq(Pipelines)
    BY <1>1, JobType DEF IInv, TypeOK, Rows
  <2>2. PICK n \in Nat : n = Len(rows) /\ DOMAIN rows = 1..n
    BY <2>1, LenProperties DEF Rows
  <2>3. [k \in DOMAIN rows |-> rows[k].pipeline] = job.plan
    <3>1. plan = <<>> /\ Len(rows) + Len(plan) = Len(job.plan)
          /\ \A k \in 1..Len(rows) : rows[k].pipeline = job.plan[k]
      BY <1>1 DEF IInv, PlanInv
    <3>2. Len(job.plan) = n
      BY <2>2, <3>1
    <3>3. job.plan = [k \in 1..n |-> job.plan[k]]
      BY <2>1, <3>2, LenProperties
    <3> QED BY <2>2, <3>1, <3>3
  <2>4. ASSUME NEW j \in DOMAIN rows, NEW k \in DOMAIN rows, rows[j].duration < rows[k].duration
        PROVE  /\ Above(rows[j].speedup, rows[k].speedup)
               /\ rows[j].n_docs = rows[k].n_docs =>
                    Above(rows[j].docs_per_second, rows[k].docs_per_second)
    <3>1. /\ rows[j] \in [pipeline : Pipelines, n_docs : Nat, duration : Durations,
                          docs_per_second : Rates, speedup : Rates]
          /\ rows[k] \in [pipeline : Pipelines, n_docs : Nat, duration : Durations,
                          docs_per_second : Rates, speedup : Rates]
      BY <2>1, <2>2, ElementOfSeq DEF Rows
    <3>2. PICK c, d \in Durations : c = rows[j].duration /\ d = rows[k].duration
      BY <3>1
    <3>3. c \in Nat /\ d \in Nat /\ c < d
      BY <2>4, <3>2, DurationsAssumption
    <3>4. Above(rows[j].speedup, rows[k].speedup)
      <4>1. PICK b \in {None} \cup Durations :
              rows[j].speedup = Against(b, c) /\ rows[k].speedup = Against(b, d)
        BY <1>1, <2>2, <3>2 DEF IInv, RateInv
      <4>2. CASE b \in {None, 0}
        BY <4>1, <4>2 DEF Against, Above
      <4>3. CASE b \notin {None, 0}
        <5>1. b \in Nat
          BY <4>3, DurationsAssumption
        <5> QED BY <3>3, <4>1, <4>3, <5>1, LessTimeIsAbove DEF Against
      <4> QED BY <4>2, <4>3
    <3>5. ASSUME rows[j].n_docs = rows[k].n_docs
          PROVE  Above(rows[j].docs_per_second, rows[k].docs_per_second)
      <4>1. PICK m \in Nat : m = rows[j].n_docs /\ m = rows[k].n_docs
        BY <3>1, <3>5
      <4>2. rows[j].docs_per_second = Rate(m, c) /\ rows[k].docs_per_second = Rate(m, d)
        BY <1>1, <2>2, <3>2, <4>1 DEF IInv, RateInv
      <4> QED BY <3>3, <4>2, LessTimeIsAbove
    <3> QED BY <3>4, <3>5
  <2> QED BY <2>3, <2>4
<1> QED BY <1>1, BenchmarkInvariance, PTL

\* The report puts real APIs below a ceiling only if its table shows that
\* ceiling, and in the 5-20x range only if no cell speaks against it (#129,
\* #140, #165, #198).
THEOREM LandingAlwaysMatches == Spec => []LandingMatchesTable
<1>1. ASSUME IInv PROVE LandingMatchesTable
  <2> SUFFICES ASSUME status = "published"
               PROVE  IF landing = None
                      THEN FanOutCells = {} \/ \E c \in FanOutCells : c >= 2000
                      ELSE /\ landing \in FanOutCells /\ landing < 2000
                           /\ \A c \in FanOutCells : c <= landing
    BY DEF LandingMatchesTable
  <2>1. rows \in Rows /\ landing = Landing(rows)
    BY <1>1 DEF IInv, TypeOK, Rows, RateInv
  <2>2. PICK b \in {None} \cup Durations :
          \A k \in 1..Len(rows) : rows[k].speedup = Against(b, rows[k].duration)
    BY <1>1 DEF IInv, RateInv
  <2>3. {j \in DOMAIN rows : rows[j].pipeline = "async" /\ rows[j].speedup # None} = Measurable(rows)
    <3>1. \A j \in DOMAIN rows : rows[j].pipeline \in Pipelines
      <4>1. \A j \in 1..Len(rows) : rows[j] \in [pipeline : Pipelines, n_docs : Nat,
              duration : Durations, docs_per_second : Rates, speedup : Rates]
        BY <2>1, ElementOfSeq DEF Rows
      <4> QED BY <2>1, <4>1, LenProperties DEF Rows
    <3> QED BY <3>1 DEF Measurable, Excluded, Pipelines
  <2>4. FanOutCells = {Printed(q) : q \in Measured(rows)}
    BY <2>3 DEF FanOutCells, Measured
  <2>5. CASE Measured(rows) = {} /\ Landing(rows) = None
    BY <2>1, <2>4, <2>5
  <2>6. ASSUME NEW c \in Measured(rows),
               \A q \in Measured(rows) : Printed(q) \in Nat /\ Printed(q) <= Printed(c),
               Landing(rows) = IF Clears(c) THEN None ELSE Printed(c)
        PROVE  IF landing = None
               THEN FanOutCells = {} \/ \E x \in FanOutCells : x >= 2000
               ELSE /\ landing \in FanOutCells /\ landing < 2000
                    /\ \A x \in FanOutCells : x <= landing
    <3>1. Printed(c) \in Nat /\ Printed(c) \in FanOutCells /\ Printed(c) # None
      BY <2>4, <2>6, NoneIsApart
    <3>2. \A x \in FanOutCells : x <= Printed(c)
      BY <2>4, <2>6
    <3>3. CASE Clears(c)
      BY <2>1, <2>6, <3>1, <3>3 DEF Clears
    <3>4. CASE ~ Clears(c)
      BY <2>1, <2>6, <3>1, <3>2, <3>4 DEF Clears
    <3> QED BY <3>3, <3>4
  <2> QED BY <2>1, <2>2, <2>5, <2>6, LandingText
<1> QED BY <1>1, BenchmarkInvariance, PTL
=============================================================================
