------------------------- MODULE TimeseriesSendProofs -------------------------
(***************************************************************************)
(* Proofs about TimeseriesSend, for any slab, payload and batch: messages  *)
(* never overrun their buffer, no block of the slab is leaked or shared,   *)
(* and the entries are sent once and in order.                             *)
(***************************************************************************)
EXTENDS TimeseriesSend, FiniteSetTheorems, TLAPS

-----------------------------------------------------------------------------
(* The JSON encoder *)

\* Induction over the natural numbers, for a set of them.
LEMMA NatSetInduction ==
  ASSUME NEW S, 0 \in S, \A n \in Nat : n \in S => n + 1 \in S
  PROVE  \A n \in Nat : n \in S
<1> DEFINE Less == {ss \in Nat \X Nat : ss[1] < ss[2]}
           T == Nat \ S
<1>1. IsWellFoundedOn(Less, Nat)
  BY NatLessThanWellFounded DEF OpToRel
<1>2. ASSUME T # {} PROVE FALSE
  <2>1. PICK m \in T : \A k \in T : ~(<<k, m>> \in Less)
    BY <1>1, <1>2, WFMin
  <2>2. m \in Nat /\ m # 0
    BY <2>1
  <2>3. m - 1 \in Nat /\ m - 1 < m /\ (m - 1) + 1 = m
    BY <2>2
  <2>4. <<m - 1, m>> \in Less
    BY <2>2, <2>3
  <2>5. m - 1 \in S
    BY <2>1, <2>3, <2>4
  <2>. QED BY <2>1, <2>3, <2>5
<1>. QED BY <1>2

\* What the encoder's loop is about.
Loops == [pos : Int, left : Int, encoded : Nat, exit : {"no", "full", EINVAL}]

Sizes == Seq(Nat \cup {Unencodable})

\* After i entries: no more are encoded, what is written and what is left
\* make up the buffer, and the bracket and the delimiter have their places.
LoopInv(loop, len, i) ==
  /\ loop \in Loops
  /\ loop.encoded <= i
  /\ loop.pos = len - loop.left
  /\ loop.left >= 2

LEMMA EntryKeeps ==
  ASSUME NEW size \in Nat \cup {Unencodable}, NEW len \in Nat, NEW i \in Nat,
         NEW loop, LoopInv(loop, len, i)
  PROVE  LoopInv(EncodeEntry(loop, size), len, i + 1)
<1> DEFINE left == loop.left - Comma(loop)
<1>1. /\ loop.pos \in Int /\ loop.left \in Int /\ loop.encoded \in Nat
      /\ Comma(loop) \in {0, 1}
      /\ left \in Int
  BY DEF LoopInv, Loops, Comma
<1>2. ASSUME NEW why \in {"full", EINVAL},
             EncodeEntry(loop, size) = [loop EXCEPT !.exit = why]
      PROVE  LoopInv(EncodeEntry(loop, size), len, i + 1)
  BY <1>2 DEF LoopInv, Loops
<1>3. CASE \/ loop.encoded > 0 /\ loop.left <= 2
           \/ size = Unencodable
           \/ ~Fits(size, left - 2)
  <2>1. \/ EncodeEntry(loop, size) = [loop EXCEPT !.exit = "full"]
        \/ EncodeEntry(loop, size) = [loop EXCEPT !.exit = EINVAL]
    BY <1>3 DEF EncodeEntry
  <2>. QED BY <2>1, <1>2
<1>4. CASE /\ ~(loop.encoded > 0 /\ loop.left <= 2)
           /\ size # Unencodable
           /\ Fits(size, left - 2)
  <2>1. EncodeEntry(loop, size) =
            [loop EXCEPT !.pos = @ + Comma(loop) + size,
                         !.left = left - size,
                         !.encoded = @ + 1]
    BY <1>4 DEF EncodeEntry
  <2>2. size \in Nat
    BY <1>4
  <2>3. /\ loop.pos + Comma(loop) + size = len - (left - size)
        /\ loop.pos + Comma(loop) + size \in Int
        /\ left - size \in Int
        /\ loop.encoded + 1 \in Nat /\ loop.encoded + 1 <= i + 1
    BY <1>1, <2>2 DEF LoopInv
  <2>4. left - size >= 2
    <3>1. CASE size = 0
      BY <1>1, <1>4, <3>1 DEF Comma, LoopInv
    <3>2. CASE size < left - 2
      BY <1>1, <2>2, <3>2
    <3>. QED BY <1>4, <3>1, <3>2 DEF Fits
  <2>. QED BY <2>1, <2>3, <2>4 DEF LoopInv, Loops
<1>. QED BY <1>3, <1>4

\* The recursive function of EncodeLoop, up to n.
IsLoop(after, sizes, len, n) ==
    after = [i \in 0 .. n |->
                IF i = 0
                THEN [pos |-> 1, left |-> len - 1, encoded |-> 0, exit |-> "no"]
                ELSE IF after[i - 1].exit = "no"
                     THEN EncodeEntry(after[i - 1], sizes[i])
                     ELSE after[i - 1]]

\* There is such a function, so that EncodeLoop is one of them.
LEMMA LoopExists ==
  ASSUME NEW sizes, NEW len, NEW n \in Nat
  PROVE  \E after : IsLoop(after, sizes, len, n)
<1> DEFINE Begin == [pos |-> 1, left |-> len - 1, encoded |-> 0, exit |-> "no"]
           Step(loop, i) == IF loop.exit = "no"
                            THEN EncodeEntry(loop, sizes[i]) ELSE loop
           S == {m \in Nat : \E after : IsLoop(after, sizes, len, m)}
<1>1. 0 \in S
  <2> DEFINE f == [i \in 0 .. 0 |-> Begin]
  <2>1. IsLoop(f, sizes, len, 0)
    BY DEF IsLoop
  <2>. QED BY <2>1
<1>2. ASSUME NEW m \in Nat, m \in S PROVE m + 1 \in S
  <2>1. PICK f : IsLoop(f, sizes, len, m)
    BY <1>2
  <2> DEFINE g == [i \in 0 .. m + 1 |->
                      IF i = m + 1 THEN Step(f[m], i) ELSE f[i]]
  <2>2. /\ f[0] = Begin
        /\ \A i \in 1 .. m : f[i] = Step(f[i - 1], i)
    BY <2>1 DEF IsLoop
  <2>3. \A i \in 1 .. m + 1 : g[i - 1] = f[i - 1]
    OBVIOUS
  <2>4. g[0] = Begin
    BY <2>2
  <2>5. \A i \in 1 .. m + 1 : g[i] = Step(g[i - 1], i)
    BY <2>2, <2>3
  <2> HIDE DEF Step, Begin
  <2>6. g = [i \in 0 .. m + 1 |-> IF i = 0 THEN Begin ELSE Step(g[i - 1], i)]
    <3> DEFINE h == [i \in 0 .. m + 1 |->
                        IF i = 0 THEN Begin ELSE Step(g[i - 1], i)]
    <3>1. \A i \in 0 .. m + 1 : g[i] = h[i]
      <4> TAKE i \in 0 .. m + 1
      <4>1. CASE i = 0
        BY <4>1, <2>4
      <4>2. CASE i \in 1 .. m + 1
        <5>1. h[i] = Step(g[i - 1], i)
          BY <4>2
        <5>2. g[i] = Step(g[i - 1], i)
          BY <4>2, <2>5
        <5>. QED BY <5>1, <5>2
      <4>. QED BY <4>1, <4>2
    <3>. QED BY <3>1
  <2>7. IsLoop(g, sizes, len, m + 1)
    BY <2>6 DEF IsLoop, Step, Begin
  <2>. QED BY <2>7
<1> HIDE DEF S
<1>3. n \in S
  BY <1>1, <1>2, NatSetInduction
<1>. QED BY <1>3 DEF S

\* The recursive function of SumOfSizes, up to n.
IsSum(upto, sizes, n) ==
    upto = [i \in 0 .. n |-> IF i = 0 THEN 0 ELSE upto[i - 1] + sizes[i]]

LEMMA SumExists ==
  ASSUME NEW sizes, NEW n \in Nat
  PROVE  \E upto : IsSum(upto, sizes, n)
<1> DEFINE S == {m \in Nat : \E upto : IsSum(upto, sizes, m)}
<1>1. 0 \in S
  <2>1. IsSum([i \in 0 .. 0 |-> 0], sizes, 0)
    BY DEF IsSum
  <2>. QED BY <2>1
<1>2. ASSUME NEW m \in Nat, m \in S PROVE m + 1 \in S
  <2>1. PICK f : IsSum(f, sizes, m)
    BY <1>2
  <2> DEFINE g == [i \in 0 .. m + 1 |->
                      IF i = m + 1 THEN f[m] + sizes[i] ELSE f[i]]
             h == [i \in 0 .. m + 1 |->
                      IF i = 0 THEN 0 ELSE g[i - 1] + sizes[i]]
  <2>2. f[0] = 0 /\ \A i \in 1 .. m : f[i] = f[i - 1] + sizes[i]
    BY <2>1 DEF IsSum
  <2>3. \A i \in 1 .. m + 1 : g[i - 1] = f[i - 1]
    OBVIOUS
  <2>4. \A i \in 0 .. m + 1 : g[i] = h[i]
    <3> TAKE i \in 0 .. m + 1
    <3>1. CASE i = 0
      BY <2>2, <3>1
    <3>2. CASE i \in 1 .. m + 1
      <4>1. g[i] = f[i - 1] + sizes[i]
        BY <2>2, <3>2
      <4>2. h[i] = g[i - 1] + sizes[i]
        BY <3>2
      <4>. QED BY <2>3, <3>2, <4>1, <4>2
    <3>. QED BY <3>1, <3>2
  <2>5. g = h
    BY <2>4
  <2>6. IsSum(g, sizes, m + 1)
    BY <2>5 DEF IsSum
  <2>. QED BY <2>6
<1> HIDE DEF S
<1>3. n \in S
  BY <1>1, <1>2, NatSetInduction
<1>. QED BY <1>3 DEF S

\* The sums of the first entries of a list, by their number.
SumOfFirst(sizes) ==
    [n \in 0 .. Len(sizes) |-> SumOfSizes(SubSeq(sizes, 1, n))]

LEMMA SumOfFirstGrows ==
  ASSUME NEW sizes \in Sizes
  PROVE  /\ SumOfFirst(sizes) \in [0 .. Len(sizes) -> Int]
         /\ SumOfFirst(sizes)[0] = 0
         /\ \A i \in 1 .. Len(sizes) :
                SumOfFirst(sizes)[i] = SumOfFirst(sizes)[i - 1] + sizes[i]
<1> DEFINE N == Len(sizes)
           total == CHOOSE f : IsSum(f, sizes, N)
<1>1. N \in Nat /\ \A i \in 1 .. N : sizes[i] \in Int
  BY DEF Sizes, Unencodable
<1>2. IsSum(total, sizes, N)
  BY <1>1, SumExists
<1> HIDE DEF total
<1>3. /\ total[0] = 0
      /\ \A i \in 1 .. N : total[i] = total[i - 1] + sizes[i]
  BY <1>1, <1>2 DEF IsSum
<1>4. ASSUME NEW n \in 0 .. N
      PROVE  SumOfSizes(SubSeq(sizes, 1, n)) = total[n]
  <2> DEFINE first == SubSeq(sizes, 1, n)
             upto == CHOOSE f : IsSum(f, first, Len(first))
             S == {i \in Nat : i <= n => upto[i] = total[i]}
  <2>1. Len(first) = n /\ n \in Nat /\ \A i \in 1 .. n : first[i] = sizes[i]
    BY <1>1 DEF Sizes
  <2>2. SumOfSizes(first) = upto[Len(first)]
    BY DEF SumOfSizes, IsSum
  <2>3. IsSum(upto, first, Len(first))
    BY <2>1, SumExists
  <2> HIDE DEF upto, first
  <2>4. /\ upto[0] = 0
        /\ \A i \in 1 .. n : upto[i] = upto[i - 1] + sizes[i]
    BY <2>1, <2>3 DEF IsSum
  <2>5. 0 \in S
    BY <1>3, <2>4
  <2>6. ASSUME NEW i \in Nat, i \in S PROVE i + 1 \in S
    <3> SUFFICES ASSUME i + 1 <= n PROVE upto[i + 1] = total[i + 1]
      OBVIOUS
    <3>1. i + 1 \in 1 .. n /\ i + 1 \in 1 .. N /\ (i + 1) - 1 = i
      BY <1>1, <2>1
    <3>2. upto[i] = total[i]
      BY <2>1, <2>6
    <3>. QED BY <1>3, <2>4, <3>1, <3>2
  <2> HIDE DEF S
  <2>7. n \in S
    BY <2>1, <2>5, <2>6, NatSetInduction
  <2>8. upto[n] = total[n]
    BY <2>1, <2>7 DEF S
  <2>. QED BY <2>1, <2>2, <2>8 DEF first
<1>5. \A n \in 0 .. N : SumOfFirst(sizes)[n] = total[n]
  BY <1>4 DEF SumOfFirst
<1>6. \A n \in 0 .. N : total[n] \in Int
  <2> DEFINE S == {i \in Nat : i <= N => total[i] \in Int}
  <2>1. 0 \in S
    BY <1>3
  <2>2. ASSUME NEW i \in Nat, i \in S PROVE i + 1 \in S
    <3> SUFFICES ASSUME i + 1 <= N PROVE total[i + 1] \in Int
      OBVIOUS
    <3>1. i + 1 \in 1 .. N /\ (i + 1) - 1 = i /\ i <= N
      BY <1>1
    <3>2. total[i] \in Int
      BY <2>2, <3>1
    <3>. QED BY <1>1, <1>3, <3>1, <3>2
  <2> HIDE DEF S
  <2>3. \A i \in Nat : i \in S
    BY <2>1, <2>2, NatSetInduction
  <2>. QED BY <1>1, <2>3 DEF S
<1>7. \A i \in 1 .. N : i \in 0 .. N /\ i - 1 \in 0 .. N
  BY <1>1
<1>8. SumOfFirst(sizes) \in [0 .. N -> Int]
  BY <1>5, <1>6 DEF SumOfFirst
<1>. QED BY <1>1, <1>3, <1>5, <1>7, <1>8

\* After i entries: the position is the length of what has been encoded, and
\* if the buffer is full one more entry does not fit.
Commas(n) == IF n > 1 THEN n - 1 ELSE 0

LengthInv(loop, sum, len, i) ==
    /\ loop.exit = "no" => loop.encoded = i
    /\ loop.pos = 1 + sum[loop.encoded] + Commas(loop.encoded)
    /\ loop.exit = "full" =>
           /\ loop.encoded < i
           /\ 2 + sum[loop.encoded + 1] + Commas(loop.encoded + 1) + 2 > len

LEMMA EntryKeepsLength ==
  ASSUME NEW size \in Nat \cup {Unencodable}, NEW len \in Nat, NEW i \in Nat,
         NEW loop, LoopInv(loop, len, i), loop.exit = "no",
         NEW sum, sum[i] \in Int, sum[i + 1] = sum[i] + size,
         i = 0 => sum[i] = 0,
         LengthInv(loop, sum, len, i)
  PROVE  LengthInv(EncodeEntry(loop, size), sum, len, i + 1)
<1> DEFINE left == loop.left - Comma(loop)
           after == EncodeEntry(loop, size)
<1>1. /\ loop \in Loops /\ loop.pos \in Int /\ loop.left \in Int
      /\ loop.encoded = i
      /\ loop.pos = len - loop.left
      /\ loop.pos = 1 + sum[i] + Commas(i)
      /\ size \in Int /\ size >= -1
  BY DEF LoopInv, Loops, LengthInv, Unencodable
<1>2. /\ Commas(i + 1) = i
      /\ Comma(loop) = IF i > 0 THEN 1 ELSE 0
      /\ Commas(i) + Comma(loop) = i
      /\ Commas(i) \in Int
  BY <1>1 DEF Commas, Comma
<1>3. CASE loop.encoded > 0 /\ loop.left <= 2
  <2>1. after = [loop EXCEPT !.exit = "full"]
    BY <1>3 DEF EncodeEntry
  <2>2. 2 + sum[i + 1] + Commas(i + 1) + 2 > len
    BY <1>1, <1>2, <1>3
  <2>. QED BY <1>1, <2>1, <2>2 DEF LengthInv, Loops
<1>4. CASE ~(loop.encoded > 0 /\ loop.left <= 2) /\ size = Unencodable
  <2>1. after = [loop EXCEPT !.exit = EINVAL]
    BY <1>4 DEF EncodeEntry
  <2>. QED BY <1>1, <2>1 DEF LengthInv, Loops, EINVAL
<1>5. CASE /\ ~(loop.encoded > 0 /\ loop.left <= 2)
           /\ size # Unencodable /\ Fits(size, left - 2)
  <2>1. after = [loop EXCEPT !.pos = @ + Comma(loop) + size,
                             !.left = left - size,
                             !.encoded = @ + 1]
    BY <1>5 DEF EncodeEntry
  <2>2. /\ after.pos = loop.pos + Comma(loop) + size
        /\ after.encoded = i + 1
        /\ after.exit = "no"
    BY <1>1, <2>1 DEF Loops
  <2>3. loop.pos + Comma(loop) + size = 1 + sum[i + 1] + Commas(i + 1)
    BY <1>1, <1>2
  <2>. QED BY <2>2, <2>3 DEF LengthInv
<1>6. CASE /\ ~(loop.encoded > 0 /\ loop.left <= 2)
           /\ size # Unencodable /\ ~Fits(size, left - 2)
  <2>1. after = [loop EXCEPT !.exit = "full"]
    BY <1>6 DEF EncodeEntry
  <2>2. size >= loop.left - Comma(loop) - 2
    BY <1>1, <1>2, <1>6 DEF Fits
  <2>3. 2 + sum[i + 1] + Commas(i + 1) + 2 > len
    BY <1>1, <1>2, <2>2
  <2>. QED BY <1>1, <2>1, <2>3 DEF LengthInv, Loops
<1>. QED BY <1>3, <1>4, <1>5, <1>6

\* The loop entry by entry: where it begins, how it goes on, and what holds
\* after each entry.
LEMMA LoopRuns ==
  ASSUME NEW sizes \in Sizes, NEW len \in Nat, len >= 3
  PROVE  \E after :
             /\ EncodeLoop(sizes, len) = after[Len(sizes)]
             /\ after[0] = [pos |-> 1, left |-> len - 1, encoded |-> 0,
                            exit |-> "no"]
             /\ \A i \in 1 .. Len(sizes) :
                    after[i] = IF after[i - 1].exit = "no"
                               THEN EncodeEntry(after[i - 1], sizes[i])
                               ELSE after[i - 1]
             /\ \A i \in 0 .. Len(sizes) :
                    /\ LoopInv(after[i], len, i)
                    /\ LengthInv(after[i], SumOfFirst(sizes), len, i)
<1> DEFINE after == CHOOSE f : IsLoop(f, sizes, len, Len(sizes))
           sum == SumOfFirst(sizes)
           S == {i \in Nat : i <= Len(sizes) =>
                                /\ LoopInv(after[i], len, i)
                                /\ LengthInv(after[i], sum, len, i)}
<1>1. EncodeLoop(sizes, len) = after[Len(sizes)]
  BY DEF EncodeLoop, IsLoop
<1>2. Len(sizes) \in Nat
  BY DEF Sizes
<1>3. IsLoop(after, sizes, len, Len(sizes))
  BY <1>2, LoopExists
<1> HIDE DEF after, sum
<1>9. /\ \A i \in 0 .. Len(sizes) : sum[i] \in Int
      /\ sum[0] = 0
      /\ \A i \in 1 .. Len(sizes) : sum[i] = sum[i - 1] + sizes[i]
  BY <1>2, SumOfFirstGrows DEF sum
<1>4. after[0] = [pos |-> 1, left |-> len - 1, encoded |-> 0, exit |-> "no"]
  BY <1>2, <1>3 DEF IsLoop
<1>5. \A i \in 1 .. Len(sizes) :
          after[i] = IF after[i - 1].exit = "no"
                     THEN EncodeEntry(after[i - 1], sizes[i])
                     ELSE after[i - 1]
  BY <1>2, <1>3 DEF IsLoop
<1>6. 0 \in S
  BY <1>4, <1>9 DEF LoopInv, Loops, LengthInv, Commas
<1>7. ASSUME NEW n \in Nat, n \in S PROVE n + 1 \in S
  <2> SUFFICES ASSUME n + 1 <= Len(sizes)
               PROVE  /\ LoopInv(after[n + 1], len, n + 1)
                      /\ LengthInv(after[n + 1], sum, len, n + 1)
    OBVIOUS
  <2>1. LoopInv(after[n], len, n) /\ LengthInv(after[n], sum, len, n)
    BY <1>2, <1>7
  <2>2. n + 1 \in 1 .. Len(sizes) /\ (n + 1) - 1 = n
    BY <1>2
  <2>3. sizes[n + 1] \in Nat \cup {Unencodable}
    BY <2>2 DEF Sizes
  <2>4. LoopInv(EncodeEntry(after[n], sizes[n + 1]), len, n + 1)
    BY <2>1, <2>3, EntryKeeps
  <2>5. LoopInv(after[n], len, n + 1)
    BY <2>1 DEF LoopInv, Loops
  <2>6. after[n + 1] = IF after[n].exit = "no"
                       THEN EncodeEntry(after[n], sizes[n + 1])
                       ELSE after[n]
    BY <1>5, <2>2
  <2>7. n \in 0 .. Len(sizes) /\ sum[n + 1] = sum[n] + sizes[n + 1]
    BY <1>2, <1>9, <2>2
  <2>8. ASSUME after[n].exit = "no"
        PROVE  LengthInv(EncodeEntry(after[n], sizes[n + 1]), sum, len, n + 1)
    BY <1>9, <2>1, <2>3, <2>7, <2>8, EntryKeepsLength
  <2>9. ASSUME after[n].exit # "no"
        PROVE  LengthInv(after[n], sum, len, n + 1)
    BY <2>1, <2>9 DEF LengthInv, LoopInv, Loops
  <2>. QED BY <2>4, <2>5, <2>6, <2>8, <2>9
<1> HIDE DEF S
<1>8. \A i \in Nat : i \in S
  BY <1>6, <1>7, NatSetInduction
<1>10. \A i \in 0 .. Len(sizes) :
           LoopInv(after[i], len, i) /\ LengthInv(after[i], sum, len, i)
  BY <1>2, <1>8 DEF S
<1>. QED BY <1>1, <1>4, <1>5, <1>10 DEF sum

LEMMA LoopBounded ==
  ASSUME NEW sizes \in Sizes, NEW len \in Nat, len >= 3
  PROVE  /\ LoopInv(EncodeLoop(sizes, len), len, Len(sizes))
         /\ LengthInv(EncodeLoop(sizes, len), SumOfFirst(sizes), len, Len(sizes))
<1>1. Len(sizes) \in 0 .. Len(sizes)
  BY DEF Sizes
<1>. QED BY <1>1, LoopRuns

\* The encoder turns a batch down only because of an entry that it would
\* turn down by itself.
LEMMA InvalidEntry ==
  ASSUME NEW sizes \in Sizes, NEW len \in Nat, len >= 3,
         EncodeLoop(sizes, len).exit = EINVAL
  PROVE  \E i \in 1 .. Len(sizes) : sizes[i] = Unencodable
<1> SUFFICES ASSUME \A i \in 1 .. Len(sizes) : sizes[i] # Unencodable
             PROVE  FALSE
  OBVIOUS
<1>1. PICK after :
          /\ EncodeLoop(sizes, len) = after[Len(sizes)]
          /\ after[0] = [pos |-> 1, left |-> len - 1, encoded |-> 0,
                         exit |-> "no"]
          /\ \A i \in 1 .. Len(sizes) :
                 after[i] = IF after[i - 1].exit = "no"
                            THEN EncodeEntry(after[i - 1], sizes[i])
                            ELSE after[i - 1]
          /\ \A i \in 0 .. Len(sizes) :
                 /\ LoopInv(after[i], len, i)
                 /\ LengthInv(after[i], SumOfFirst(sizes), len, i)
  BY LoopRuns
<1> DEFINE N == Len(sizes)
<1>2. N \in Nat /\ after[0].exit = "no"
  BY <1>1 DEF Sizes
<1> DEFINE S == {i \in Nat : i <= N => after[i].exit # EINVAL}
<1>3. 0 \in S
  BY <1>2 DEF EINVAL
<1>4. ASSUME NEW i \in Nat, i \in S PROVE i + 1 \in S
  <2> SUFFICES ASSUME i + 1 <= N PROVE after[i + 1].exit # EINVAL
    OBVIOUS
  <2>1. i + 1 \in 1 .. N /\ i \in 0 .. N /\ (i + 1) - 1 = i
    BY <1>2
  <2>2. after[i].exit # EINVAL /\ after[i] \in Loops
    BY <1>1, <1>4, <2>1 DEF LoopInv
  <2>3. after[i + 1] = IF after[i].exit = "no"
                       THEN EncodeEntry(after[i], sizes[i + 1])
                       ELSE after[i]
    BY <1>1, <2>1
  <2>4. sizes[i + 1] # Unencodable
    BY <2>1
  <2>5. after[i].exit = "no" => EncodeEntry(after[i], sizes[i + 1]).exit # EINVAL
    BY <2>2, <2>4 DEF EncodeEntry, Loops, EINVAL
  <2>. QED BY <2>2, <2>3, <2>5
<1> HIDE DEF S
<1>5. N \in S
  BY <1>2, <1>3, <1>4, NatSetInduction
<1>. QED BY <1>1, <1>2, <1>5 DEF S

LEMMA UnencodableAlone ==
  ASSUME NEW len \in Nat
  PROVE  EncodeJson(<<Unencodable>>, len).count = 0
<1>1. CASE len < 3
  BY <1>1 DEF EncodeJson
<1>2. CASE len >= 3
  <2> DEFINE alone == <<Unencodable>>
             Begin == [pos |-> 1, left |-> len - 1, encoded |-> 0, exit |-> "no"]
  <2>1. alone \in Sizes /\ Len(alone) = 1 /\ alone[1] = Unencodable
    BY DEF Sizes
  <2>2. PICK after :
            /\ EncodeLoop(alone, len) = after[1]
            /\ after[0] = Begin
            /\ after[1] = IF after[0].exit = "no"
                          THEN EncodeEntry(after[0], alone[1])
                          ELSE after[0]
    <3>1. PICK f :
              /\ EncodeLoop(alone, len) = f[Len(alone)]
              /\ f[0] = Begin
              /\ \A i \in 1 .. Len(alone) :
                     f[i] = IF f[i - 1].exit = "no"
                            THEN EncodeEntry(f[i - 1], alone[i])
                            ELSE f[i - 1]
      BY <1>2, <2>1, LoopRuns
    <3>2. 1 \in 1 .. Len(alone) /\ 1 - 1 = 0
      BY <2>1
    <3>. QED BY <2>1, <3>1, <3>2
  <2> HIDE DEF alone
  <2>3. after[1] = [Begin EXCEPT !.exit = EINVAL]
    BY <2>1, <2>2 DEF EncodeEntry
  <2>4. EncodeLoop(alone, len).exit = EINVAL
    BY <2>2, <2>3
  <2>5. EncodeJson(alone, len).count = 0
    BY <2>4 DEF EncodeJson
  <2>. QED BY <2>5 DEF alone
<1>. QED BY <1>1, <1>2

\* The JSON encoder takes at most the entries it is given, and its message
\* ends before the last byte of the buffer, where the delimiter goes.
THEOREM JsonMessageFits ==
  ASSUME NEW sizes \in Sizes, NEW len \in Nat, EncodeJson(sizes, len).ret = OK
  PROVE  /\ EncodeJson(sizes, len).count \in 0 .. Len(sizes)
         /\ EncodeJson(sizes, len).len < len
<1> DEFINE loop == EncodeLoop(sizes, len)
<1>1. /\ len >= 3
      /\ EncodeJson(sizes, len) =
             [ret |-> OK, count |-> loop.encoded, len |-> loop.pos + 1]
  BY DEF EncodeJson, OK, ENOMEM, EINVAL
<1>2. LoopInv(loop, len, Len(sizes))
  BY <1>1, LoopBounded
<1>3. /\ loop.encoded \in Nat /\ loop.encoded <= Len(sizes)
      /\ loop.left \in Int /\ loop.left >= 2 /\ loop.pos = len - loop.left
  BY <1>2 DEF LoopInv, Loops
<1>4. Len(sizes) \in Nat
  BY DEF Sizes
<1>. QED BY <1>1, <1>3, <1>4

\* A JSON message has the length of its brackets, entries and commas, fits
\* into the buffer with its delimiter, and takes as many entries as it can.
THEOREM JsonMessageSound ==
  ASSUME NEW sizes \in Sizes, NEW len \in Nat, EncodeJson(sizes, len).ret = OK
  PROVE  LET msg == EncodeJson(sizes, len) IN
         /\ SoundJson(sizes, len, msg.count, msg.len)
         /\ MaximalJson(sizes, len, msg.count)
<1> DEFINE loop == EncodeLoop(sizes, len)
           msg == EncodeJson(sizes, len)
           sum == SumOfFirst(sizes)
<1>1. /\ len >= 3 /\ loop.exit # EINVAL
      /\ msg = [ret |-> OK, count |-> loop.encoded, len |-> loop.pos + 1]
  BY DEF EncodeJson, OK, ENOMEM, EINVAL
<1>2. LoopInv(loop, len, Len(sizes)) /\ LengthInv(loop, sum, len, Len(sizes))
  BY <1>1, LoopBounded
<1>3. Len(sizes) \in Nat
  BY DEF Sizes
<1>4. /\ loop.encoded \in 0 .. Len(sizes)
      /\ msg.len < len
  BY <1>1, JsonMessageFits
<1>5. ASSUME NEW n \in 0 .. Len(sizes)
      PROVE  ArrayLength(SubSeq(sizes, 1, n)) = 2 + sum[n] + Commas(n)
  <2>1. Len(SubSeq(sizes, 1, n)) = n
    BY <1>3 DEF Sizes
  <2>2. sum[n] = SumOfSizes(SubSeq(sizes, 1, n))
    BY DEF SumOfFirst
  <2>. QED BY <2>1, <2>2 DEF ArrayLength, Commas
<1>6. sum[loop.encoded] \in Int /\ Commas(loop.encoded) \in Int
  BY <1>3, <1>4, SumOfFirstGrows DEF Commas
<1> HIDE DEF loop, sum
<1>7. msg.len = ArrayLength(SubSeq(sizes, 1, msg.count))
  <2>1. msg.len = 1 + sum[loop.encoded] + Commas(loop.encoded) + 1
    BY <1>1, <1>2 DEF LengthInv
  <2>. QED BY <1>1, <1>4, <1>5, <1>6, <2>1
<1>8. MaximalJson(sizes, len, msg.count)
  <2> SUFFICES ASSUME loop.encoded < Len(sizes)
               PROVE  ArrayLength(SubSeq(sizes, 1, loop.encoded + 1)) + 2 > len
    BY <1>1 DEF MaximalJson
  <2>1. loop.exit = "full"
    BY <1>1, <1>2, <1>3, <1>4 DEF LoopInv, LengthInv, Loops
  <2>2. 2 + sum[loop.encoded + 1] + Commas(loop.encoded + 1) + 2 > len
    BY <1>2, <2>1 DEF LengthInv
  <2>3. loop.encoded + 1 \in 0 .. Len(sizes)
    BY <1>3, <1>4
  <2>. QED BY <1>5, <2>2, <2>3
<1>. QED BY <1>4, <1>7, <1>8 DEF SoundJson

LEMMA EncodedCount ==
  ASSUME NEW sizes \in Sizes, thingsboard_timeseries_encode(sizes).ret = OK
  PROVE  thingsboard_timeseries_encode(sizes).count \in 0 .. Len(sizes)
<1>1. CASE format = "JSON"
  BY <1>1, JsonMessageFits, BatchAssumption DEF thingsboard_timeseries_encode
<1>2. CASE format # "JSON"
  <2>1. thingsboard_timeseries_encode(sizes).count = Len(sizes)
    BY <1>2 DEF thingsboard_timeseries_encode, EncodeProtobuf, OK, EINVAL
  <2>2. Len(sizes) \in Nat
    BY DEF Sizes
  <2>. QED BY <2>1, <2>2
<1>. QED BY <1>1, <1>2

-----------------------------------------------------------------------------
(* The blocks of the slab *)

Unsent == next .. request_num - 1

Mine == {r \in Request : owner[r] = "call"}

\* Which blocks the call owns at each of its points.  After the encoder has
\* failed, the block of the failed message is one of them.
BlocksInv ==
    /\ next <= request_num
    /\ pc = "prepare" => next = 0
    /\ pc \in {"prepare", "send"} =>
          /\ Mine = {requests[k] : k \in Unsent}
          /\ \A j, k \in Unsent : requests[j] = requests[k] => j = k
    /\ pc = "free_requests" =>
          Mine \subseteq {requests[k] : k \in {j \in Index : j <= request_num}}
    /\ pc = "done" => Mine = {}

\* The prepared messages carry the entries after those submitted, up to
\* ts_sent, in a row.
Last(entries) == entries[Len(entries)]

EntriesInv ==
    /\ \A k \in Unsent :
          /\ content[k] # <<>>
          /\ \A i \in DOMAIN content[k] : content[k][i] = content[k][1] + i - 1
          /\ content[k][1] = (IF k = next THEN Len(submitted)
                                          ELSE Last(content[k - 1])) + 1
    /\ ts_sent = IF next = request_num THEN Len(submitted)
                                       ELSE Last(content[request_num - 1])

SendInv ==
    /\ TypeOK
    /\ ts_sent <= Len(ts)
    /\ BlocksInv
    /\ pc \in {"prepare", "send"} => EntriesInv
    /\ pc = "send" => ts_sent = Len(ts)
    /\ pc \in {"prepare", "send"} => result = "none"
    /\ pc \in {"prepare", "free_requests"} => submitted = <<>>
    /\ SentInOrder

LEMMA BatchTyped ==
  ASSUME ts \in Batches
  PROVE  /\ ts \in Sizes /\ Len(ts) \in 1 .. MaxCount
         /\ MaxRequests \in Nat
<1>1. PICK n \in 1 .. MaxCount : ts \in [1 .. n -> EntrySize]
  BY DEF Batches
<1>2. n \in Nat /\ MaxCount \in Nat /\ EntrySize \subseteq Nat \cup {Unencodable}
  BY BatchAssumption
<1>3. ts \in [1 .. n -> Nat \cup {Unencodable}]
  BY <1>1, <1>2
<1>4. ts \in Sizes /\ Len(ts) = n
  BY <1>2, <1>3 DEF Sizes
<1>. QED BY <1>1, <1>4, FS_CardinalityType, BatchAssumption DEF MaxRequests

\* A free block is left only if fewer messages than blocks are prepared.
LEMMA FreeBlockFits ==
  ASSUME SendInv, pc = "prepare", NEW r \in Request, owner[r] = "free"
  PROVE  request_num \in Index
<1> DEFINE S == 0 .. request_num - 1
           f == [k \in S |-> requests[k]]
<1>1. next = 0 /\ request_num \in Nat /\ MaxRequests \in Nat
  BY BatchTyped DEF SendInv, BlocksInv, TypeOK
<1>2. Mine = {requests[k] : k \in S} /\ Mine \subseteq Request \ {r}
  BY <1>1 DEF SendInv, BlocksInv, Unsent, Mine
<1>3. f \in Injection(S, Request \ {r})
  <2>1. f \in [S -> Request \ {r}]
    BY <1>2
  <2>2. \A j, k \in S : f[j] = f[k] => j = k
    BY <1>1 DEF SendInv, BlocksInv, Unsent
  <2>. QED BY <2>1, <2>2 DEF Injection, IsInjective
<1>4. /\ IsFiniteSet(Request \ {r})
      /\ Cardinality(Request \ {r}) = MaxRequests - 1
  BY FS_RemoveElement, BatchAssumption DEF MaxRequests
<1>5. Cardinality(S) <= MaxRequests - 1
  BY <1>3, <1>4, FS_Injection
<1>6. Cardinality(S) = request_num
  BY <1>1, FS_Interval
<1>. QED BY <1>1, <1>5, <1>6 DEF Index

-----------------------------------------------------------------------------
(* One lemma per operation *)

LEMMA PrepareKeeps == SendInv /\ PrepareMessage => SendInv'
<1> SUFFICES ASSUME SendInv, pc = "prepare", ts_sent < Len(ts),
                    NEW r \in Request, owner[r] = "free", Encode(r),
                    UNCHANGED <<given, next, submitted>>
             PROVE  SendInv'
  BY DEF PrepareMessage
<1> DEFINE message == thingsboard_timeseries_encode(Remaining)
<1>1. TypeOK /\ BlocksInv /\ EntriesInv
  BY DEF SendInv
<1>2. /\ next = 0 /\ submitted = <<>> /\ result = "none"
      /\ request_num \in Index /\ request_num \in Nat
      /\ MaxRequests \in Nat /\ ts_sent \in Nat
      /\ ts \in Sizes /\ Len(ts) \in 1 .. MaxCount /\ MaxCount \in Nat
  BY FreeBlockFits, BatchTyped, BatchAssumption
     DEF SendInv, BlocksInv, TypeOK, Index
<1>3. /\ requests' = [requests EXCEPT ![request_num] = r]
      /\ owner' = [owner EXCEPT ![r] = "call"]
      /\ UNCHANGED <<format, ts, next, submitted>>
      /\ \/ /\ pc' = "free_requests" /\ result' = EINVAL
            /\ UNCHANGED <<content, request_num, ts_sent>>
         \/ /\ pc' = "assertion"
            /\ UNCHANGED <<content, request_num, ts_sent, result>>
         \/ /\ message.ret = OK /\ message.count # 0
            /\ content' = [content EXCEPT
                              ![request_num] = Entries(message.count)]
            /\ request_num' = request_num + 1
            /\ ts_sent' = ts_sent + message.count
            /\ UNCHANGED <<pc, result>>
  BY DEF Encode, Fail, given, NextEntry
\* The block is a new one of the call.
<1>4. /\ requests' \in [Index -> Request \cup {NULL}]
      /\ owner' \in [Request -> {"free", "call", "coap", "other"}]
      /\ requests'[request_num] = r
      /\ \A k \in 0 .. request_num - 1 : requests'[k] = requests[k]
      /\ Mine' = Mine \cup {r} /\ r \notin Mine
  BY <1>1, <1>2, <1>3 DEF TypeOK, Mine, Index
<1>5. /\ Mine' = {requests'[k] : k \in 0 .. request_num}
      /\ \A j, k \in 0 .. request_num : requests'[j] = requests'[k] => j = k
  <2>1. /\ Mine = {requests[k] : k \in 0 .. request_num - 1}
        /\ \A j, k \in 0 .. request_num - 1 : requests[j] = requests[k] => j = k
    BY <1>1, <1>2 DEF BlocksInv, Unsent
  <2>2. 0 .. request_num = (0 .. request_num - 1) \cup {request_num}
    BY <1>2
  <2>. QED BY <1>4, <2>1, <2>2
<1>6. CASE /\ pc' = "free_requests" /\ result' = EINVAL
           /\ UNCHANGED <<content, request_num, ts_sent>>
  <2>1. TypeOK'
    BY <1>1, <1>3, <1>4, <1>6 DEF TypeOK, EINVAL, ENOMEM, OK, Batches
  <2>2. BlocksInv'
    <3>1. 0 .. request_num \subseteq {j \in Index : j <= request_num}
      BY <1>2 DEF Index
    <3>. QED BY <1>1, <1>2, <1>3, <1>5, <1>6, <3>1 DEF BlocksInv
  <2>. QED BY <1>2, <1>3, <1>6, <2>1, <2>2
         DEF SendInv, SentInOrder, EINVAL, ENOMEM, OK
<1>7. CASE /\ pc' = "assertion"
           /\ UNCHANGED <<content, request_num, ts_sent, result>>
  <2>1. TypeOK'
    BY <1>1, <1>3, <1>4, <1>7 DEF TypeOK, Batches
  <2>2. BlocksInv'
    BY <1>1, <1>2, <1>3, <1>7 DEF BlocksInv
  <2>. QED BY <1>2, <1>3, <1>7, <2>1, <2>2 DEF SendInv, SentInOrder
<1>8. CASE /\ message.ret = OK /\ message.count # 0
           /\ content' = [content EXCEPT
                             ![request_num] = Entries(message.count)]
           /\ request_num' = request_num + 1
           /\ ts_sent' = ts_sent + message.count
           /\ UNCHANGED <<pc, result>>
  <2> DEFINE n == message.count
  <2>1. Remaining \in Sizes /\ Len(Remaining) = Len(ts) - ts_sent
    BY <1>2 DEF Remaining, Sizes
  <2>2. n \in 1 .. Len(ts) - ts_sent
    <3>1. n \in 0 .. Len(Remaining)
      BY <1>8, <2>1, EncodedCount
    <3>. QED BY <1>2, <1>8, <2>1, <3>1
  <2> HIDE DEF n, message
  <2>3. /\ Entries(n) \in Seq(1 .. MaxCount) /\ Len(Entries(n)) = n
        /\ \A i \in 1 .. n : Entries(n)[i] = ts_sent + i
        /\ Entries(n) # <<>>
    BY <1>2, <2>2 DEF Entries
  <2>4. /\ content' = [content EXCEPT ![request_num] = Entries(n)]
        /\ ts_sent' = ts_sent + n
    BY <1>8 DEF n
  <2>5. /\ content' \in [Index -> Seq(1 .. MaxCount)]
        /\ content'[request_num] = Entries(n)
        /\ \A k \in 0 .. request_num - 1 : content'[k] = content[k]
    BY <1>1, <1>2, <2>3, <2>4 DEF TypeOK, Index
  <2>6. /\ request_num' \in 0 .. MaxRequests
        /\ ts_sent' \in 0 .. MaxCount /\ ts_sent' <= Len(ts)
    BY <1>2, <1>8, <2>2, <2>4 DEF Index
  <2>7. TypeOK'
    BY <1>1, <1>3, <1>4, <1>8, <2>5, <2>6 DEF TypeOK, Batches
  <2>8. BlocksInv'
    <3>1. Unsent' = 0 .. request_num
      BY <1>2, <1>3, <1>8 DEF Unsent
    <3>. QED BY <1>2, <1>3, <1>5, <1>8, <3>1 DEF BlocksInv
  <2>9. EntriesInv'
    <3>1. Unsent' = 0 .. request_num /\ Unsent = 0 .. request_num - 1
      BY <1>2, <1>3, <1>8 DEF Unsent
    <3>2. Last(content'[request_num]) = ts_sent + n /\ request_num' - 1 = request_num
      <4>1. Last(Entries(n)) = ts_sent + n
        BY <2>2, <2>3 DEF Last
      <4>2. content'[request_num] = Entries(n)
        BY <2>5
      <4>3. request_num' - 1 = request_num
        BY <1>2, <1>8
      <4>. QED BY <4>1, <4>2, <4>3 DEF Last
    <3>3. \A k \in 0 .. request_num - 1 : Last(content'[k]) = Last(content[k])
      BY <2>5
    <3>4. ts_sent = IF request_num = 0 THEN Len(submitted)
                                       ELSE Last(content[request_num - 1])
      BY <1>1, <1>2 DEF EntriesInv
    <3>5. /\ content'[request_num] # <<>>
          /\ content'[request_num][1] = ts_sent + 1
          /\ \A i \in DOMAIN content'[request_num] :
                 content'[request_num][i] = content'[request_num][1] + i - 1
      BY <1>2, <2>2, <2>3, <2>5
    <3>6. ASSUME NEW k \in 0 .. request_num
          PROVE  /\ content'[k] # <<>>
                 /\ \A i \in DOMAIN content'[k] :
                        content'[k][i] = content'[k][1] + i - 1
                 /\ content'[k][1] = (IF k = next THEN Len(submitted)
                                                  ELSE Last(content'[k - 1])) + 1
      <4>1. CASE k = request_num
        <5>1. request_num # 0 => request_num - 1 \in 0 .. request_num - 1
          BY <1>2
        <5>. QED BY <4>1, <5>1, <1>2, <3>3, <3>4, <3>5
      <4>2. CASE k \in 0 .. request_num - 1
        <5>1. k # 0 => k - 1 \in 0 .. request_num - 1
          BY <1>2, <4>2
        <5>2. /\ content[k] # <<>>
              /\ \A i \in DOMAIN content[k] :
                     content[k][i] = content[k][1] + i - 1
              /\ content[k][1] = (IF k = next THEN Len(submitted)
                                   ELSE Last(content[k - 1])) + 1
          BY <4>2, <1>1, <3>1 DEF EntriesInv
        <5>. QED BY <4>2, <5>1, <5>2, <1>2, <2>5, <3>3
      <4>. QED BY <4>1, <4>2, <1>2
    <3>7. ts_sent' = Last(content'[request_num' - 1])
                /\ next' # request_num'
      BY <1>2, <1>3, <1>8, <2>4, <3>2
    <3>. QED BY <1>3, <3>1, <3>6, <3>7 DEF EntriesInv
  <2>. QED BY <1>2, <1>3, <1>8, <2>6, <2>7, <2>8, <2>9
         DEF SendInv, SentInOrder, EINVAL, ENOMEM, OK
<1>. QED BY <1>3, <1>6, <1>7, <1>8

LEMMA CountingSequence ==
  ASSUME NEW S, NEW s \in Seq(S), \A k \in 1 .. Len(s) : s[k] = k
  PROVE  s = [k \in 1 .. Len(s) |-> k]
<1>1. s \in [1 .. Len(s) -> S]
  OBVIOUS
<1>. QED BY <1>1

\* Neither the messages nor what is sent of them changes.
LEMMA MessagesStay ==
  ASSUME EntriesInv,
         UNCHANGED <<content, request_num, ts_sent, next, submitted>>
  PROVE  EntriesInv'
BY DEF EntriesInv, Unsent

\* Other threads, and responses, take and give back blocks that are not the
\* call's.
LEMMA OthersKeep ==
  ASSUME SendInv, UNCHANGED <<given, pc, requests, content, request_num,
                              ts_sent, next, submitted, result>>,
         NEW r \in Request, owner[r] # "call",
         NEW who \in {"free", "other"}, owner' = [owner EXCEPT ![r] = who]
  PROVE  SendInv'
<1>1. TypeOK'
  BY DEF SendInv, TypeOK, given, Batches
<1>2. Mine' = Mine /\ Unsent' = Unsent
  BY DEF Mine, Unsent, SendInv, TypeOK
<1>3. BlocksInv'
  BY <1>2 DEF SendInv, BlocksInv
<1>4. pc \in {"prepare", "send"} => EntriesInv'
  BY MessagesStay DEF SendInv
<1>. QED BY <1>1, <1>3, <1>4 DEF SendInv, SentInOrder, given

LEMMA NoBlockKeeps == SendInv /\ PrepareWithoutBlock => SendInv'
<1> SUFFICES ASSUME SendInv, PrepareWithoutBlock PROVE SendInv'
  OBVIOUS
<1>1. /\ pc = "prepare" /\ pc' = "free_requests" /\ result' = ENOMEM
      /\ UNCHANGED <<format, ts, requests, content, request_num, ts_sent,
                     next, owner, submitted>>
      /\ TypeOK /\ BlocksInv /\ request_num \in 0 .. MaxRequests
      /\ MaxRequests \in Nat
  BY BatchTyped DEF PrepareWithoutBlock, Fail, given, SendInv, TypeOK
<1>2. TypeOK'
  BY <1>1 DEF TypeOK, Batches
<1>3. BlocksInv'
  <2>1. 0 .. request_num - 1 \subseteq {j \in Index : j <= request_num}
    BY <1>1 DEF Index
  <2>2. Mine = {requests[k] : k \in 0 .. request_num - 1}
    BY <1>1 DEF BlocksInv, Unsent
  <2>3. Mine' \subseteq {requests'[k] : k \in {j \in Index : j <= request_num}}
    BY <1>1, <2>1, <2>2 DEF Mine
  <2>. QED BY <1>1, <2>3 DEF BlocksInv
<1>. QED BY <1>1, <1>2, <1>3 DEF SendInv, SentInOrder, OK, ENOMEM

LEMMA PreparedKeeps == SendInv /\ Prepared => SendInv'
<1> SUFFICES ASSUME SendInv, Prepared PROVE SendInv'
  OBVIOUS
<1>1. /\ pc = "prepare" /\ pc' = "send" /\ ts_sent = Len(ts)
      /\ UNCHANGED <<format, ts, requests, content, request_num, ts_sent,
                     next, owner, submitted, result>>
  BY DEF Prepared, given
<1>2. TypeOK'
  BY <1>1 DEF SendInv, TypeOK, Batches
<1>3. BlocksInv' /\ EntriesInv'
  BY <1>1, MessagesStay DEF SendInv, BlocksInv, Mine, Unsent
<1>. QED BY <1>1, <1>2, <1>3 DEF SendInv, SentInOrder

LEMMA SendMessageKeeps == SendInv /\ SendMessage => SendInv'
<1> SUFFICES ASSUME SendInv, SendMessage PROVE SendInv'
  OBVIOUS
<1>1. /\ pc = "send" /\ next < request_num
      /\ owner' = [owner EXCEPT ![requests[next]] = "coap"]
      /\ submitted' = submitted \o content[next]
      /\ next' = next + 1
      /\ UNCHANGED <<format, ts, pc, requests, content, request_num, ts_sent,
                     result>>
      /\ TypeOK /\ BlocksInv /\ EntriesInv /\ result = "none"
      /\ ts_sent = Len(ts) /\ SentInOrder
  BY DEF SendMessage, given, SendInv
<1>2. /\ next \in Nat /\ request_num \in Nat /\ MaxRequests \in Nat
      /\ next \in Unsent /\ next \in Index /\ next' \in 0 .. MaxRequests
      /\ Unsent' = Unsent \ {next}
  BY <1>1, BatchTyped DEF TypeOK, Unsent, Index
<1>3. requests[next] \in Mine
  BY <1>1, <1>2 DEF BlocksInv
<1>4. /\ owner' \in [Request -> {"free", "call", "coap", "other"}]
      /\ Mine' = Mine \ {requests[next]}
  BY <1>1, <1>3 DEF TypeOK, Mine
<1>5. BlocksInv'
  BY <1>1, <1>2, <1>4 DEF BlocksInv
<1> DEFINE entries == content[next]
<1>6. /\ entries \in Seq(1 .. MaxCount) /\ submitted \in Seq(1 .. MaxCount)
      /\ entries # <<>>
      /\ entries[1] = Len(submitted) + 1
      /\ \A i \in 1 .. Len(entries) : entries[i] = entries[1] + i - 1
      /\ submitted' = submitted \o entries
  BY <1>1, <1>2 DEF TypeOK, EntriesInv
<1> HIDE DEF entries
<1>7. /\ Len(entries) \in Nat \ {0} /\ Len(submitted) \in Nat
      /\ submitted' \in Seq(1 .. MaxCount)
      /\ Len(submitted') = Len(submitted) + Len(entries)
  BY <1>6
<1>8. Last(entries) = Len(submitted')
  <2>1. entries[Len(entries)] = entries[1] + Len(entries) - 1
    BY <1>6, <1>7
  <2>. QED BY <1>6, <1>7, <2>1 DEF Last
<1>9. TypeOK'
  BY <1>1, <1>2, <1>4, <1>7 DEF TypeOK, Batches
<1>10. EntriesInv'
  <2>1. ASSUME NEW k \in Unsent'
        PROVE  content'[k][1] = (IF k = next' THEN Len(submitted')
                                              ELSE Last(content'[k - 1])) + 1
    <3>1. k \in Unsent /\ k # next
      BY <1>2
    <3>2. content[k][1] = Last(content[k - 1]) + 1
      BY <1>1, <3>1 DEF EntriesInv
    <3>3. k = next + 1 => k - 1 = next
      BY <1>2
    <3>. QED BY <1>1, <1>8, <3>2, <3>3 DEF entries
  <2>2. \A k \in Unsent' :
            /\ content'[k] # <<>>
            /\ \A i \in DOMAIN content'[k] :
                   content'[k][i] = content'[k][1] + i - 1
    <3>1. content' = content
      BY <1>1
    <3>2. \A k \in Unsent :
              /\ content[k] # <<>>
              /\ \A i \in DOMAIN content[k] :
                     content[k][i] = content[k][1] + i - 1
      BY <1>1 DEF EntriesInv
    <3>3. \A k \in Unsent :
              /\ content'[k] # <<>>
              /\ \A i \in DOMAIN content'[k] :
                     content'[k][i] = content'[k][1] + i - 1
      BY <3>1, <3>2, Zenon
    <3>4. \A k \in Unsent' : k \in Unsent
      BY <1>2
    <3>. QED BY <3>3, <3>4, Zenon
  <2>3. ts_sent = Last(content[request_num - 1])
    BY <1>1, <1>2 DEF EntriesInv
  <2>4. next + 1 = request_num => request_num - 1 = next
    BY <1>2
  <2>5. ts_sent' = IF next' = request_num' THEN Len(submitted')
                                     ELSE Last(content'[request_num' - 1])
    BY <1>1, <1>8, <2>3, <2>4 DEF entries
  <2>. QED BY <2>1, <2>2, <2>5 DEF EntriesInv
<1>11. submitted' = [k \in 1 .. Len(submitted') |-> k]
  <2>1. \A k \in 1 .. Len(submitted) : submitted[k] = k
    BY <1>1, <1>7 DEF SentInOrder
  <2>2. ASSUME NEW k \in 1 .. Len(submitted') PROVE submitted'[k] = k
    <3>1. CASE k \in 1 .. Len(submitted)
      <4>1. submitted'[k] = submitted[k]
        BY <1>6, <3>1
      <4>. QED BY <2>1, <3>1, <4>1
    <3>2. CASE k > Len(submitted)
      <4>1. /\ k - Len(submitted) \in 1 .. Len(entries)
            /\ submitted'[k] = entries[k - Len(submitted)]
        BY <1>6, <1>7, <3>2
      <4>2. entries[k - Len(submitted)] = k
        BY <1>6, <1>7, <4>1
      <4>. QED BY <4>1, <4>2
    <3>. QED BY <1>7, <3>1, <3>2
  <2>. QED BY <1>7, <2>2, CountingSequence
<1>12. SentInOrder'
  BY <1>1, <1>11 DEF SentInOrder, OK, ENOMEM, EINVAL
<1>. QED BY <1>1, <1>5, <1>9, <1>10, <1>12 DEF SendInv

LEMMA SendFailsKeeps == SendInv /\ SendFails => SendInv'
<1> SUFFICES ASSUME SendInv, SendFails PROVE SendInv'
  OBVIOUS
<1> DEFINE unsent == {requests[next]}
                       \cup {requests[k] : k \in next + 1 .. request_num - 1}
<1>1. /\ pc = "send" /\ next < request_num
      /\ owner' = [r \in Request |-> IF r \in unsent THEN "free" ELSE owner[r]]
      /\ pc' = "done" /\ result' = "EIO"
      /\ UNCHANGED <<format, ts, requests, content, request_num, ts_sent,
                     next, submitted>>
      /\ TypeOK /\ BlocksInv
  BY DEF SendFails, UnsentFrom, given, SendInv
<1>2. next \in Nat /\ request_num \in Nat
  BY <1>1, BatchTyped DEF TypeOK
<1>3. Mine = unsent
  BY <1>1, <1>2 DEF BlocksInv, Unsent
<1> HIDE DEF unsent
<1>4. Mine' = {} /\ owner' \in [Request -> {"free", "call", "coap", "other"}]
  BY <1>1, <1>3 DEF Mine, TypeOK
<1>5. TypeOK'
  BY <1>1, <1>4 DEF TypeOK, Batches
<1>6. BlocksInv'
  BY <1>1, <1>4 DEF BlocksInv
<1>. QED BY <1>1, <1>5, <1>6 DEF SendInv, SentInOrder, OK, ENOMEM, EINVAL

LEMMA SendDoneKeeps == SendInv /\ SendDone => SendInv'
<1> SUFFICES ASSUME SendInv, SendDone PROVE SendInv'
  OBVIOUS
<1>1. /\ pc = "send" /\ next = request_num
      /\ pc' = "done" /\ result' = OK
      /\ UNCHANGED <<format, ts, requests, content, request_num, ts_sent,
                     next, owner, submitted>>
      /\ TypeOK /\ BlocksInv /\ EntriesInv /\ ts_sent = Len(ts)
  BY DEF SendDone, given, SendInv
<1>2. next \in Nat /\ Unsent = {}
  BY <1>1, BatchTyped DEF TypeOK, Unsent
<1>3. Mine' = {}
  BY <1>1, <1>2 DEF BlocksInv, Mine
<1>4. TypeOK'
  BY <1>1 DEF TypeOK, Batches, OK
<1>5. BlocksInv'
  BY <1>1, <1>3 DEF BlocksInv
<1>6. Len(submitted) = Len(ts)
  BY <1>1 DEF EntriesInv
<1>. QED BY <1>1, <1>4, <1>5, <1>6
       DEF SendInv, SentInOrder, OK, ENOMEM, EINVAL

LEMMA FreeKeeps == SendInv /\ free_requests => SendInv'
<1> SUFFICES ASSUME SendInv, free_requests PROVE SendInv'
  OBVIOUS
<1> DEFINE freed == {requests[k] : k \in {j \in Index : j <= request_num}}
<1>1. /\ pc = "free_requests" /\ pc' \in {"done", "fault"}
      /\ owner' = [r \in Request |->
                      IF \E k \in Index : k <= request_num /\ requests[k] = r
                      THEN "free" ELSE owner[r]]
      /\ UNCHANGED <<format, ts, requests, content, request_num, ts_sent,
                     next, submitted, result>>
      /\ TypeOK /\ BlocksInv
  BY DEF free_requests, given, SendInv
<1>2. Mine \subseteq freed
  BY <1>1 DEF BlocksInv
<1>3. Mine' = {} /\ owner' \in [Request -> {"free", "call", "coap", "other"}]
  BY <1>1, <1>2 DEF Mine, TypeOK
<1>4. TypeOK'
  BY <1>1, <1>3 DEF TypeOK, Batches
<1>5. BlocksInv'
  BY <1>1, <1>3 DEF BlocksInv
<1>. QED BY <1>1, <1>4, <1>5 DEF SendInv, SentInOrder

-----------------------------------------------------------------------------
(* The prepared messages *)

\* The message of the entries from number first on.
MessageFrom(first) == EncodeJson(SubSeq(ts, first, Len(ts)), PayloadSize)

\* A prepared message carries the entries that the encoder has taken.
Carries(k) ==
    /\ content[k][1] \in 1 .. Len(ts)
    /\ MessageFrom(content[k][1]).ret = OK
    /\ MessageFrom(content[k][1]).count = Len(content[k])

PreparedInv == format = "JSON" => \A k \in 0 .. request_num - 1 : Carries(k)

LEMMA PreparedStays ==
  ASSUME PreparedInv, UNCHANGED <<format, ts, content, request_num>>
  PROVE  PreparedInv'
BY DEF PreparedInv, Carries, MessageFrom

LEMMA PreparingKeeps ==
  SendInv /\ PreparedInv /\ PrepareMessage => PreparedInv'
<1> SUFFICES ASSUME SendInv, PreparedInv, pc = "prepare", ts_sent < Len(ts),
                    NEW r \in Request, owner[r] = "free", Encode(r),
                    UNCHANGED <<given, next, submitted>>
             PROVE  PreparedInv'
  BY DEF PrepareMessage
<1> DEFINE message == thingsboard_timeseries_encode(Remaining)
           n == message.count
<1>1. UNCHANGED <<format, ts>>
  BY DEF given
<1>2. CASE UNCHANGED <<content, request_num>>
  BY <1>1, <1>2, PreparedStays
<1>3. CASE /\ message.ret = OK /\ n # 0
           /\ content' = [content EXCEPT ![request_num] = Entries(n)]
           /\ request_num' = request_num + 1
  <2>1. /\ request_num \in Index /\ request_num \in Nat
        /\ ts_sent \in Nat /\ ts \in Sizes /\ Len(ts) \in Nat
        /\ content \in [Index -> Seq(1 .. MaxCount)]
    BY FreeBlockFits, BatchTyped, BatchAssumption DEF SendInv, TypeOK, Index
  <2>2. Remaining \in Sizes /\ Len(Remaining) = Len(ts) - ts_sent
    BY <2>1 DEF Remaining, Sizes
  <2>3. n \in 1 .. Len(ts) - ts_sent
    <3>1. n \in 0 .. Len(Remaining)
      BY <1>3, <2>2, EncodedCount
    <3>. QED BY <1>3, <2>1, <2>2, <3>1
  <2> SUFFICES ASSUME format = "JSON", NEW k \in 0 .. request_num
               PROVE  Carries(k)'
    BY <1>1, <1>3, <2>1 DEF PreparedInv
  <2>4. CASE k = request_num
    <3>1. content'[k] = Entries(n)
      BY <1>3, <2>1, <2>4
    <3>2. Entries(n)[1] = ts_sent + 1 /\ Len(Entries(n)) = n
      BY <2>1, <2>3 DEF Entries
    <3>3. content'[k][1] = ts_sent + 1 /\ Len(content'[k]) = n
      BY <3>1, <3>2
    <3>4. EncodeJson(SubSeq(ts', ts_sent + 1, Len(ts')), PayloadSize) = message
      BY <1>1 DEF Remaining, thingsboard_timeseries_encode
    <3>5. ts_sent + 1 \in 1 .. Len(ts')
      BY <1>1, <2>1, <2>3
    <3>. QED BY <1>3, <3>3, <3>4, <3>5 DEF Carries, MessageFrom
  <2>5. CASE k \in 0 .. request_num - 1
    <3>1. content'[k] = content[k]
      BY <1>3, <2>1, <2>5 DEF Index
    <3>2. Carries(k)
      BY <2>5 DEF PreparedInv
    <3>. QED BY <1>1, <3>1, <3>2 DEF Carries, MessageFrom
  <2>. QED BY <2>1, <2>4, <2>5
<1>. QED BY <1>2, <1>3 DEF Encode

LEMMA PreparedStep ==
  SendInv /\ PreparedInv /\ [Next]_vars => PreparedInv'
<1> SUFFICES ASSUME SendInv, PreparedInv, [Next]_vars PROVE PreparedInv'
  OBVIOUS
<1>1. CASE PrepareMessage
  BY <1>1, PreparingKeeps
<1>2. CASE UNCHANGED <<format, ts, content, request_num>>
  BY <1>2, PreparedStays
<1>. QED BY <1>1, <1>2
         DEF Next, vars, given, PrepareWithoutBlock, Prepared, SendMessage,
             SendFails, SendDone, free_requests, OtherTakesBlock,
             thingsboard_handle_response

-----------------------------------------------------------------------------
(* Theorems *)

LEMMA SendStarts == Init => SendInv
<1> SUFFICES ASSUME Init PROVE SendInv
  OBVIOUS
<1>1. ts \in Batches /\ MaxRequests \in Nat /\ Len(ts) \in Nat
      /\ MaxCount \in Nat
  BY BatchTyped, BatchAssumption DEF Init
<1>2. <<>> \in Seq(1 .. MaxCount) /\ Len(<<>>) = 0
  OBVIOUS
<1>3. TypeOK
  BY <1>1, <1>2 DEF Init, TypeOK
<1>4. Unsent = {} /\ Mine = {}
  BY DEF Init, Unsent, Mine
<1>5. BlocksInv
  BY <1>4 DEF Init, BlocksInv
<1>6. EntriesInv
  BY <1>2, <1>4 DEF Init, EntriesInv
<1>7. SentInOrder
  <2>1. submitted \in Seq(1 .. MaxCount) /\ Len(submitted) = 0
    BY <1>2 DEF Init
  <2>2. submitted = [k \in 1 .. Len(submitted) |-> k]
    BY <2>1, CountingSequence
  <2>. QED BY <2>2 DEF Init, SentInOrder, OK, ENOMEM, EINVAL
<1>. QED BY <1>1, <1>3, <1>5, <1>6, <1>7 DEF Init, SendInv

LEMMA SendStep == SendInv /\ [Next]_vars => SendInv'
<1> SUFFICES ASSUME SendInv, [Next]_vars PROVE SendInv'
  OBVIOUS
<1>1. ASSUME NEW r \in Request, OtherTakesBlock(r) PROVE SendInv'
  BY <1>1, OthersKeep DEF OtherTakesBlock
<1>2. ASSUME NEW r \in Request, thingsboard_handle_response(r) PROVE SendInv'
  BY <1>2, OthersKeep DEF thingsboard_handle_response
<1>3. CASE UNCHANGED vars
  <2>1. BlocksInv' /\ (EntriesInv => EntriesInv')
    BY <1>3, MessagesStay DEF vars, SendInv, BlocksInv, Mine, Unsent
  <2>. QED BY <1>3, <2>1 DEF vars, SendInv, TypeOK, Batches, SentInOrder
<1>. QED BY <1>1, <1>2, <1>3, PrepareKeeps, NoBlockKeeps, PreparedKeeps,
            SendMessageKeeps, SendFailsKeeps, SendDoneKeeps, FreeKeeps
         DEF Next

LEMMA SendInductive == Spec => []SendInv
BY SendStarts, SendStep, PTL DEF Spec

\* The variables of a call keep their types: in particular the arrays are
\* never written behind their end.
THEOREM SendTypeCorrect == Spec => []TypeOK
BY SendInductive, PTL DEF SendInv

\* No block of the slab is leaked, freed twice or used for two messages.
THEOREM BlocksAccountedFor == Spec => []BlocksOfCall
<1>1. SendInv => BlocksOfCall
  BY DEF SendInv, BlocksInv, BlocksOfCall, Mine, Unsent
<1>. QED BY <1>1, SendInductive, PTL

\* The batch is sent from its start, each entry once and in order, and whole
\* if the call succeeds.
THEOREM EntriesInOrder == Spec => []SentInOrder
BY SendInductive, PTL DEF SendInv

\* Every prepared JSON message fits, has the length it reports and takes as
\* many entries as it can.
THEOREM MessagesAreSound == Spec => []MessagesSound
<1>1. Init => PreparedInv
  BY DEF Init, PreparedInv
<1>2. SendInv /\ PreparedInv => MessagesSound
  <2> SUFFICES ASSUME SendInv, format = "JSON",
                      NEW k \in 0 .. request_num - 1, Carries(k)
               PROVE  LET sizes == SubSeq(ts, content[k][1], Len(ts))
                          msg == EncodeJson(sizes, PayloadSize)
                      IN  /\ SoundJson(sizes, PayloadSize, Len(content[k]),
                                       msg.len)
                          /\ msg.ret = OK
                          /\ MaximalJson(sizes, PayloadSize, Len(content[k]))
    BY DEF PreparedInv, MessagesSound
  <2> DEFINE sizes == SubSeq(ts, content[k][1], Len(ts))
             msg == EncodeJson(sizes, PayloadSize)
  <2>1. ts \in Sizes /\ Len(ts) \in Nat
    BY BatchTyped DEF SendInv, TypeOK
  <2>2. sizes \in Sizes
    BY <2>1 DEF Carries, Sizes
  <2>3. msg.ret = OK /\ msg.count = Len(content[k])
    BY DEF Carries, MessageFrom
  <2> HIDE DEF sizes
  <2>4. /\ SoundJson(sizes, PayloadSize, msg.count, msg.len)
        /\ MaximalJson(sizes, PayloadSize, msg.count)
    BY <2>2, <2>3, JsonMessageSound, BatchAssumption
  <2>. QED BY <2>3, <2>4 DEF sizes
<1>. QED BY <1>1, <1>2, PreparedStep, SendInductive, PTL DEF Spec

\* A JSON batch is refused as invalid only because of an entry that cannot be
\* sent by itself, never because it is too large for one message.
THEOREM LargeBatchesAreSplit == Spec => []SplitsLargeBatches
<1>1. Init => SplitsLargeBatches
  BY DEF Init, SplitsLargeBatches, OnlyForAnEntry, EINVAL
<1>2. SendInv /\ SplitsLargeBatches /\ [Next]_vars => SplitsLargeBatches'
  <2> SUFFICES ASSUME SendInv, SplitsLargeBatches, [Next]_vars
               PROVE  SplitsLargeBatches'
    OBVIOUS
  <2>1. UNCHANGED <<format, ts>>
    BY DEF Next, vars, given, PrepareMessage, PrepareWithoutBlock, Prepared,
           SendMessage, SendFails, SendDone, free_requests, OtherTakesBlock,
           thingsboard_handle_response
  <2>2. CASE result' # EINVAL
    BY <2>2 DEF SplitsLargeBatches, OnlyForAnEntry
  <2>3. CASE UNCHANGED result
    BY <2>1, <2>3 DEF SplitsLargeBatches, OnlyForAnEntry,
               thingsboard_timeseries_encode
  <2>4. CASE /\ PrepareMessage
             /\ thingsboard_timeseries_encode(Remaining).ret # OK
    <3> SUFFICES ASSUME format = "JSON"
                 PROVE  \E i \in DOMAIN ts :
                            EncodeJson(<<ts[i]>>, PayloadSize).count = 0
      BY <2>1 DEF SplitsLargeBatches, OnlyForAnEntry,
               thingsboard_timeseries_encode
    <3>1. /\ ts_sent \in Nat /\ ts_sent < Len(ts) /\ ts \in Sizes
          /\ Len(ts) \in Nat /\ PayloadSize \in Nat
      BY <2>4, BatchTyped, BatchAssumption DEF SendInv, TypeOK, PrepareMessage
    <3>2. /\ Remaining \in Sizes /\ Len(Remaining) = Len(ts) - ts_sent
          /\ \A i \in 1 .. Len(Remaining) : Remaining[i] = ts[ts_sent + i]
      BY <3>1 DEF Remaining, Sizes
    <3>3. DOMAIN ts = 1 .. Len(ts)
      BY <3>1 DEF Sizes
    <3>4. CASE PayloadSize < 3
      <4>1. EncodeJson(<<ts[1]>>, PayloadSize).count = 0
        BY <3>4 DEF EncodeJson
      <4>. QED BY <3>1, <3>3, <4>1
    <3>5. CASE PayloadSize >= 3
      <4>1. EncodeLoop(Remaining, PayloadSize).exit = EINVAL
        <5>1. EncodeLoop(Remaining, PayloadSize).left >= 2
          BY <3>1, <3>2, <3>5, LoopBounded DEF LoopInv
        <5>2. EncodeLoop(Remaining, PayloadSize).left \in Int
          BY <3>1, <3>2, <3>5, LoopBounded DEF LoopInv, Loops
        <5>3. EncodeJson(Remaining, PayloadSize).ret # OK
          BY <2>4 DEF thingsboard_timeseries_encode
        <5>. QED BY <3>1, <3>5, <5>1, <5>2, <5>3 DEF EncodeJson, OK
      <4>2. PICK i \in 1 .. Len(Remaining) : Remaining[i] = Unencodable
        BY <3>1, <3>2, <3>5, <4>1, InvalidEntry
      <4>3. ts_sent + i \in DOMAIN ts /\ ts[ts_sent + i] = Unencodable
        BY <3>1, <3>2, <3>3, <4>2
      <4>. QED BY <3>1, <4>3, UnencodableAlone
    <3>. QED BY <3>1, <3>4, <3>5
  <2>5. PrepareMessage =>
            \/ UNCHANGED result
            \/ thingsboard_timeseries_encode(Remaining).ret # OK
    BY DEF PrepareMessage, Encode
  <2>6. PrepareMessage \/ UNCHANGED result \/ result' # EINVAL
    BY DEF Next, vars, given, PrepareWithoutBlock, Prepared, Fail, SendMessage,
           SendFails, SendDone, free_requests, OtherTakesBlock,
           thingsboard_handle_response, EINVAL, ENOMEM, OK
  <2>. QED BY <2>2, <2>3, <2>4, <2>5, <2>6
<1>. QED BY <1>1, <1>2, SendInductive, PTL DEF Spec

-----------------------------------------------------------------------------
(* The call ends *)

\* How many steps the call has ahead of it, at most.
Ahead ==
    CASE pc = "prepare"       -> (Len(ts) - ts_sent) + MaxRequests + 2
      [] pc = "send"          -> (request_num - next) + 1
      [] pc = "free_requests" -> 1
      [] OTHER                -> 0

OwnStep ==
    \/ PrepareMessage \/ PrepareWithoutBlock \/ Prepared
    \/ SendMessage \/ SendFails \/ SendDone \/ free_requests

CallNearsItsEnd ==
    /\ OwnStep => Ahead' < Ahead
    /\ ~OwnStep => UNCHANGED Ahead

LEMMA AheadCounts == ASSUME SendInv PROVE Ahead \in Nat
<1>1. /\ Len(ts) - ts_sent \in Nat /\ MaxRequests \in Nat
      /\ pc = "send" => request_num - next \in Nat
  <2>1. Len(ts) \in Nat /\ MaxRequests \in Nat /\ MaxCount \in Nat
    BY BatchTyped, BatchAssumption DEF SendInv, TypeOK
  <2>. QED BY <2>1 DEF SendInv, TypeOK, BlocksInv
<1>. QED BY <1>1 DEF Ahead

LEMMA OwnStepCounts == ASSUME SendInv, OwnStep PROVE Ahead' < Ahead
<1>1. /\ Len(ts) \in Nat /\ MaxRequests \in Nat /\ MaxCount \in Nat
      /\ ts_sent \in Nat /\ ts_sent <= Len(ts)
      /\ request_num \in 0 .. MaxRequests /\ next \in 0 .. MaxRequests
      /\ next <= request_num
  BY BatchTyped, BatchAssumption DEF SendInv, TypeOK, BlocksInv
<1>2. CASE PrepareMessage
  <2>1. PICK r \in Request : Encode(r)
    BY <1>2 DEF PrepareMessage
  <2>2. pc = "prepare" /\ ts_sent < Len(ts) /\ ts' = ts
    BY <1>2 DEF PrepareMessage, given
  <2> DEFINE message == thingsboard_timeseries_encode(Remaining)
  <2>3. CASE message.ret # OK
    BY <1>1, <2>1, <2>2, <2>3 DEF Encode, Fail, Ahead
  <2>4. CASE message.ret = OK /\ message.count = 0
    BY <1>1, <2>1, <2>2, <2>4 DEF Encode, Ahead
  <2>5. CASE message.ret = OK /\ message.count # 0
    <3>1. Remaining \in Sizes
      <4>1. ts \in Sizes
        BY BatchTyped DEF SendInv, TypeOK
      <4>. QED BY <1>1, <4>1 DEF Sizes, Remaining
    <3>2. message.count \in Nat
      BY <2>5, <3>1, EncodedCount DEF Sizes
    <3> HIDE DEF message
    <3>3. ts_sent' = ts_sent + message.count /\ pc' = "prepare"
      BY <2>1, <2>2, <2>5 DEF Encode, NextEntry, message
    <3>. QED BY <1>1, <2>2, <2>5, <3>2, <3>3 DEF Ahead
  <2>. QED BY <2>3, <2>4, <2>5
<1>3. CASE PrepareWithoutBlock
  BY <1>1, <1>3 DEF PrepareWithoutBlock, Fail, Ahead
<1>4. CASE Prepared
  <2>1. pc = "prepare" /\ pc' = "send"
        /\ UNCHANGED <<request_num, next>>
    BY <1>4 DEF Prepared
  <2>. QED BY <1>1, <2>1 DEF Ahead
<1>5. CASE SendMessage
  BY <1>1, <1>5 DEF SendMessage, Ahead
<1>6. CASE SendFails \/ SendDone \/ free_requests
  BY <1>1, <1>6 DEF SendFails, SendDone, free_requests, Ahead
<1>. QED BY <1>2, <1>3, <1>4, <1>5, <1>6 DEF OwnStep

\* Every step of a call brings it nearer to its end, whatever the encoder
\* makes of the batch and the others do with the slab: no loop of the call
\* goes on for ever, and it makes at most Ahead steps.
THEOREM CallEnds == Spec => [][CallNearsItsEnd]_vars
<1>1. SendInv /\ [Next]_vars => [CallNearsItsEnd]_vars
  <2> SUFFICES ASSUME SendInv, Next PROVE CallNearsItsEnd
    OBVIOUS
  <2>1. ~OwnStep => UNCHANGED <<ts, pc, ts_sent, request_num, next>>
    BY DEF OwnStep, Next, OtherTakesBlock, thingsboard_handle_response, given
  <2>. QED BY <2>1, OwnStepCounts DEF CallNearsItsEnd, Ahead
<1>. QED BY <1>1, SendInductive, PTL DEF Spec

-----------------------------------------------------------------------------
(* The slab as the call and the others share it *)

\* The part of the array behind the prepared messages holds no blocks, and
\* what is freed on the way out is only what the call still owns.
FreedInv ==
    /\ pc = "prepare" =>
          \A k \in Index : k >= request_num => requests[k] = NULL
    /\ pc = "free_requests" =>
          \A k \in Index : k <= request_num => requests[k] \in Mine \cup {NULL}

\* The blocks of the prepared messages belong to the call.
LEMMA PreparedAreMine ==
  ASSUME SendInv, pc \in {"prepare", "send"}, NEW k \in next .. request_num - 1
  PROVE  k \in Index /\ requests[k] \in Mine /\ requests[k] \in Request
<1>1. Mine = {requests[j] : j \in next .. request_num - 1} /\ Mine \subseteq Request
  BY DEF SendInv, BlocksInv, Unsent, Mine
<1>2. MaxRequests \in Nat /\ next \in Nat /\ request_num \in 0 .. MaxRequests
  BY BatchTyped DEF SendInv, TypeOK
<1>. QED BY <1>1, <1>2 DEF Index

LEMMA FreedByPrepare == SendInv /\ FreedInv /\ PrepareMessage => FreedInv'
<1> SUFFICES ASSUME SendInv, FreedInv, pc = "prepare",
                    NEW r \in Request, owner[r] = "free", Encode(r)
             PROVE  FreedInv'
  BY DEF PrepareMessage
<1>1. /\ request_num \in Index /\ request_num \in Nat /\ next = 0
      /\ \A k \in Index : k \in Nat
  BY FreeBlockFits, BatchTyped DEF SendInv, TypeOK, BlocksInv, Index
<1>2. /\ requests' = [requests EXCEPT ![request_num] = r]
      /\ requests \in [Index -> Request \cup {NULL}]
      /\ Mine' = Mine \cup {r}
  BY DEF Encode, SendInv, TypeOK, Mine
<1>3. CASE pc' = "free_requests" /\ request_num' = request_num
  <2>1. ASSUME NEW k \in Index, k <= request_num
        PROVE  requests'[k] \in Mine'
    <3>1. CASE k = request_num
      BY <1>1, <1>2, <3>1
    <3>2. CASE k < request_num
      BY <1>1, <1>2, <3>2, PreparedAreMine
    <3>. QED BY <1>1, <2>1, <3>1, <3>2
  <2>. QED BY <1>3, <2>1 DEF FreedInv
<1>4. CASE pc' = "assertion"
  BY <1>4 DEF FreedInv
<1>5. CASE pc' = pc /\ request_num' = request_num + 1
  <2>1. ASSUME NEW k \in Index, k >= request_num + 1 PROVE requests'[k] = NULL
    BY <1>1, <1>2, <2>1 DEF FreedInv
  <2>. QED BY <1>5, <2>1 DEF FreedInv
<1>6. \/ pc' = "free_requests" /\ request_num' = request_num
      \/ pc' = "assertion"
      \/ pc' = pc /\ request_num' = request_num + 1
  BY DEF Encode, Fail
<1>. QED BY <1>3, <1>4, <1>5, <1>6

LEMMA FreedStep == SendInv /\ FreedInv /\ [Next]_vars => FreedInv'
<1> SUFFICES ASSUME SendInv, FreedInv, [Next]_vars PROVE FreedInv'
  OBVIOUS
<1>1. CASE PrepareMessage
  BY <1>1, FreedByPrepare
<1>2. CASE PrepareWithoutBlock
  <2>1. /\ next = 0 /\ request_num \in Nat
        /\ \A k \in Index : k \in Nat
    BY <1>2, BatchTyped DEF PrepareWithoutBlock, SendInv, TypeOK, BlocksInv,
           Index
  <2>2. ASSUME NEW k \in Index, k <= request_num
        PROVE  requests[k] \in Mine \cup {NULL}
    <3>1. CASE k >= request_num
      BY <1>2, <3>1 DEF PrepareWithoutBlock, FreedInv
    <3>2. CASE k < request_num
      BY <1>2, <2>1, <3>2, PreparedAreMine DEF PrepareWithoutBlock
    <3>. QED BY <2>1, <3>1, <3>2
  <2>. QED BY <1>2, <2>2 DEF PrepareWithoutBlock, Fail, FreedInv, Mine
<1>3. CASE Prepared \/ SendMessage \/ SendFails \/ SendDone \/ free_requests
  BY <1>3 DEF Prepared, SendMessage, SendFails, SendDone, free_requests, FreedInv
<1>4. CASE \/ \E r \in Request : \/ OtherTakesBlock(r)
                                 \/ thingsboard_handle_response(r)
           \/ UNCHANGED vars
  <2>1. UNCHANGED <<pc, requests, request_num>> /\ Mine' = Mine
    BY <1>4 DEF OtherTakesBlock, thingsboard_handle_response, vars, Mine,
           SendInv, TypeOK
  <2>. QED BY <2>1 DEF FreedInv
<1>. QED BY <1>1, <1>2, <1>3, <1>4 DEF Next

Owned == owner \in [Request -> {"free", "call", "coap", "other"}]

\* What becomes of one block, by who has it.
LEMMA OwnerMoves ==
  ASSUME Owned, Owned', NEW r \in Request
  PROVE  /\ owner'[r] = owner[r] => Slab!Stays(r)
         /\ owner[r] = "free" /\ owner'[r] = "call" => Slab!Prepare(r, "call")
         /\ owner[r] = "call" /\ owner'[r] = "coap" => Slab!Submit(r, "call")
         /\ owner[r] = "call" /\ owner'[r] = "free" => Slab!GiveUp(r, "call")
         /\ owner[r] = "free" /\ owner'[r] = "other" => Slab!PrepareAndSubmit(r)
         /\ owner[r] \in {"coap", "other"} /\ owner'[r] = "free" => Slab!End(r)
BY DEF Owned, Slab!Stays, Slab!Prepare, Slab!Submit, Slab!GiveUp,
       Slab!PrepareAndSubmit, Slab!End, Slab!Becomes, Slab!Is, Slab!Free,
       Slab!Lend, Slab!Release, Slab!Lent

LEMMA SlabTyped ==
  ASSUME Owned'
  PROVE  /\ [r \in Request |->
                CASE owner[r] = "free" -> "free"
                  [] owner[r] = "call" -> "prepared"
                  [] OTHER             -> "lent"]' \in [Request -> Slab!Place]
         /\ owner' \in [Request -> {"call"} \cup {"coap", "other"} \cup {"free"}]
BY DEF Owned, Slab!Place

\* A step of the call or of another thread, block by block.
LEMMA OwnersMove ==
  ASSUME Owned, Owned',
         \A r \in Request :
            \/ owner'[r] = owner[r]
            \/ owner[r] = "free" /\ owner'[r] \in {"call", "other"}
            \/ owner[r] = "call" /\ owner'[r] \in {"coap", "free"}
  PROVE  Slab!Next
<1>1. ASSUME NEW r \in Request
      PROVE  \/ Slab!Stays(r) \/ Slab!Prepare(r, "call")
             \/ Slab!Submit(r, "call") \/ Slab!GiveUp(r, "call")
             \/ Slab!PrepareAndSubmit(r)
  BY OwnerMoves
<1>2. Slab!ThreadStep("call")
  BY <1>1 DEF Slab!ThreadStep
<1>. QED BY <1>2, SlabTyped DEF Slab!Next

LEMMA CallSlabStep ==
  SendInv /\ FreedInv /\ SendInv' /\ [Next]_vars => [Slab!Next]_(Slab!vars)
<1> SUFFICES ASSUME SendInv, FreedInv, SendInv', [Next]_vars
             PROVE  [Slab!Next]_(Slab!vars)
  OBVIOUS
<1>1. Owned /\ Owned'
  BY DEF SendInv, TypeOK, Owned
<1>2. ASSUME UNCHANGED owner PROVE UNCHANGED Slab!vars
  BY <1>2 DEF Slab!vars
<1>3. CASE PrepareMessage
  <2>1. PICK r \in Request : /\ owner[r] = "free"
                             /\ owner' = [owner EXCEPT ![r] = "call"]
    BY <1>3 DEF PrepareMessage, Encode
  <2>2. \A b \in Request : \/ owner'[b] = owner[b]
                           \/ owner[b] = "free" /\ owner'[b] = "call"
    BY <1>1, <2>1 DEF Owned
  <2>. QED BY <1>1, <2>2, OwnersMove
<1>4. CASE SendMessage
  <2>1. requests[next] \in Mine
    <3>1. next \in next .. request_num - 1
      BY <1>4, BatchTyped DEF SendMessage, SendInv, TypeOK
    <3>. QED BY <1>4, <3>1, PreparedAreMine DEF SendMessage
  <2>2. \A b \in Request : \/ owner'[b] = owner[b]
                           \/ owner[b] = "call" /\ owner'[b] = "coap"
    BY <1>1, <1>4, <2>1 DEF SendMessage, Mine, Owned
  <2>. QED BY <1>1, <2>2, OwnersMove
<1>5. CASE SendFails
  <2>1. /\ next \in next .. request_num - 1
        /\ next + 1 .. request_num - 1 \subseteq next .. request_num - 1
    BY <1>5, BatchTyped DEF SendFails, SendInv, TypeOK
  <2>2. \A k \in next .. request_num - 1 : requests[k] \in Mine
    BY <1>5, PreparedAreMine DEF SendFails
  <2>3. \A b \in Request : \/ owner'[b] = owner[b]
                           \/ owner[b] = "call" /\ owner'[b] = "free"
    BY <1>5, <2>1, <2>2 DEF SendFails, UnsentFrom, Mine
  <2>. QED BY <1>1, <2>3, OwnersMove
<1>6. CASE free_requests
  <2>1. \A b \in Request : \/ owner'[b] = owner[b]
                           \/ owner[b] = "call" /\ owner'[b] = "free"
    BY <1>6, BatchAssumption DEF free_requests, FreedInv, Mine
  <2>. QED BY <1>1, <2>1, OwnersMove
<1>7. ASSUME NEW r \in Request, OtherTakesBlock(r) PROVE Slab!Next
  <2>1. \A b \in Request : \/ owner'[b] = owner[b]
                           \/ owner[b] = "free" /\ owner'[b] = "other"
    BY <1>1, <1>7 DEF OtherTakesBlock, Owned
  <2>. QED BY <1>1, <2>1, OwnersMove
<1>8. ASSUME NEW r \in Request, thingsboard_handle_response(r) PROVE Slab!Next
  <2>1. /\ owner[r] \in {"coap", "other"} /\ owner'[r] = "free"
        /\ \A b \in Request \ {r} : owner'[b] = owner[b]
    BY <1>1, <1>8 DEF thingsboard_handle_response, Owned
  <2>2. Slab!End(r) /\ \A b \in Request \ {r} : Slab!Stays(b)
    BY <1>1, <2>1, OwnerMoves
  <2>3. Slab!CallbackStep(r)
    BY <1>1, <2>2 DEF Slab!CallbackStep, Owned
  <2>. QED BY <1>1, <2>3, SlabTyped DEF Slab!Next
<1>9. CASE PrepareWithoutBlock \/ Prepared \/ SendDone \/ UNCHANGED vars
  BY <1>2, <1>9 DEF PrepareWithoutBlock, Prepared, SendDone, vars
<1>. QED BY <1>3, <1>4, <1>5, <1>6, <1>7, <1>8, <1>9 DEF Next

\* For any batch and any slab a call takes, lends and gives back blocks as
\* RequestSlab.tla says, on each of its ways out, and what the model lets
\* the others do is what users of the slab may do.
THEOREM CallSharesSlab == Spec => ImplementsSlab
<1>1. Init => FreedInv
  BY DEF Init, FreedInv
<1>2. Init => Slab!Init
  BY DEF Init, Slab!Init, Slab!Free, Slab!Lent, Slab!Is, Slab!Place
<1>. QED
  BY <1>1, <1>2, FreedStep, CallSlabStep, SendInductive, PTL
     DEF Spec, ImplementsSlab, Slab!Spec
=============================================================================
