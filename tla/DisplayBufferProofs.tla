------------------------ MODULE DisplayBufferProofs ------------------------
(***************************************************************************)
(* The proofs about DisplayBuffer, for every capacity, set at any time.    *)
(***************************************************************************)
EXTENDS DisplayBuffer, SequenceTheorems, TLAPS

\* The last lines of a list, line by line.
LEMMA LastLines ==
  ASSUME NEW S, NEW all \in Seq(S), NEW lines \in Seq(S), Len(lines) <= Len(all)
  PROVE  lines = Last(all, Len(lines))
           <=> \A j \in 1 .. Len(lines) : lines[j] = all[Len(all) - Len(lines) + j]
<1> DEFINE n == Len(lines)
           from == Len(all) - n + 1
           last == SubSeq(all, from, Len(all))
<1>1. Len(all) \in Nat /\ n \in Nat /\ n <= Len(all)
  BY LenProperties
<1>2. \A j \in from .. Len(all) : all[j] \in S
  BY <1>1, ElementOfSeq
<1>3. /\ last \in Seq(S) /\ Len(last) = n
      /\ \A j \in 1 .. n : last[j] = all[Len(all) - n + j]
  <2>1. /\ last \in Seq(S) /\ Len(last) = IF from <= Len(all) THEN Len(all) - from + 1 ELSE 0
        /\ \A j \in 1 .. Len(all) - from + 1 : last[j] = all[from + j - 1]
    BY <1>1, <1>2, SubSeqProperties
  <2>2. Len(all) - from + 1 = n /\ \A j \in 1 .. n : from + j - 1 = Len(all) - n + j
    BY <1>1
  <2>3. Len(last) = n
    BY <1>1, <2>1, <2>2
  <2> QED BY <2>1, <2>2, <2>3
<1> HIDE DEF last
<1>4. lines = last <=> \A j \in 1 .. n : lines[j] = last[j]
  BY <1>3, SeqEqual
<1>5. Last(all, Len(lines)) = last
  BY DEF Last, last
<1> QED BY <1>3, <1>4, <1>5

BufferInv ==
  /\ mContentBuffer \in Seq(Contents) /\ shown \in Seq(Contents)
  /\ mContentBufferCapacity \in Nat /\ lowest \in Nat
  /\ lowest <= mContentBufferCapacity
  /\ KeepsTheLatest

\* What a list holds after a line was added.
LEMMA Added ==
  ASSUME NEW list \in Seq(Contents), NEW str \in Contents
  PROVE  /\ Append(list, str) \in Seq(Contents) /\ Append(list, str) # <<>>
         /\ Len(list) \in Nat /\ Len(Append(list, str)) = Len(list) + 1
         /\ \A j \in 1 .. Len(list) + 1 :
              Append(list, str)[j] = IF j <= Len(list) THEN list[j] ELSE str
<1>1. Len(list) \in Nat
  BY LenProperties
<1> QED BY <1>1, AppendProperties

LEMMA BufferPushes ==
  ASSUME BufferInv, NEW str \in Contents, PushContent(str)
  PROVE  BufferInv'
<1> DEFINE more == Append(mContentBuffer, str)
           all == Append(shown, str)
           m == Len(mContentBuffer)
           n == Len(shown)
<1>1. /\ more \in Seq(Contents) /\ more # <<>> /\ m \in Nat /\ Len(more) = m + 1
      /\ \A j \in 1 .. m + 1 : more[j] = IF j <= m THEN mContentBuffer[j] ELSE str
  BY Added DEF BufferInv
<1>2. /\ all \in Seq(Contents) /\ n \in Nat /\ Len(all) = n + 1
      /\ \A j \in 1 .. n + 1 : all[j] = IF j <= n THEN shown[j] ELSE str
  BY Added DEF BufferInv
<1>3. /\ m <= n /\ \A j \in 1 .. m : mContentBuffer[j] = shown[n - m + j]
      /\ m >= n \/ m >= lowest
      /\ lowest \in Nat /\ mContentBufferCapacity \in Nat /\ lowest <= mContentBufferCapacity
  BY LastLines DEF BufferInv, KeepsTheLatest, Fewer
<1>4. UNCHANGED <<mContentBufferCapacity, lowest>> /\ shown' = all
  BY DEF PushContent
<1> HIDE DEF more, all
<1>5. \A j \in 1 .. m + 1 : more[j] = all[n - m + j]
  <2> SUFFICES ASSUME NEW j \in 1 .. m + 1 PROVE more[j] = all[n - m + j]
    OBVIOUS
  <2>1. CASE j <= m
    <3>1. j \in 1 .. m /\ n - m + j \in 1 .. n /\ n - m + j \in 1 .. n + 1 /\ n - m + j <= n
      BY <2>1, <1>1, <1>2, <1>3
    <3>2. more[j] = mContentBuffer[j] /\ mContentBuffer[j] = shown[n - m + j]
      BY <2>1, <3>1, <1>1, <1>3
    <3>3. all[n - m + j] = shown[n - m + j]
      BY <3>1, <1>2
    <3> QED BY <3>2, <3>3
  <2>2. CASE j = m + 1
    <3>1. n - m + j = n + 1 /\ more[j] = str
      BY <2>2, <1>1, <1>2
    <3>2. all[n + 1] = str
      BY <1>2
    <3> QED BY <3>1, <3>2
  <2> QED BY <1>1, <2>1, <2>2
<1>6. CASE m + 1 <= mContentBufferCapacity
  <2>1. mContentBuffer' = more
    BY <1>1, <1>3, <1>6 DEF PushContent, Trimmed, more
  <2>2. \A j \in 1 .. Len(more) : more[j] = all[Len(all) - Len(more) + j]
    BY <1>1, <1>2, <1>5
  <2>3. more = Last(all, Len(more))
    <3>1. Len(more) <= Len(all)
      BY <1>1, <1>2, <1>3
    <3> QED BY <1>1, <1>2, <2>2, <3>1, LastLines
  <2>4. Len(more) >= Fewer(Len(all), lowest) /\ Len(more) <= Len(all)
    BY <1>1, <1>2, <1>3 DEF Fewer
  <2> QED BY <1>1, <1>2, <1>3, <1>4, <2>1, <2>3, <2>4 DEF BufferInv, KeepsTheLatest
<1>7. CASE m + 1 > mContentBufferCapacity
  <2> DEFINE kept == Tail(more)
  <2>1. mContentBuffer' = kept
    BY <1>1, <1>3, <1>7 DEF PushContent, Trimmed, more
  <2>2. kept \in Seq(Contents) /\ Len(kept) = m /\ \A j \in 1 .. m : kept[j] = more[j + 1]
    BY <1>1, HeadTailProperties
  <2> HIDE DEF kept
  <2>3. \A j \in 1 .. Len(kept) : kept[j] = all[Len(all) - Len(kept) + j]
    <3> SUFFICES ASSUME NEW j \in 1 .. m PROVE kept[j] = all[n + 1 - m + j]
      BY <1>2, <2>2
    <3>1. kept[j] = more[j + 1] /\ j + 1 \in 1 .. m + 1
      BY <1>1, <2>2
    <3>2. more[j + 1] = all[n - m + (j + 1)]
      BY <1>5, <3>1
    <3>3. n - m + (j + 1) = n + 1 - m + j
      BY <1>1, <1>2
    <3> QED BY <3>1, <3>2, <3>3
  <2>4. kept = Last(all, Len(kept))
    <3>1. Len(kept) <= Len(all)
      BY <1>1, <1>2, <1>3, <2>2
    <3> QED BY <1>2, <2>2, <2>3, <3>1, LastLines
  <2>5. Len(kept) >= Fewer(Len(all), lowest) /\ Len(kept) <= Len(all)
    BY <1>1, <1>2, <1>3, <1>7, <2>2 DEF Fewer
  <2> QED BY <1>2, <1>3, <1>4, <2>1, <2>2, <2>4, <2>5 DEF BufferInv, KeepsTheLatest
<1> QED BY <1>1, <1>3, <1>6, <1>7

\* Two equal lists: the one is the end of the other.
LEMMA WholeIsLast ==
  ASSUME NEW list \in Seq(Contents), NEW n \in Nat
  PROVE  /\ list = Last(list, Len(list)) /\ Len(list) <= Len(list)
         /\ Len(list) >= Fewer(Len(list), n)
<1>1. Len(list) \in Nat
  BY LenProperties
<1>2. \A j \in 1 .. Len(list) : list[j] = list[Len(list) - Len(list) + j]
  BY <1>1
<1>3. list = Last(list, Len(list))
  BY <1>1, <1>2, LastLines
<1> QED BY <1>1, <1>3 DEF Fewer

\* The buffer holds the newest lines in order, and all of them as far as no
\* capacity since the last Clear was below their number.
THEOREM KeepsTheLatestCorrect == Spec => []KeepsTheLatest
<1>1. Init => BufferInv
  <2> SUFFICES ASSUME Init PROVE BufferInv
    OBVIOUS
  <2>1. <<>> \in Seq(Contents) /\ StartCapacity \in Nat
    BY EmptySeq, DisplayBufferAssumption
  <2>2. /\ <<>> = Last(<<>>, Len(<<>>)) /\ Len(<<>>) <= Len(<<>>)
        /\ Len(<<>>) >= Fewer(Len(<<>>), StartCapacity)
    BY <2>1, WholeIsLast
  <2>3. mContentBufferCapacity <= mContentBufferCapacity
    BY <2>1 DEF Init
  <2>4. KeepsTheLatest
    BY <2>2 DEF Init, KeepsTheLatest
  <2> QED BY <2>1, <2>3, <2>4 DEF Init, BufferInv
<1>2. BufferInv /\ [Next]_bufferVars => BufferInv'
  <2> SUFFICES ASSUME BufferInv, [Next]_bufferVars PROVE BufferInv'
    OBVIOUS
  <2>1. CASE Clear
    <3>1. <<>> \in Seq(Contents)
      BY EmptySeq
    <3>2. mContentBufferCapacity \in Nat
      BY DEF BufferInv
    <3>3. /\ <<>> = Last(<<>>, Len(<<>>)) /\ Len(<<>>) <= Len(<<>>)
          /\ Len(<<>>) >= Fewer(Len(<<>>), mContentBufferCapacity)
      BY <3>1, <3>2, WholeIsLast
    <3>4. KeepsTheLatest'
      BY <2>1, <3>3 DEF Clear, KeepsTheLatest
    <3> QED BY <2>1, <3>1, <3>2, <3>4 DEF Clear, BufferInv
  <2>2. ASSUME NEW capacity \in Capacities, SetContentBufferCapacity(capacity) PROVE BufferInv'
    <3>1. capacity \in Nat
      BY DisplayBufferAssumption
    <3>2. /\ lowest' \in {lowest, capacity} /\ lowest' <= lowest /\ lowest' <= capacity
          /\ lowest' \in Nat /\ lowest \in Nat
      BY <2>2, <3>1 DEF SetContentBufferCapacity, Fewer, BufferInv
    <3>3. Len(shown) \in Nat /\ Len(mContentBuffer) \in Nat
      BY LenProperties DEF BufferInv
    <3>4. Fewer(Len(shown), lowest') <= Fewer(Len(shown), lowest)
      BY <3>2, <3>3 DEF Fewer
    <3>5. Len(mContentBuffer) >= Fewer(Len(shown), lowest')
      BY <3>2, <3>3, <3>4 DEF BufferInv, KeepsTheLatest, Fewer
    <3>6. UNCHANGED <<mContentBuffer, shown>> /\ mContentBufferCapacity' = capacity
      BY <2>2 DEF SetContentBufferCapacity
    <3>7. KeepsTheLatest'
      BY <3>5, <3>6 DEF BufferInv, KeepsTheLatest
    <3> QED BY <3>1, <3>2, <3>6, <3>7 DEF BufferInv
  <2>3. ASSUME NEW other \in Others, Assign(other) PROVE BufferInv'
    <3>1. other.lines \in Seq(Contents) /\ other.capacity \in Nat
      BY DisplayBufferAssumption
    <3>2. mContentBuffer' = other.lines /\ shown' = other.lines
          /\ mContentBufferCapacity' = other.capacity /\ lowest' = other.capacity
      BY <2>3 DEF Assign
    <3>3. KeepsTheLatest'
      BY <3>1, <3>2, WholeIsLast DEF KeepsTheLatest
    <3> QED BY <3>1, <3>2, <3>3 DEF BufferInv
  <2>4. CASE UNCHANGED bufferVars
    BY <2>4 DEF bufferVars, BufferInv, KeepsTheLatest
  <2> QED BY <2>1, <2>2, <2>3, <2>4, BufferPushes DEF Next
<1>3. BufferInv => KeepsTheLatest
  BY DEF BufferInv
<1> QED BY <1>1, <1>2, <1>3, PTL DEF Spec
=============================================================================
