------------------------- MODULE ConsoleLayoutProofs -------------------------
(***************************************************************************)
(* The proofs about ConsoleLayout, for every size of the window and every  *)
(* length of what is shown.  What a recursive function computes is found   *)
(* by induction over its arguments, and the induction is that a set of     *)
(* numbers has a least element: of those where the claim fails there is    *)
(* none.                                                                   *)
(***************************************************************************)
EXTENDS ConsoleLayout, DisplayBufferProofs, WellFoundedInduction

LEMMA Least ==
  ASSUME NEW T \in SUBSET Nat, T # {}
  PROVE  \E n \in T : \A m \in T : n <= m
<1>1. PICK n \in T : \A m \in T : ~(<<m, n>> \in OpToRel(<, Nat))
  BY NatLessThanWellFounded, WFMin
<1>2. \A m \in T : ~(m < n)
  BY <1>1 DEF OpToRel
<1> QED BY <1>2

\* From zero up to n.
LEMMA Upward ==
  ASSUME NEW n \in Nat, NEW T, 0 \in T, \A k \in 1 .. n : k - 1 \in T => k \in T
  PROVE  \A k \in 0 .. n : k \in T
<1> DEFINE Rest == {k \in 0 .. n : k \notin T}
<1> SUFFICES ASSUME Rest # {} PROVE FALSE
  OBVIOUS
<1>1. Rest \in SUBSET Nat
  OBVIOUS
<1>2. PICK k \in Rest : \A m \in Rest : k <= m
  BY <1>1, Least
<1>3. k \in 1 .. n /\ k - 1 \in 0 .. n /\ ~(k <= k - 1)
  BY <1>2
<1>4. k - 1 \notin Rest
  BY <1>2, <1>3
<1> QED BY <1>2, <1>3, <1>4

\* From n down to one.
LEMMA Downward ==
  ASSUME NEW n \in Nat, NEW T,
         \A k \in 1 .. n : (\A j \in k + 1 .. n : j \in T) => k \in T
  PROVE  \A k \in 1 .. n : k \in T
<1> DEFINE Later == {k \in 0 .. n : \A j \in 1 .. n : j > n - k => j \in T}
<1>1. 0 \in Later
  OBVIOUS
<1>2. ASSUME NEW k \in 1 .. n, k - 1 \in Later PROVE k \in Later
  <2>1. \A j \in (n - k + 1) + 1 .. n : j \in T
    <3> SUFFICES ASSUME NEW j \in (n - k + 1) + 1 .. n PROVE j \in T
      OBVIOUS
    <3>1. j \in 1 .. n /\ j > n - (k - 1)
      OBVIOUS
    <3> QED BY <1>2, <3>1
  <2>2. n - k + 1 \in T
    BY <2>1
  <2>3. ASSUME NEW j \in 1 .. n, j > n - k PROVE j \in T
    <3>1. j = n - k + 1 \/ j \in (n - k + 1) + 1 .. n
      BY <2>3
    <3> QED BY <2>1, <2>2, <3>1
  <2> QED BY <2>3
<1>3. \A k \in 0 .. n : k \in Later
  BY <1>1, <1>2, Upward
<1>4. n \in Later
  BY <1>3
<1> QED BY <1>4

\* A function that is defined at zero and from each number to the next.
IsFold(n, R, b, h) == n \in Nat /\ b \in R /\ h \in [1 .. n -> [R -> R]]

LEMMA RecursionUpward ==
  ASSUME NEW n, NEW R, NEW b, NEW h, IsFold(n, R, b, h)
  PROVE  \E f \in [0 .. n -> R] : f[0] = b /\ \A k \in 1 .. n : f[k] = h[k][f[k - 1]]
<1> USE DEF IsFold
<1> DEFINE Sound(f, k) == f[0] = b /\ \A j \in 1 .. k : f[j] = h[j][f[j - 1]]
           T == {k \in 0 .. n : \E f \in [0 .. n -> R] : Sound(f, k)}
<1>1. 0 \in T
  <2> DEFINE f == [i \in 0 .. n |-> b]
  <2>1. f \in [0 .. n -> R] /\ Sound(f, 0)
    OBVIOUS
  <2> HIDE DEF f
  <2>2. \E g \in [0 .. n -> R] : Sound(g, 0)
    BY <2>1
  <2> QED BY <2>2
<1>2. ASSUME NEW k \in 1 .. n, k - 1 \in T PROVE k \in T
  <2>1. PICK f \in [0 .. n -> R] : Sound(f, k - 1)
    BY <1>2
  <2> DEFINE v == h[k][f[k - 1]]
             g == [i \in 0 .. n |-> IF i = k THEN v ELSE f[i]]
  <2>2. v \in R
    OBVIOUS
  <2>3. g \in [0 .. n -> R]
    BY <2>2
  <2>4. ASSUME NEW j \in 1 .. k PROVE g[j] = h[j][g[j - 1]]
    <3>1. CASE j = k
      <4>1. g[k] = v /\ g[k - 1] = f[k - 1]
        OBVIOUS
      <4> QED BY <3>1, <4>1
    <3>2. CASE j < k
      <4>1. j \in 1 .. k - 1 /\ g[j] = f[j] /\ g[j - 1] = f[j - 1]
        BY <3>2
      <4>2. f[j] = h[j][f[j - 1]]
        BY <2>1, <4>1
      <4> QED BY <4>1, <4>2
    <3> QED BY <3>1, <3>2
  <2>5. g[0] = b
    BY <2>1
  <2> HIDE DEF g
  <2> QED BY <2>3, <2>4, <2>5
<1>3. n \in T
  <2> HIDE DEF T
  <2>1. \A k \in 0 .. n : k \in T
    BY <1>1, <1>2, Upward
  <2> QED BY <2>1
<1> QED BY <1>3

\* A function that is defined at each number by its value at a later one, or
\* outright.
IsRecursion(n, R, Stop, b, h, next) ==
  /\ n \in Nat /\ b \in [1 .. n -> R] /\ h \in [1 .. n -> [R -> R]]
  /\ next \in [1 .. n -> Int]
  /\ \A i \in 1 .. n : i \notin Stop => next[i] \in i + 1 .. n

LEMMA RecursionDownward ==
  ASSUME NEW n, NEW R, NEW Stop, NEW b, NEW h, NEW next, IsRecursion(n, R, Stop, b, h, next)
  PROVE  \E f \in [1 .. n -> R] :
           \A i \in 1 .. n : f[i] = IF i \in Stop THEN b[i] ELSE h[i][f[next[i]]]
<1> DEFINE Sound(f, i) == f[i] = IF i \in Stop THEN b[i] ELSE h[i][f[next[i]]]
           T == {k \in 0 .. n : \E f \in [1 .. n -> R] : \A i \in 1 .. n : i > n - k => Sound(f, i)}
<1> USE DEF IsRecursion
<1>1. 0 \in T
  BY DEF T
<1>2. ASSUME NEW k \in 1 .. n, k - 1 \in T PROVE k \in T
  <2>1. PICK f \in [1 .. n -> R] : \A i \in 1 .. n : i > n - (k - 1) => Sound(f, i)
    BY <1>2
  <2> DEFINE m == n - k + 1
             v == IF m \in Stop THEN b[m] ELSE h[m][f[next[m]]]
             g == [i \in 1 .. n |-> IF i = m THEN v ELSE f[i]]
  <2>2. m \in 1 .. n
    OBVIOUS
  <2>3. v \in R
    BY <2>2
  <2>4. g \in [1 .. n -> R]
    BY <2>3
  <2>5. ASSUME NEW i \in 1 .. n, i > n - k PROVE Sound(g, i)
    <3>1. CASE i = m
      <4>1. i \notin Stop => g[next[i]] = f[next[i]]
        BY <3>1
      <4>2. g[i] = v
        BY <3>1
      <4> HIDE DEF g
      <4> QED BY <3>1, <4>1, <4>2
    <3>2. CASE i > m
      <4>1. i \notin Stop => g[next[i]] = f[next[i]]
        BY <3>2
      <4>2. g[i] = f[i]
        BY <3>2
      <4>3. Sound(f, i)
        BY <2>1, <3>2
      <4> HIDE DEF g
      <4> QED BY <4>1, <4>2, <4>3
    <3>3. i = m \/ i > m
      BY <2>5
    <3> QED BY <3>1, <3>2, <3>3
  <2> HIDE DEF g
  <2>6. \E e \in [1 .. n -> R] : \A i \in 1 .. n : i > n - k => Sound(e, i)
    <3> HIDE DEF Sound
    <3> QED BY <2>4, <2>5, Zenon
  <2>7. k \in 0 .. n
    OBVIOUS
  <2> HIDE DEF Sound
  <2> QED BY <2>6, <2>7, Zenon
<1>3. n \in T
  <2> HIDE DEF T
  <2>1. \A k \in 0 .. n : k \in T
    BY <1>1, <1>2, Upward
  <2> QED BY <2>1
<1> QED BY <1>3
-----------------------------------------------------------------------------
(***************************************************************************)
(* Where strlenMultiByte reads.                                            *)
(***************************************************************************)

Counts == [width : Nat, end : Nat]

\* What strlenMultiByte computes from each place in the string: counts from
\* there, with one character more than from where the next one begins.
IsCount(str, from) ==
  \A i \in 1 .. Len(str) + 4 :
    IF i > Len(str) \/ str[i] = 0
    THEN from[i] = [width |-> 0, end |-> i]
    ELSE from[i] = [width |-> from[i + Step(str[i])].width + 1,
                    end   |-> from[i + Step(str[i])].end]

LEMMA StrlenCounts ==
  ASSUME NEW T, NEW str \in Seq(T)
  PROVE  \E from \in [1 .. Len(str) + 4 -> Counts] :
           IsCount(str, from) /\ strlenMultiByte(str) = from[1]
<1> DEFINE n == Len(str)
           c_str == Append(str, 0)
           Stop == {i \in 1 .. n + 4 : i > Len(c_str) \/ c_str[i] = 0}
           next == [i \in 1 .. n + 4 |-> i + Step(c_str[i])]
           more(r) == [r EXCEPT !.width = @ + 1]
           body(f) == [i \in 1 .. Len(c_str) + 3 |->
                        IF i > Len(c_str) \/ c_str[i] = 0 THEN [width |-> 0, end |-> i]
                        ELSE [f[i + Step(c_str[i])] EXCEPT !.width = @ + 1]]
           from == CHOOSE f : f = body(f)
<1>1. strlenMultiByte(str) = from[1]
  BY DEF strlenMultiByte
<1>2. /\ n \in Nat /\ Len(c_str) = n + 1 /\ c_str[n + 1] = 0
      /\ \A i \in 1 .. n : c_str[i] = str[i]
  <2>1. str \in Seq(T \cup {0})
    BY SeqMonotonic
  <2> QED BY <2>1, AppendProperties, LenProperties
<1> HIDE DEF c_str
<1>3. \A i \in 1 .. n + 4 : Step(c_str[i]) \in {1, 3} /\ next[i] \in Int
  BY <1>2 DEF Step
<1>4. ASSUME NEW i \in 1 .. n + 4, i \notin Stop
      PROVE  next[i] \in i + 1 .. n + 4 /\ i <= n
  <2>1. i <= n + 1 /\ c_str[i] # 0
    BY <1>2, <1>4
  <2>2. i <= n
    BY <1>2, <2>1
  <2> QED BY <1>2, <1>3, <2>2
<1>5. \E f : f = body(f)
  <2> DEFINE b == [i \in 1 .. n + 4 |-> [width |-> 0, end |-> i]]
             h == [i \in 1 .. n + 4 |-> [r \in Counts |-> more(r)]]
  <2>1. b \in [1 .. n + 4 -> Counts]
    BY <1>2 DEF Counts
  <2>2. \A r \in Counts : more(r) \in Counts
    BY DEF Counts
  <2>3. h \in [1 .. n + 4 -> [Counts -> Counts]]
    BY <2>2
  <2>4. next \in [1 .. n + 4 -> Int] /\ n + 4 \in Nat
    BY <1>2, <1>3
  <2>5. \A i \in 1 .. n + 4 : i \notin Stop => next[i] \in i + 1 .. n + 4
    BY <1>4
  <2> HIDE DEF b, h, next, Stop
  <2>6. PICK f \in [1 .. n + 4 -> Counts] :
          \A i \in 1 .. n + 4 : f[i] = IF i \in Stop THEN b[i] ELSE h[i][f[next[i]]]
    <3>1. IsRecursion(n + 4, Counts, Stop, b, h, next)
      BY <2>1, <2>3, <2>4, <2>5 DEF IsRecursion
    <3> QED BY <3>1, RecursionDownward
  <2>7. ASSUME NEW i \in 1 .. n + 4
        PROVE  f[i] = IF i > Len(c_str) \/ c_str[i] = 0 THEN [width |-> 0, end |-> i]
                      ELSE [f[i + Step(c_str[i])] EXCEPT !.width = @ + 1]
    <3>1. CASE i \in Stop
      BY <2>6, <3>1 DEF Stop, b
    <3>2. CASE i \notin Stop
      <4>1. next[i] \in 1 .. n + 4 /\ next[i] = i + Step(c_str[i])
        BY <1>2, <2>5, <3>2 DEF next
      <4>2. f[next[i]] \in Counts
        BY <4>1
      <4>3. f[i] = more(f[next[i]])
        BY <2>6, <3>2, <4>2 DEF h
      <4> QED BY <3>2, <4>1, <4>3 DEF Stop
    <3> QED BY <3>1, <3>2
  <2>8. f = body(f)
    <3>1. Len(c_str) + 3 = n + 4
      BY <1>2
    <3> QED BY <2>7, <3>1
  <2> QED BY <2>8
<1>6. from = body(from)
  BY <1>5
<1> HIDE DEF from
<1>7. ASSUME NEW i \in 1 .. n + 4
      PROVE  from[i] = IF i \in Stop THEN [width |-> 0, end |-> i] ELSE more(from[next[i]])
  <2>1. i \in 1 .. Len(c_str) + 3
    BY <1>2
  <2>2. from[i] = IF i > Len(c_str) \/ c_str[i] = 0 THEN [width |-> 0, end |-> i]
                  ELSE [from[i + Step(c_str[i])] EXCEPT !.width = @ + 1]
    BY <1>6, <2>1
  <2> QED BY <2>2
<1>8. \A i \in 1 .. n + 4 : from[i] \in Counts
  <2> DEFINE Counted_ == {i \in 1 .. n + 4 : from[i] \in Counts}
  <2>1. ASSUME NEW i \in 1 .. n + 4, \A j \in i + 1 .. n + 4 : j \in Counted_
        PROVE  i \in Counted_
    <3>1. CASE i \in Stop
      <4>1. from[i] = [width |-> 0, end |-> i]
        BY <1>7, <3>1
      <4>2. [width |-> 0, end |-> i] \in Counts
        BY <1>2 DEF Counts
      <4> QED BY <4>1, <4>2
    <3>2. CASE i \notin Stop
      <4>1. from[next[i]] \in Counts
        BY <1>4, <2>1, <3>2
      <4>2. more(from[next[i]]) \in Counts
        BY <4>1 DEF Counts
      <4> QED BY <1>7, <3>2, <4>2
    <3> QED BY <3>1, <3>2
  <2> HIDE DEF Counted_
  <2>2. n + 4 \in Nat
    BY <1>2
  <2>3. \A i \in 1 .. n + 4 : i \in Counted_
    BY <2>1, <2>2, Downward
  <2> QED BY <2>3 DEF Counted_
<1>9. from \in [1 .. n + 4 -> Counts]
  <2>1. DOMAIN from = 1 .. n + 4 /\ from = [i \in DOMAIN from |-> from[i]]
    BY <1>2, <1>6
  <2> QED BY <1>8, <2>1
<1>10. IsCount(str, from)
  <2> SUFFICES ASSUME NEW i \in 1 .. n + 4
               PROVE  IF i > Len(str) \/ str[i] = 0
                      THEN from[i] = [width |-> 0, end |-> i]
                      ELSE from[i] = [width |-> from[i + Step(str[i])].width + 1,
                                      end   |-> from[i + Step(str[i])].end]
    BY DEF IsCount
  <2>1. CASE i > Len(str) \/ str[i] = 0
    <3>1. i \in Stop
      BY <1>2, <2>1
    <3> QED BY <1>7, <2>1, <3>1
  <2>2. CASE ~(i > Len(str) \/ str[i] = 0)
    <3>1. i \in 1 .. n /\ c_str[i] = str[i] /\ i \notin Stop
      BY <1>2, <2>2
    <3>2. next[i] = i + Step(str[i]) /\ next[i] \in 1 .. n + 4
      BY <1>2, <1>4, <3>1
    <3>3. from[next[i]] \in Counts
      BY <1>8, <3>2
    <3>4. more(from[next[i]]) = [width |-> from[next[i]].width + 1, end |-> from[next[i]].end]
      BY <3>3 DEF Counts
    <3> QED BY <1>7, <2>2, <3>1, <3>2, <3>4
  <2> QED BY <2>1, <2>2
<1> QED BY <1>1, <1>9, <1>10

\* A text of whole characters: each begins where the one before it ends, and
\* the last ends where the text does.
BeginsAt(str, begins) ==
  /\ begins \subseteq 1 .. Len(str) + 1 /\ 1 \in begins
  /\ \A i \in begins : i <= Len(str) => i + Step(str[i]) \in begins

IsWhole(str) ==
  /\ \E T : str \in Seq(T)
  /\ \E begins : BeginsAt(str, begins)

\* In such a text strlenMultiByte comes to no byte behind the terminating zero.
LEMMA WholeReadsInside ==
  ASSUME NEW str, IsWhole(str)
  PROVE  strlenMultiByte(str).end <= Len(str) + 1
<1>1. PICK T : str \in Seq(T)
  BY DEF IsWhole
<1>2. PICK begins : BeginsAt(str, begins)
  BY DEF IsWhole
<1>3. PICK from \in [1 .. Len(str) + 4 -> Counts] :
        IsCount(str, from) /\ strlenMultiByte(str) = from[1]
  BY <1>1, StrlenCounts
<1> DEFINE n == Len(str)
           Inside == {i \in 1 .. n + 4 : i \in begins => from[i].end <= n + 1}
<1>4. n \in Nat
  BY <1>1, LenProperties
<1>5. ASSUME NEW i \in 1 .. n + 4, \A j \in i + 1 .. n + 4 : j \in Inside
      PROVE  i \in Inside
  <2> SUFFICES ASSUME i \in begins PROVE from[i].end <= n + 1
    OBVIOUS
  <2>1. i \in 1 .. n + 1
    BY <1>2 DEF BeginsAt
  <2>2. CASE i > n \/ str[i] = 0
    <3>1. from[i] = [width |-> 0, end |-> i]
      BY <1>3, <2>2 DEF IsCount
    <3> QED BY <1>4, <2>1, <3>1
  <2>3. CASE ~(i > n \/ str[i] = 0)
    <3> DEFINE j == i + Step(str[i])
    <3>1. j \in begins
      BY <1>2, <1>4, <2>1, <2>3 DEF BeginsAt
    <3>2. j \in i + 1 .. n + 4
      BY <1>4, <2>1, <2>3 DEF Step
    <3>3. from[j].end <= n + 1
      BY <1>5, <3>1, <3>2
    <3>4. from[i] = [width |-> from[j].width + 1, end |-> from[j].end]
      BY <1>3, <2>3 DEF IsCount
    <3> QED BY <3>3, <3>4
  <2> QED BY <2>2, <2>3
<1>6. \A i \in 1 .. n + 4 : i \in Inside
  <2> HIDE DEF Inside
  <2>1. n + 4 \in Nat
    BY <1>4
  <2> QED BY <1>5, <2>1, Downward
<1>7. 1 \in begins /\ 1 \in 1 .. n + 4
  BY <1>2, <1>4 DEF BeginsAt
<1> QED BY <1>3, <1>6, <1>7

\* Where every byte is a character the text is whole.
LEMMA AsciiIsWhole ==
  ASSUME NEW str \in Seq(0 .. 127)
  PROVE  IsWhole(str)
<1> DEFINE begins == 1 .. Len(str) + 1
<1>1. Len(str) \in Nat /\ \A i \in 1 .. Len(str) : str[i] \in 0 .. 127
  BY LenProperties, ElementOfSeq
<1>2. ASSUME NEW i \in begins, i <= Len(str) PROVE i + Step(str[i]) \in begins
  <2>1. i \in 1 .. Len(str)
    BY <1>1, <1>2
  <2>2. ~(str[i] < 0)
    <3> DEFINE byte == str[i]
    <3>1. byte \in 0 .. 127
      BY <1>1, <2>1
    <3> HIDE DEF byte
    <3>2. ~(byte < 0)
      BY <3>1
    <3> QED BY <3>2 DEF byte
  <2>3. Step(str[i]) = 1
    BY <2>2 DEF Step
  <2> QED BY <1>1, <2>1, <2>3
<1>3. BeginsAt(str, begins)
  BY <1>1, <1>2 DEF BeginsAt
<1> QED BY <1>3 DEF IsWhole

\* The application shows whole lines; if it shows what was typed, that is
\* ASCII: Delete takes single bytes.
LinesAreWhole ==
  /\ \A str \in Contents : IsWhole(str)
  /\ Echoing => \A char \in Typed : char \in Seq(0 .. 127)

WholeInv ==
  /\ \E T : mContentBuffer \in Seq(T)
  /\ \A i \in 1 .. Len(mContentBuffer) : IsWhole(mContentBuffer[i])
  /\ Echoing => mPromptBuffer \in Seq(0 .. 127)

\* A line is added, and the oldest may go.
LEMMA WholePushes ==
  ASSUME WholeInv, NEW str, IsWhole(str), PushContent(str)
  PROVE  /\ \E T : mContentBuffer' \in Seq(T)
         /\ \A i \in 1 .. Len(mContentBuffer') : IsWhole(mContentBuffer'[i])
<1>1. PICK T : mContentBuffer \in Seq(T)
  BY DEF WholeInv
<1> DEFINE U == T \cup {str}
           more == Append(mContentBuffer, str)
           n == Len(mContentBuffer)
<1>2. mContentBuffer \in Seq(U) /\ n \in Nat
  BY <1>1, SeqMonotonic, LenProperties
<1>3. /\ more \in Seq(U) /\ more # <<>> /\ Len(more) = n + 1
      /\ \A i \in 1 .. n : more[i] = mContentBuffer[i]
      /\ more[n + 1] = str
  BY <1>2, AppendProperties
<1> HIDE DEF more
<1>4. \A i \in 1 .. Len(more) : IsWhole(more[i])
  BY <1>2, <1>3 DEF WholeInv
<1>5. /\ Tail(more) \in Seq(U) /\ Len(Tail(more)) = Len(more) - 1
      /\ \A i \in 1 .. Len(Tail(more)) : Tail(more)[i] = more[i + 1]
  BY <1>3, HeadTailProperties
<1>6. \A i \in 1 .. Len(Tail(more)) : IsWhole(Tail(more)[i])
  BY <1>2, <1>3, <1>4, <1>5
<1>7. mContentBuffer' \in {more, Tail(more)}
  BY DEF PushContent, Trimmed, more
<1> QED BY <1>3, <1>4, <1>5, <1>6, <1>7

LEMMA WholeNext ==
  LinesAreWhole /\ WholeInv /\ [LayoutNext]_layoutVars => WholeInv'
<1> SUFFICES ASSUME LinesAreWhole, WholeInv, [LayoutNext]_layoutVars PROVE WholeInv'
  OBVIOUS
<1>1. CASE Setting \/ updateConsoleSize \/ UNCHANGED layoutVars
  BY <1>1 DEF Setting, updateConsoleSize, layoutVars, bufferVars, WholeInv
<1>2. CASE Content
  <2>1. mPromptBuffer' = mPromptBuffer
    BY <1>2 DEF Content
  <2>2. ASSUME NEW str \in Contents, PushContent(str) PROVE WholeInv'
    BY <2>1, <2>2, WholePushes DEF LinesAreWhole, WholeInv
  <2>3. CASE Clear
    <3>1. <<>> \in Seq({}) /\ Len(<<>>) = 0
      OBVIOUS
    <3> QED BY <2>1, <2>3, <3>1 DEF Clear, WholeInv
  <2>4. ASSUME NEW capacity \in Capacities, SetContentBufferCapacity(capacity) PROVE WholeInv'
    BY <2>1, <2>4 DEF SetContentBufferCapacity, WholeInv
  <2>5. ASSUME NEW other \in Others, Assign(other) PROVE WholeInv'
    <3>1. other.lines \in Seq(Contents) /\ mContentBuffer' = other.lines
      BY <2>5, DisplayBufferAssumption DEF Assign
    <3>2. \A i \in 1 .. Len(other.lines) : IsWhole(other.lines[i])
      BY <3>1, ElementOfSeq DEF LinesAreWhole
    <3> QED BY <2>1, <3>1, <3>2 DEF WholeInv
  <2> QED BY <1>2, <2>2, <2>3, <2>4, <2>5 DEF Content, Next
<1>3. ASSUME NEW char \in Typed, Grows(char) PROVE WholeInv'
  <2>1. Echoing => mPromptBuffer \o char \in Seq(0 .. 127)
    BY ConcatProperties DEF LinesAreWhole, WholeInv
  <2> QED BY <1>3, <2>1 DEF Grows, WholeInv, bufferVars
<1>4. CASE Erases
  <2>1. ASSUME Echoing PROVE mPromptBuffer' \in Seq(0 .. 127)
    <3>1. mPromptBuffer \in Seq(0 .. 127) /\ Len(mPromptBuffer) \in Nat
      BY <2>1, LenProperties DEF WholeInv
    <3>2. ASSUME NEW i \in 1 .. Len(mPromptBuffer) - 1 PROVE mPromptBuffer[i] \in 0 .. 127
      <4>1. i \in 1 .. Len(mPromptBuffer)
        BY <3>1
      <4> QED BY <3>1, <4>1, ElementOfSeq
    <3>3. SubSeq(mPromptBuffer, 1, Len(mPromptBuffer) - 1) \in Seq(0 .. 127)
      BY <3>1, <3>2, SubSeqProperties
    <3> QED BY <1>4, <3>3 DEF Erases
  <2> QED BY <1>4, <2>1 DEF Erases, WholeInv, bufferVars
<1>5. CASE Ends
  <2>1. mPromptBuffer' = <<>> /\ <<>> \in Seq(0 .. 127)
    BY <1>5 DEF Ends
  <2>2. CASE Echoing
    <3>1. PushContent(mPromptBuffer) /\ IsWhole(mPromptBuffer)
      BY <1>5, <2>2, AsciiIsWhole DEF Ends, WholeInv
    <3> QED BY <2>1, <3>1, WholePushes DEF WholeInv
  <2>3. CASE ~Echoing
    BY <1>5, <2>1, <2>3 DEF Ends, WholeInv, bufferVars
  <2> QED BY <2>2, <2>3
<1> QED BY <1>1, <1>2, <1>3, <1>4, <1>5 DEF LayoutNext

\* strlenMultiByte stays inside every line that is shown, for all lines of
\* whole characters of one and of three bytes, whatever is pushed, typed, erased,
\* resized or assigned.
THEOREM ReadsInsideCorrect == LinesAreWhole => (LayoutSpec => []ReadsInside)
<1> SUFFICES ASSUME LinesAreWhole PROVE LayoutSpec => []ReadsInside
  OBVIOUS
<1>1. LayoutInit => WholeInv
  <2>1. <<>> \in Seq({}) /\ Len(<<>>) = 0 /\ <<>> \in Seq(0 .. 127)
    OBVIOUS
  <2> QED BY <2>1 DEF LayoutInit, Init, WholeInv
<1>2. WholeInv /\ [LayoutNext]_layoutVars => WholeInv'
  BY WholeNext
<1>3. WholeInv => ReadsInside
  <2> SUFFICES ASSUME WholeInv, NEW i \in DOMAIN mContentBuffer
               PROVE  strlenMultiByte(mContentBuffer[i]).end <= Len(mContentBuffer[i]) + 1
    BY DEF ReadsInside
  <2>1. i \in 1 .. Len(mContentBuffer)
    BY LenProperties DEF WholeInv
  <2> QED BY <2>1, WholeReadsInside DEF WholeInv
<1> QED BY <1>1, <1>2, <1>3, PTL DEF LayoutSpec
-----------------------------------------------------------------------------
(***************************************************************************)
(* What the terminal shows.                                                *)
(*                                                                         *)
(* The characters that take one column, and the symbols that move the      *)
(* cursor.  A string of bytes is the text of a sequence of characters if   *)
(* it is made of their bytes, one character after the other.               *)
(***************************************************************************)

Bytes    == Int \ {0}
Plain    == (1 .. 127) \ {LF}
Glyphs   == {<<b>> : b \in Plain} \cup {c \in Narrow \ Wide : Len(c) = 3}
Controls == {<<LF>>} \cup {<<256 + n>> : n \in Nat}
Units    == Glyphs \cup Controls

\* In UTF-8 all bytes of a character of more than one byte are below zero, and
\* no character is the beginning of another.
TerminalIsUtf8 ==
  \A c \in Wide \cup Narrow :
    /\ c \in Seq(-128 .. -1) /\ Len(c) > 0
    /\ \A d \in Wide \cup Narrow :
         Len(d) <= Len(c) /\ (\A j \in 1 .. Len(d) : c[j] = d[j]) => d = c

\* The places where the characters begin, less one.
IsAt(bytes, chars, at) ==
  /\ at \in [0 .. Len(chars) -> Nat]
  /\ at[0] = 0 /\ at[Len(chars)] = Len(bytes)
  /\ \A k \in 1 .. Len(chars) :
       /\ at[k] = at[k - 1] + Len(chars[k])
       /\ \A j \in 1 .. Len(chars[k]) : bytes[at[k - 1] + j] = chars[k][j]

Text(bytes, chars) ==
  /\ bytes \in Seq(Bytes) /\ chars \in Seq(Units)
  /\ \E at : IsAt(bytes, chars, at)

\* What a unit is made of.
LEMMA UnitBytes ==
  ASSUME TerminalIsUtf8, NEW c \in Units
  PROVE  /\ c \in Seq(Bytes) /\ Len(c) \in Nat \ {0}
         /\ Len(c) = 1 \/ c \in Narrow \ Wide
         /\ c \in Glyphs => /\ Len(c) = IF c[1] < 0 THEN 3 ELSE 1
                            /\ c[1] # 0 /\ c[1] <= 127 /\ c # <<LF>>
<1>1. ASSUME NEW b \in Bytes
      PROVE  <<b>> \in Seq(Bytes) /\ Len(<<b>>) = 1 /\ <<b>>[1] = b
  OBVIOUS
<1>2. CASE c \in Narrow \ Wide /\ Len(c) = 3
  <2>1. c \in Seq(-128 .. -1) /\ Len(c) = 3
    BY <1>2 DEF TerminalIsUtf8
  <2>2. c[1] \in -128 .. -1
    <3>1. 1 \in 1 .. Len(c)
      BY <2>1
    <3> QED BY <2>1, <3>1, ElementOfSeq
  <2>3. c \in Seq(Bytes)
    <3>1. -128 .. -1 \subseteq Bytes
      BY DEF Bytes
    <3> QED BY <2>1, <3>1, SeqMonotonic
  <2>4. c # <<LF>>
    <3>1. Len(<<LF>>) = 1
      OBVIOUS
    <3> QED BY <2>1, <3>1
  <2>5. c[1] < 0 /\ c[1] # 0 /\ c[1] <= 127
    <3> DEFINE byte == c[1]
    <3>1. byte \in -128 .. -1
      BY <2>2
    <3> HIDE DEF byte
    <3>2. byte < 0 /\ byte # 0 /\ byte <= 127
      BY <3>1
    <3> QED BY <3>2 DEF byte
  <2>6. Len(c) \in Nat \ {0} /\ (c[1] < 0 => Len(c) = 3)
    BY <2>1
  <2> QED BY <1>2, <2>3, <2>4, <2>5, <2>6
<1>3. CASE \E b \in Plain : c = <<b>>
  <2>1. PICK b \in Plain : c = <<b>>
    BY <1>3
  <2>2. b \in Bytes /\ b # LF /\ b > 0 /\ b <= 127
    BY DEF Plain, Bytes
  <2>3. c \in Seq(Bytes) /\ Len(c) = 1 /\ c[1] = b /\ c # <<LF>>
    BY <1>1, <2>1, <2>2
  <2>4. ~(c[1] < 0) /\ c[1] # 0 /\ c[1] <= 127 /\ Len(c) \in Nat \ {0}
    BY <2>2, <2>3 DEF Bytes
  <2> QED BY <2>3, <2>4
<1>4. CASE c \in Controls /\ c \notin Glyphs
  <2>1. PICK b \in Int \ {0} : c = <<b>>
    BY <1>4 DEF Controls, LF
  <2> QED BY <1>1, <1>4, <2>1 DEF Bytes
<1> QED BY <1>2, <1>3, <1>4 DEF Units, Glyphs

LEMMA TextOfNothing == Text(<<>>, <<>>)
<1> DEFINE at == [k \in 0 .. 0 |-> 0]
<1>1. <<>> \in Seq(Bytes) /\ <<>> \in Seq(Units) /\ Len(<<>>) = 0
  OBVIOUS
<1>2. at \in [0 .. Len(<<>>) -> Nat] /\ at[0] = 0
  BY <1>1
<1>3. IsAt(<<>>, <<>>, at)
  BY <1>1, <1>2 DEF IsAt
<1> QED BY <1>1, <1>3 DEF Text

LEMMA TextOfUnit ==
  ASSUME TerminalIsUtf8, NEW c \in Units
  PROVE  Text(c, <<c>>)
<1> DEFINE at == [k \in 0 .. 1 |-> IF k = 0 THEN 0 ELSE Len(c)]
           chars == <<c>>
<1>1. c \in Seq(Bytes) /\ Len(c) \in Nat
  BY UnitBytes
<1>2. chars \in Seq(Units) /\ Len(chars) = 1 /\ chars[1] = c
  OBVIOUS
<1>3. at \in [0 .. 1 -> Nat] /\ at[0] = 0 /\ at[1] = Len(c)
  BY <1>1
<1>4. \A k \in 1 .. 1 : k = 1 /\ k - 1 = 0
  OBVIOUS
<1> HIDE DEF at, chars
<1>5. IsAt(c, chars, at)
  BY <1>1, <1>2, <1>3, <1>4 DEF IsAt
<1>6. Text(c, chars)
  BY <1>1, <1>2, <1>5 DEF Text
<1> QED BY <1>6 DEF chars

\* Every character lies inside the text.
LEMMA TextBounds ==
  ASSUME NEW bytes \in Seq(Bytes), NEW chars, Len(chars) \in Nat, NEW at,
         IsAt(bytes, chars, at), \A k \in 1 .. Len(chars) : Len(chars[k]) \in Nat \ {0}
  PROVE  \A k \in 1 .. Len(chars) : at[k - 1] < at[k] /\ at[k] <= Len(bytes)
<1> DEFINE n == Len(chars)
           T == {k \in 1 .. n : at[k] <= Len(bytes)}
<1>1. ASSUME NEW k \in 1 .. n PROVE at[k] \in Nat /\ at[k - 1] \in Nat /\ at[k - 1] < at[k]
  <2>1. k \in 0 .. n /\ k - 1 \in 0 .. n
    OBVIOUS
  <2>2. at[k] \in Nat /\ at[k - 1] \in Nat
    BY <2>1 DEF IsAt
  <2>3. at[k] = at[k - 1] + Len(chars[k]) /\ Len(chars[k]) \in Nat \ {0}
    BY DEF IsAt
  <2> QED BY <2>2, <2>3
<1>2. ASSUME NEW k \in 1 .. n, \A j \in k + 1 .. n : j \in T PROVE k \in T
  <2>1. CASE k = n
    <3>1. at[k] = Len(bytes) /\ Len(bytes) \in Nat
      BY <2>1, LenProperties DEF IsAt
    <3> QED BY <3>1
  <2>2. CASE k < n
    <3>1. k + 1 \in T /\ k + 1 \in 1 .. n /\ (k + 1) - 1 = k
      BY <1>2, <2>2
    <3>2. at[k] \in Nat /\ at[k + 1] \in Nat /\ at[k] < at[k + 1] /\ at[k + 1] <= Len(bytes)
      BY <1>1, <3>1
    <3>3. Len(bytes) \in Nat
      BY LenProperties
    <3> QED BY <3>2, <3>3
  <2> QED BY <2>1, <2>2
<1>3. \A k \in 1 .. n : k \in T
  <2> HIDE DEF T
  <2> QED BY <1>2, Downward
<1>4. ASSUME NEW k \in 1 .. n PROVE at[k - 1] < at[k] /\ at[k] <= Len(bytes)
  BY <1>1, <1>3
<1> QED BY <1>4

LEMMA PlaceWithin ==
  ASSUME NEW i \in Nat, NEW l \in Nat, NEW j \in 1 .. l, NEW m \in Nat, NEW n \in Nat, i + l <= m
  PROVE  i + j \in 1 .. m + n /\ i + j <= m
OBVIOUS

\* Texts one after the other.
LEMMA TextConcat ==
  ASSUME TerminalIsUtf8, NEW a, NEW as, Text(a, as), NEW b, NEW bs, Text(b, bs)
  PROVE  Text(a \o b, as \o bs)
<1> DEFINE m == Len(as)
           n == Len(bs)
           all == a \o b
           chars == as \o bs
<1>1. /\ a \in Seq(Bytes) /\ b \in Seq(Bytes) /\ as \in Seq(Units) /\ bs \in Seq(Units)
      /\ m \in Nat /\ n \in Nat /\ Len(a) \in Nat /\ Len(b) \in Nat
  BY LenProperties DEF Text
<1>2. /\ all \in Seq(Bytes) /\ Len(all) = Len(a) + Len(b)
      /\ \A i \in 1 .. Len(a) + Len(b) : all[i] = IF i <= Len(a) THEN a[i] ELSE b[i - Len(a)]
  BY <1>1, ConcatProperties
<1>3. /\ chars \in Seq(Units) /\ Len(chars) = m + n
      /\ \A k \in 1 .. m + n : chars[k] = IF k <= m THEN as[k] ELSE bs[k - m]
  BY <1>1, ConcatProperties
<1>4. PICK at1 : IsAt(a, as, at1)
  BY DEF Text
<1>5. PICK at2 : IsAt(b, bs, at2)
  BY DEF Text
<1> DEFINE at == [k \in 0 .. m + n |-> IF k <= m THEN at1[k] ELSE Len(a) + at2[k - m]]
<1>6. \A k \in 1 .. m : Len(as[k]) \in Nat \ {0} /\ at1[k - 1] < at1[k] /\ at1[k] <= Len(a)
  <2>1. \A k \in 1 .. m : Len(as[k]) \in Nat \ {0}
    BY <1>1, ElementOfSeq, UnitBytes
  <2> QED BY <1>1, <1>4, <2>1, TextBounds
<1>7. \A k \in 1 .. n : Len(bs[k]) \in Nat \ {0} /\ at2[k - 1] < at2[k] /\ at2[k] <= Len(b)
  <2>1. \A k \in 1 .. n : Len(bs[k]) \in Nat \ {0}
    BY <1>1, ElementOfSeq, UnitBytes
  <2> QED BY <1>1, <1>5, <2>1, TextBounds
<1>8. /\ at1 \in [0 .. m -> Nat] /\ at1[0] = 0 /\ at1[m] = Len(a)
      /\ at2 \in [0 .. n -> Nat] /\ at2[0] = 0 /\ at2[n] = Len(b)
  BY <1>4, <1>5 DEF IsAt
<1>0. m \in Nat /\ n \in Nat /\ Len(a) \in Nat
  BY <1>1
<1> HIDE DEF m, n
<1>9. at \in [0 .. m + n -> Nat]
  <2> SUFFICES ASSUME NEW k \in 0 .. m + n
               PROVE  (IF k <= m THEN at1[k] ELSE Len(a) + at2[k - m]) \in Nat
    OBVIOUS
  <2>1. CASE k <= m
    <3>1. k \in 0 .. m
      BY <1>0, <2>1
    <3> QED BY <1>8, <2>1, <3>1
  <2>2. CASE ~(k <= m)
    <3>1. k - m \in 0 .. n
      BY <1>0, <2>2
    <3>2. at2[k - m] \in Nat
      BY <1>8, <3>1
    <3> QED BY <1>0, <2>2, <3>2
  <2> QED BY <2>1, <2>2
<1>10. ASSUME NEW k \in m .. m + n PROVE at[k] = Len(a) + at2[k - m]
  <2>1. k \in 0 .. m + n
    BY <1>0
  <2>2. CASE k = m
    <3>1. k - m = 0
      BY <1>0, <2>2
    <3> QED BY <1>0, <1>8, <2>1, <2>2, <3>1
  <2>3. CASE ~(k <= m)
    BY <2>1, <2>3
  <2> QED BY <1>0, <2>2, <2>3
<1>11. ASSUME NEW k \in 0 .. m PROVE at[k] = at1[k]
  <2>1. k \in 0 .. m + n /\ k <= m
    BY <1>0
  <2> QED BY <2>1
<1>12. at[0] = 0 /\ at[m + n] = Len(a) + Len(b)
  <2>1. m + n \in m .. m + n /\ (m + n) - m = n /\ 0 \in 0 .. m
    BY <1>0
  <2> QED BY <1>8, <1>10, <1>11, <2>1
<1> HIDE DEF at, all, chars
<1>13. ASSUME NEW k \in 1 .. m + n
       PROVE  /\ at[k] = at[k - 1] + Len(chars[k])
              /\ \A j \in 1 .. Len(chars[k]) : all[at[k - 1] + j] = chars[k][j]
  <2>1. CASE k <= m
    <3>1. k \in 1 .. m /\ k - 1 \in 0 .. m /\ k \in 0 .. m
      BY <1>0, <2>1
    <3>2. at[k] = at1[k] /\ at[k - 1] = at1[k - 1] /\ chars[k] = as[k]
      BY <1>3, <1>11, <2>1, <3>1
    <3>3. /\ at1[k] = at1[k - 1] + Len(as[k])
          /\ \A j \in 1 .. Len(as[k]) : a[at1[k - 1] + j] = as[k][j]
      BY <1>4, <3>1 DEF IsAt, m
    <3>4. ASSUME NEW j \in 1 .. Len(as[k]) PROVE all[at1[k - 1] + j] = a[at1[k - 1] + j]
      <4> DEFINE at0 == at1[k - 1]
                 x == at0 + j
      <4>1. at0 \in Nat /\ at0 + Len(as[k]) <= Len(a) /\ Len(as[k]) \in Nat
            /\ Len(a) \in Nat /\ Len(b) \in Nat
        BY <1>1, <1>6, <1>8, <3>1, <3>3
      <4> HIDE DEF at0
      <4>2. x \in 1 .. Len(a) + Len(b) /\ x <= Len(a)
        BY <4>1, PlaceWithin
      <4> HIDE DEF x
      <4>3. all[x] = a[x]
        BY <1>2, <4>2
      <4> QED BY <4>3 DEF x, at0
    <3> QED BY <3>2, <3>3, <3>4
  <2>2. CASE k > m
    <3> DEFINE i == k - m
    <3>1. i \in 1 .. n /\ k \in m .. m + n /\ k - 1 \in m .. m + n /\ (k - 1) - m = i - 1
          /\ i - 1 \in 0 .. n
      BY <1>0, <2>2
    <3>2. at[k] = Len(a) + at2[i] /\ at[k - 1] = Len(a) + at2[i - 1] /\ chars[k] = bs[i]
      <4>1. at[k] = Len(a) + at2[k - m] /\ at[k - 1] = Len(a) + at2[(k - 1) - m]
        BY <1>10, <3>1
      <4>2. ~(k <= m)
        BY <1>0, <2>2
      <4> QED BY <1>3, <3>1, <4>1, <4>2
    <3>3. /\ at2[i] = at2[i - 1] + Len(bs[i])
          /\ \A j \in 1 .. Len(bs[i]) : b[at2[i - 1] + j] = bs[i][j]
      BY <1>5, <3>1 DEF IsAt, n
    <3>4. at2[i - 1] \in Nat /\ at2[i - 1] + Len(bs[i]) <= Len(b) /\ Len(bs[i]) \in Nat
      BY <1>7, <1>8, <3>1, <3>3
    <3> HIDE DEF i
    <3>5. ASSUME NEW j \in 1 .. Len(bs[i])
          PROVE  all[(Len(a) + at2[i - 1]) + j] = b[at2[i - 1] + j]
      <4> DEFINE x == (Len(a) + at2[i - 1]) + j
      <4>1. x \in 1 .. Len(a) + Len(b) /\ ~(x <= Len(a)) /\ x - Len(a) = at2[i - 1] + j
        <5> DEFINE la == Len(a)
                   lb == Len(b)
                   lc == Len(bs[i])
                   p  == at2[i - 1]
        <5>1. la \in Nat /\ lb \in Nat /\ lc \in Nat /\ p \in Nat /\ p + lc <= lb /\ j \in 1 .. lc
          BY <1>1, <3>4
        <5> HIDE DEF la, lb, lc, p
        <5>2. (la + p) + j \in 1 .. la + lb /\ ~((la + p) + j <= la) /\ ((la + p) + j) - la = p + j
          BY <5>1
        <5> QED BY <5>2 DEF la, lb, p
      <4> HIDE DEF x
      <4>2. all[x] = b[x - Len(a)]
        BY <1>2, <4>1
      <4> QED BY <4>1, <4>2 DEF x
    <3>6. at[k] = at[k - 1] + Len(chars[k])
      BY <1>1, <3>2, <3>3, <3>4
    <3> QED BY <3>2, <3>3, <3>5, <3>6
  <2>3. k <= m \/ k > m
    BY <1>0
  <2> QED BY <2>1, <2>2, <2>3
<1>14. IsAt(all, chars, at)
  BY <1>2, <1>3, <1>9, <1>12, <1>13 DEF IsAt
<1>15. Text(all, chars)
  BY <1>2, <1>3, <1>14 DEF Text
<1> QED BY <1>15 DEF all, chars

\* A text of ASCII characters, character by character.
Ones(bytes) == [i \in 1 .. Len(bytes) |-> <<bytes[i]>>]

LEMMA TextOfPlain ==
  ASSUME NEW bytes \in Seq(Plain)
  PROVE  /\ Text(bytes, Ones(bytes)) /\ Ones(bytes) \in Seq(Glyphs)
         /\ Len(Ones(bytes)) = Len(bytes)
<1> DEFINE n == Len(bytes)
           chars == Ones(bytes)
           at == [k \in 0 .. n |-> k]
<1>1. n \in Nat /\ \A i \in 1 .. n : bytes[i] \in Plain
  BY LenProperties, ElementOfSeq
<1>2. bytes \in Seq(Bytes)
  <2>1. ASSUME NEW b \in Plain PROVE b \in Bytes
    BY DEF Plain, Bytes
  <2>2. Plain \subseteq Bytes
    BY <2>1
  <2> QED BY <2>2, SeqMonotonic
<1>3. chars \in Seq(Glyphs) /\ Len(chars) = n
  <2>1. \A i \in 1 .. n : <<bytes[i]>> \in Glyphs
    BY <1>1 DEF Glyphs
  <2> QED BY <1>1, <2>1 DEF Ones
<1>4. chars \in Seq(Units)
  BY <1>3, SeqMonotonic DEF Units
<1>5. at \in [0 .. n -> Nat] /\ at[0] = 0 /\ at[n] = n
  BY <1>1
<1>6. ASSUME NEW k \in 1 .. n
      PROVE  /\ at[k] = at[k - 1] + Len(chars[k])
             /\ \A j \in 1 .. Len(chars[k]) : bytes[at[k - 1] + j] = chars[k][j]
  <2>1. chars[k] = <<bytes[k]>> /\ Len(<<bytes[k]>>) = 1 /\ <<bytes[k]>>[1] = bytes[k]
    BY DEF Ones
  <2>2. at[k] = k /\ at[k - 1] = k - 1 /\ (k - 1) + 1 = k
    BY <1>1
  <2>3. \A j \in 1 .. 1 : j = 1
    OBVIOUS
  <2> HIDE DEF at, chars
  <2> QED BY <2>1, <2>2, <2>3
<1> HIDE DEF at, chars
<1>7. IsAt(bytes, chars, at)
  BY <1>3, <1>5, <1>6 DEF IsAt
<1>8. Text(bytes, chars)
  BY <1>2, <1>4, <1>7 DEF Text
<1> QED BY <1>3, <1>8 DEF chars

\* The terminal finds the character that comes first.
LEMMA FirstCharacter ==
  ASSUME TerminalIsUtf8, NEW rest \in Seq(Bytes), NEW c \in Units, Len(c) <= Len(rest),
         \A j \in 1 .. Len(c) : rest[j] = c[j]
  PROVE  CharLength(rest) = Len(c)
<1> DEFINE fits == {d \in Wide \cup Narrow :
                      SubSeq(rest, 1, Fewer(Len(d), Len(rest))) = d}
<1>1. c \in Seq(Bytes) /\ Len(c) \in Nat \ {0} /\ Len(rest) \in Nat
  BY UnitBytes, LenProperties
<1>2. ASSUME NEW d \in Wide \cup Narrow
      PROVE  /\ d \in Seq(Bytes) /\ Len(d) \in Nat \ {0} /\ d[1] < 0
             /\ d \in fits <=> Len(d) <= Len(rest) /\ \A j \in 1 .. Len(d) : rest[j] = d[j]
  <2>1. d \in Seq(-128 .. -1) /\ Len(d) \in Nat \ {0} /\ -128 .. -1 \subseteq Bytes
    BY LenProperties DEF TerminalIsUtf8, Bytes
  <2>2. d \in Seq(Bytes)
    BY <2>1, SeqMonotonic
  <2>3. d[1] < 0
    <3> DEFINE byte == d[1]
    <3>1. byte \in -128 .. -1
      <4>1. 1 \in 1 .. Len(d)
        BY <2>1
      <4> QED BY <2>1, <4>1, ElementOfSeq
    <3> HIDE DEF byte
    <3>2. byte < 0
      BY <3>1
    <3> QED BY <3>2 DEF byte
  <2> DEFINE n == Fewer(Len(d), Len(rest))
             head == SubSeq(rest, 1, n)
  <2>5. n \in Nat /\ n <= Len(rest) /\ (n = Len(d) <=> Len(d) <= Len(rest))
    BY <1>1, <2>1 DEF Fewer
  <2>6. head \in Seq(Bytes) /\ Len(head) = n /\ \A j \in 1 .. n : head[j] = rest[j]
    <3>1. \A j \in 1 .. n : rest[j] \in Bytes
      <4>1. \A j \in 1 .. n : j \in 1 .. Len(rest)
        BY <1>1, <2>5
      <4> QED BY <4>1, ElementOfSeq
    <3>2. /\ head \in Seq(Bytes) /\ Len(head) = IF 1 <= n THEN n - 1 + 1 ELSE 0
          /\ \A j \in 1 .. n - 1 + 1 : head[j] = rest[1 + j - 1]
      BY <2>5, <3>1, SubSeqProperties
    <3>3. (IF 1 <= n THEN n - 1 + 1 ELSE 0) = n /\ n - 1 + 1 = n
          /\ \A j \in 1 .. n : 1 + j - 1 = j
      BY <2>5
    <3> QED BY <3>2, <3>3
  <2>7. d \in fits <=> head = d
    OBVIOUS
  <2> HIDE DEF head, n, fits
  <2>8. head = d => Len(d) <= Len(rest) /\ \A j \in 1 .. Len(d) : rest[j] = d[j]
    BY <2>5, <2>6
  <2>9. Len(d) <= Len(rest) /\ (\A j \in 1 .. Len(d) : rest[j] = d[j]) => head = d
    BY <2>2, <2>5, <2>6, SeqEqual
  <2> QED BY <2>1, <2>2, <2>3, <2>7, <2>8, <2>9
<1>3. CharLength(rest) = IF fits = {} THEN 1 ELSE Len(CHOOSE d \in fits : TRUE)
  BY DEF CharLength
<1>4. fits \subseteq Wide \cup Narrow
  OBVIOUS
<1> HIDE DEF fits
<1>5. rest[1] = c[1]
  BY <1>1
<1>6. CASE c \in Narrow \ Wide
  <2>1. c \in fits
    BY <1>2, <1>6
  <2>2. ASSUME NEW d \in fits PROVE d = c
    <3>1. d \in Wide \cup Narrow /\ Len(d) <= Len(rest) /\ \A j \in 1 .. Len(d) : rest[j] = d[j]
      BY <1>2, <1>4
    <3>2. Len(d) \in Nat /\ Len(c) \in Nat
      BY <1>1, <1>2, <3>1
    <3>3. CASE Len(d) <= Len(c)
      <4>1. \A j \in 1 .. Len(d) : c[j] = d[j]
        BY <3>1, <3>2, <3>3
      <4> QED BY <1>6, <3>1, <3>3, <4>1 DEF TerminalIsUtf8
    <3>4. CASE Len(c) <= Len(d)
      <4>1. \A j \in 1 .. Len(c) : d[j] = c[j]
        BY <3>1, <3>2, <3>4
      <4> QED BY <1>6, <3>1, <3>4, <4>1 DEF TerminalIsUtf8
    <3> QED BY <3>2, <3>3, <3>4
  <2>3. (CHOOSE d \in fits : TRUE) = c /\ fits # {}
    BY <2>1, <2>2
  <2> QED BY <1>3, <2>3
<1>7. CASE c \notin Narrow \ Wide
  <2>1. Len(c) = 1
    BY <1>7, UnitBytes
  <2>2. ~(c[1] < 0)
    <3>1. CASE c \in Glyphs
      <4>1. Len(c) = IF c[1] < 0 THEN 3 ELSE 1
        BY <3>1, UnitBytes
      <4>2. 1 # 3
        OBVIOUS
      <4> QED BY <2>1, <4>1, <4>2
    <3>2. CASE c \in Controls
      <4>1. PICK b \in Nat : c = <<b>>
        BY <3>2 DEF Controls, LF
      <4> QED BY <4>1
    <3> QED BY <3>1, <3>2 DEF Units
  <2>3. fits = {}
    <3> SUFFICES ASSUME NEW d \in fits PROVE FALSE
      OBVIOUS
    <3>1. d \in Wide \cup Narrow /\ d[1] < 0 /\ Len(d) \in Nat \ {0}
          /\ \A j \in 1 .. Len(d) : rest[j] = d[j]
      BY <1>2, <1>4
    <3>2. rest[1] = d[1]
      BY <3>1
    <3> QED BY <1>5, <2>2, <3>1, <3>2
  <2> QED BY <1>3, <2>1, <2>3
<1> QED BY <1>6, <1>7

\* The end of a sequence, and its part from one place on.
LEMMA EndOf ==
  ASSUME NEW T, NEW s \in Seq(T), NEW i \in 1 .. Len(s)
  PROVE  /\ SubSeq(s, i, Len(s)) \in Seq(T) /\ Len(SubSeq(s, i, Len(s))) = Len(s) - i + 1
         /\ \A j \in 1 .. Len(s) - i + 1 : SubSeq(s, i, Len(s))[j] = s[i + j - 1]
<1>1. Len(s) \in Nat
  BY LenProperties
<1>2. \A j \in i .. Len(s) : s[j] \in T
  BY <1>1, ElementOfSeq
<1>3. /\ SubSeq(s, i, Len(s)) \in Seq(T)
      /\ Len(SubSeq(s, i, Len(s))) = IF i <= Len(s) THEN Len(s) - i + 1 ELSE 0
      /\ \A j \in 1 .. Len(s) - i + 1 : SubSeq(s, i, Len(s))[j] = s[i + j - 1]
  BY <1>1, <1>2, SubSeqProperties
<1> QED BY <1>1, <1>3

LEMMA CharLengthInside ==
  ASSUME TerminalIsUtf8, NEW rest \in Seq(Bytes), rest # <<>>
  PROVE  CharLength(rest) \in 1 .. Len(rest)
<1> DEFINE fits == {d \in Wide \cup Narrow :
                      SubSeq(rest, 1, Fewer(Len(d), Len(rest))) = d}
<1>1. Len(rest) \in Nat \ {0}
  BY EmptySeq
<1>2. ASSUME NEW d \in fits PROVE Len(d) \in 1 .. Len(rest)
  <2>1. Len(d) \in Nat \ {0}
    BY LenProperties DEF TerminalIsUtf8
  <2> DEFINE n == Fewer(Len(d), Len(rest))
  <2>2. n \in Nat /\ n <= Len(rest) /\ n <= Len(d)
    BY <1>1, <2>1 DEF Fewer
  <2>3. SubSeq(rest, 1, n) = d
    OBVIOUS
  <2> HIDE DEF n
  <2>4. \A j \in 1 .. n : rest[j] \in Bytes
    <3>1. \A j \in 1 .. n : j \in 1 .. Len(rest)
      BY <1>1, <2>2
    <3> QED BY <3>1, ElementOfSeq
  <2>5. Len(SubSeq(rest, 1, n)) = IF 1 <= n THEN n - 1 + 1 ELSE 0
    BY <2>2, <2>4, SubSeqProperties
  <2>6. Len(d) = n
    BY <2>2, <2>3, <2>5
  <2> QED BY <2>1, <2>2, <2>6
<1>3. CharLength(rest) = IF fits = {} THEN 1 ELSE Len(CHOOSE d \in fits : TRUE)
  BY DEF CharLength
<1> HIDE DEF fits
<1>4. fits # {} => (CHOOSE d \in fits : TRUE) \in fits
  OBVIOUS
<1> QED BY <1>1, <1>2, <1>3, <1>4

\* The terminal finds the characters of a text.
LEMMA TextCharacters ==
  ASSUME TerminalIsUtf8, NEW bytes, NEW chars, Text(bytes, chars)
  PROVE  Characters(bytes) = chars
<1> DEFINE n == Len(bytes)
           m == Len(chars)
           len(i) == CharLength(SubSeq(bytes, i, Len(bytes)))
           body(f) == [i \in 1 .. Len(bytes) + 1 |->
                        IF i > Len(bytes) THEN <<>>
                        ELSE <<SubSeq(bytes, i, i + len(i) - 1)>> \o f[i + len(i)]]
           from == CHOOSE f : f = body(f)
<1>1. Characters(bytes) = from[1]
  BY DEF Characters
<1>2. bytes \in Seq(Bytes) /\ chars \in Seq(Units) /\ n \in Nat /\ m \in Nat
  BY LenProperties DEF Text
<1>3. ASSUME NEW i \in 1 .. n PROVE len(i) \in 1 .. n - i + 1
  <2> DEFINE rest == SubSeq(bytes, i, n)
  <2>1. rest \in Seq(Bytes) /\ Len(rest) = n - i + 1
    BY <1>2, EndOf
  <2> HIDE DEF rest
  <2>2. rest # <<>>
    BY <1>2, <2>1
  <2>3. CharLength(rest) \in 1 .. Len(rest)
    BY <2>1, <2>2, CharLengthInside
  <2> QED BY <2>1, <2>3 DEF rest
<1> HIDE DEF len
<1>4. \E f : f = body(f)
  <2> DEFINE R == Seq(Seq(Bytes))
             Stop == {n + 1}
             b == [i \in 1 .. n + 1 |-> <<>>]
             char(i) == SubSeq(bytes, i, i + len(i) - 1)
             h == [i \in 1 .. n + 1 |-> [r \in R |-> IF i \in Stop THEN <<>> ELSE <<char(i)>> \o r]]
             next == [i \in 1 .. n + 1 |-> IF i \in Stop THEN i ELSE i + len(i)]
  <2>1. b \in [1 .. n + 1 -> R] /\ <<>> \in R
    OBVIOUS
  <2>2. ASSUME NEW i \in 1 .. n, NEW r \in R PROVE <<char(i)>> \o r \in R
    <3>1. i \in Int /\ i + len(i) - 1 \in Int /\ i + len(i) - 1 <= n
      BY <1>2, <1>3
    <3>2. ASSUME NEW j \in i .. i + len(i) - 1 PROVE bytes[j] \in Bytes
      <4>1. j \in 1 .. n
        BY <1>2, <3>1
      <4> QED BY <1>2, <4>1, ElementOfSeq
    <3>3. char(i) \in Seq(Bytes)
      BY <3>1, <3>2, SubSeqProperties
    <3> HIDE DEF char
    <3>4. <<char(i)>> \in Seq(Seq(Bytes))
      BY <3>3
    <3> QED BY <3>4, ConcatProperties
  <2>3. h \in [1 .. n + 1 -> [R -> R]]
    <3> HIDE DEF char, R
    <3>1. \A i \in 1 .. n + 1, r \in R : (IF i \in Stop THEN <<>> ELSE <<char(i)>> \o r) \in R
      <4>1. \A i \in 1 .. n + 1 : i \notin Stop => i \in 1 .. n
        BY <1>2
      <4> QED BY <2>1, <2>2, <4>1
    <3> QED BY <3>1
  <2>4. /\ next \in [1 .. n + 1 -> Int]
        /\ \A i \in 1 .. n + 1 : i \notin Stop => next[i] \in i + 1 .. n + 1
    <3>1. ASSUME NEW i \in 1 .. n + 1
          PROVE  next[i] \in Int /\ (i \notin Stop => next[i] \in i + 1 .. n + 1)
      <4>1. CASE i \in Stop
        BY <4>1
      <4>2. CASE i \notin Stop
        <5>1. i \in 1 .. n
          BY <1>2, <4>2
        <5>2. len(i) \in 1 .. n - i + 1
          BY <1>3, <5>1
        <5>3. next[i] = i + len(i)
          BY <4>2
        <5> QED BY <1>2, <5>1, <5>2, <5>3
      <4> QED BY <4>1, <4>2
    <3> QED BY <3>1
  <2>5. n + 1 \in Nat
    BY <1>2
  <2> HIDE DEF b, h, next, R, Stop, char
  <2>6. IsRecursion(n + 1, R, Stop, b, h, next)
    BY <2>1, <2>3, <2>4, <2>5 DEF IsRecursion
  <2>7. PICK f \in [1 .. n + 1 -> R] :
          \A i \in 1 .. n + 1 : f[i] = IF i \in Stop THEN b[i] ELSE h[i][f[next[i]]]
    BY <2>6, RecursionDownward
  <2>8. ASSUME NEW i \in 1 .. n + 1
        PROVE  f[i] = IF i > n THEN <<>> ELSE <<SubSeq(bytes, i, i + len(i) - 1)>> \o f[i + len(i)]
    <3>1. CASE i \in Stop
      <4>1. i > n
        BY <1>2, <3>1 DEF Stop
      <4> QED BY <2>7, <3>1, <4>1 DEF b
    <3>2. CASE i \notin Stop
      <4>1. ~(i > n) /\ next[i] = i + len(i) /\ next[i] \in 1 .. n + 1
        <5>1. next[i] \in i + 1 .. n + 1
          BY <2>4, <3>2
        <5> QED BY <1>2, <3>2, <5>1 DEF next, Stop
      <4>2. f[next[i]] \in R
        BY <4>1
      <4>3. h[i][f[next[i]]] = <<char(i)>> \o f[next[i]]
        BY <3>2, <4>2 DEF h
      <4> QED BY <2>7, <3>2, <4>1, <4>3 DEF char
    <3> QED BY <3>1, <3>2
  <2>9. f = body(f)
    BY <2>8
  <2> QED BY <2>9
<1>5. from = body(from)
  BY <1>4
<1> HIDE DEF from
<1>6. PICK at : IsAt(bytes, chars, at)
  BY DEF Text
<1>7. \A k \in 1 .. m : Len(chars[k]) \in Nat \ {0} /\ chars[k] \in Seq(Bytes) /\ chars[k] \in Units
  BY <1>2, ElementOfSeq, UnitBytes
<1>8. \A k \in 1 .. m : at[k - 1] < at[k] /\ at[k] <= n
  BY <1>2, <1>6, <1>7, TextBounds
<1> DEFINE Found == {x \in 1 .. m + 1 : from[at[x - 1] + 1] = SubSeq(chars, x, m)}
<1>9. ASSUME NEW x \in 1 .. m + 1, \A y \in x + 1 .. m + 1 : y \in Found
      PROVE  from[at[x - 1] + 1] = SubSeq(chars, x, m)
  <2>1. CASE x = m + 1
    <3>1. at[x - 1] = n
      BY <1>2, <1>6, <2>1 DEF IsAt
    <3>2. n + 1 \in 1 .. Len(bytes) + 1 /\ n + 1 > Len(bytes)
      BY <1>2
    <3>3. from[n + 1] = <<>>
      BY <1>5, <3>2
    <3>4. SubSeq(chars, x, m) = <<>>
      BY <1>2, <2>1, SubSeqEmpty
    <3> QED BY <3>1, <3>3, <3>4
  <2>2. CASE x \in 1 .. m
    <3> DEFINE c == chars[x]
               i == at[x - 1] + 1
               rest == SubSeq(bytes, i, n)
    <3>1. /\ c \in Units /\ c \in Seq(Bytes) /\ Len(c) \in Nat \ {0}
          /\ at[x - 1] \in Nat /\ at[x] \in Nat /\ at[x] = at[x - 1] + Len(c) /\ at[x] <= n
          /\ \A j \in 1 .. Len(c) : bytes[at[x - 1] + j] = c[j]
      <4>1. x - 1 \in 0 .. m /\ x \in 0 .. m
        BY <1>2, <2>2
      <4> QED BY <1>6, <1>7, <1>8, <2>2, <4>1 DEF IsAt
    <3> HIDE DEF c
    <3>2. i \in 1 .. n /\ i + Len(c) = at[x] + 1 /\ i + Len(c) - 1 <= n /\ n - i + 1 >= Len(c)
      <4> DEFINE a == at[x - 1]
                 b == at[x]
                 l == Len(c)
      <4>1. a \in Nat /\ b \in Nat /\ l \in Nat /\ l > 0 /\ b = a + l /\ b <= n /\ n \in Nat /\ i = a + 1
        BY <1>2, <3>1
      <4> HIDE DEF a, b, l, n, i
      <4>2. i \in 1 .. n /\ i + l = b + 1 /\ i + l - 1 <= n /\ n - i + 1 >= l
        BY <4>1
      <4> QED BY <4>2 DEF a, b, l
    <3>3. \A j \in 1 .. Len(c) : bytes[i + j - 1] = c[j]
      <4>1. \A j \in 1 .. Len(c) : i + j - 1 = at[x - 1] + j
        BY <3>1
      <4> QED BY <3>1, <4>1
    <3> HIDE DEF i
    <3>4. /\ rest \in Seq(Bytes) /\ Len(rest) = n - i + 1
          /\ \A j \in 1 .. n - i + 1 : rest[j] = bytes[i + j - 1]
      BY <1>2, <3>2, EndOf
    <3> HIDE DEF rest
    <3>5. \A j \in 1 .. Len(c) : j \in 1 .. n - i + 1
      BY <1>2, <3>1, <3>2
    <3>6. \A j \in 1 .. Len(c) : rest[j] = c[j]
      BY <3>3, <3>4, <3>5
    <3>7. CharLength(rest) = Len(c)
      BY <3>1, <3>2, <3>4, <3>6, FirstCharacter
    <3>8. len(i) = Len(c)
      BY <3>7 DEF len, rest
    <3>9. SubSeq(bytes, i, i + Len(c) - 1) = c
      <4> DEFINE s == SubSeq(bytes, i, i + Len(c) - 1)
      <4>1. i \in Int /\ i + Len(c) - 1 \in Int
        BY <1>2, <3>1, <3>2
      <4>2. ASSUME NEW j \in i .. i + Len(c) - 1 PROVE bytes[j] \in Bytes
        <5>1. j \in 1 .. n
          BY <1>2, <3>1, <3>2
        <5> QED BY <1>2, <5>1, ElementOfSeq
      <4>3. /\ s \in Seq(Bytes)
            /\ Len(s) = IF i <= i + Len(c) - 1 THEN i + Len(c) - 1 - i + 1 ELSE 0
            /\ \A j \in 1 .. i + Len(c) - 1 - i + 1 : s[j] = bytes[i + j - 1]
        BY <4>1, <4>2, SubSeqProperties
      <4>4. i + Len(c) - 1 - i + 1 = Len(c) /\ i <= i + Len(c) - 1
        BY <1>2, <3>1, <3>2
      <4> HIDE DEF s
      <4>5. Len(s) = Len(c) /\ \A j \in 1 .. Len(s) : s[j] = c[j]
        BY <3>3, <4>3, <4>4
      <4>6. s = c
        BY <3>1, <4>3, <4>5, SeqEqual
      <4> QED BY <4>6 DEF s
    <3>10. from[i] = <<SubSeq(bytes, i, i + len(i) - 1)>> \o from[i + len(i)]
      <4>1. i \in 1 .. Len(bytes) + 1 /\ ~(i > Len(bytes))
        BY <1>2, <3>2
      <4> QED BY <1>5, <4>1
    <3>11. from[i] = <<c>> \o from[at[x] + 1]
      BY <3>2, <3>8, <3>9, <3>10
    <3>12. x + 1 \in x + 1 .. m + 1 /\ (x + 1) - 1 = x
      BY <1>2, <2>2
    <3>13. from[at[x] + 1] = SubSeq(chars, x + 1, m)
      BY <1>9, <3>12
    <3>14. SubSeq(chars, x, m) = <<c>> \o SubSeq(chars, x + 1, m)
      <4>1. m \in x .. Len(chars)
        BY <1>2, <2>2
      <4> QED BY <1>2, <2>2, <4>1, SubSeqRecursiveFirst DEF c
    <3> QED BY <3>11, <3>13, <3>14 DEF i
  <2> QED BY <1>2, <2>1, <2>2
<1>10. \A x \in 1 .. m + 1 : x \in Found
  <2>1. m + 1 \in Nat
    BY <1>2
  <2>2. \A x \in 1 .. m + 1 : (\A y \in x + 1 .. m + 1 : y \in Found) => x \in Found
    BY <1>9
  <2> HIDE DEF Found
  <2> QED BY <2>1, <2>2, Downward
<1>11. from[at[0] + 1] = SubSeq(chars, 1, m)
  <2>1. 1 \in 1 .. m + 1 /\ 1 - 1 = 0
    BY <1>2
  <2> QED BY <1>10, <2>1
<1>12. at[0] = 0 /\ SubSeq(chars, 1, m) = chars
  BY <1>2, <1>6, SubSeqFull DEF IsAt
<1> QED BY <1>1, <1>11, <1>12

\* The strings of a sequence, joined one by one.
LEMMA Flattening ==
  ASSUME NEW T, NEW seqs \in Seq(Seq(T))
  PROVE  \E f \in [0 .. Len(seqs) -> Seq(T)] :
           /\ f[0] = <<>> /\ S!FlattenSeq(seqs) = f[Len(seqs)]
           /\ \A k \in 1 .. Len(seqs) : f[k] = f[k - 1] \o seqs[k]
<1> DEFINE n == Len(seqs)
           R == Seq(T)
           h == [k \in 1 .. n |-> [r \in R |-> r \o seqs[k]]]
           body(f) == [i \in 1 .. Len(seqs) |-> IF i = 1 THEN seqs[i] ELSE f[i - 1] \o seqs[i]]
           flatten == CHOOSE f : f = body(f)
<1>1. n \in Nat /\ \A k \in 1 .. n : seqs[k] \in R
  BY LenProperties, ElementOfSeq
<1>2. \A k \in 1 .. n, r \in R : r \o seqs[k] \in R
  BY <1>1, ConcatProperties
<1>3. h \in [1 .. n -> [R -> R]] /\ <<>> \in R
  BY <1>2
<1>4. PICK f \in [0 .. n -> R] : f[0] = <<>> /\ \A k \in 1 .. n : f[k] = h[k][f[k - 1]]
  <2> HIDE DEF h, R, n
  <2>1. IsFold(n, R, <<>>, h)
    BY <1>1, <1>3 DEF IsFold
  <2> QED BY <2>1, RecursionUpward
<1>5. ASSUME NEW k \in 1 .. n PROVE f[k] = f[k - 1] \o seqs[k]
  <2>1. f[k - 1] \in R
    <3>1. k - 1 \in 0 .. n
      BY <1>1
    <3> QED BY <3>1
  <2> QED BY <1>4, <2>1
<1> HIDE DEF h
<1>6. ASSUME NEW k \in 1 .. n, k = 1 PROVE f[k] = seqs[k]
  <2>1. f[k] = f[k - 1] \o seqs[k]
    BY <1>5
  <2>2. k - 1 = 0 /\ f[0] = <<>>
    BY <1>4, <1>6
  <2>3. <<>> \o seqs[k] = seqs[k]
    BY <1>1, ConcatEmptySeq
  <2> QED BY <2>1, <2>2, <2>3
<1>7. flatten = body(flatten)
  <2> DEFINE g == [i \in 1 .. n |-> f[i]]
  <2>1. ASSUME NEW i \in 1 .. n PROVE g[i] = IF i = 1 THEN seqs[i] ELSE g[i - 1] \o seqs[i]
    <3>1. CASE i = 1
      BY <1>6, <3>1
    <3>2. CASE i # 1
      <4>1. i - 1 \in 1 .. n
        BY <1>1, <3>2
      <4> QED BY <1>5, <3>2, <4>1
    <3> QED BY <3>1, <3>2
  <2>2. g = body(g)
    BY <2>1
  <2> QED BY <2>2
<1> HIDE DEF flatten
<1> DEFINE Agree == {k \in 0 .. n : k = 0 \/ flatten[k] = f[k]}
<1>8. ASSUME NEW k \in 1 .. n, k - 1 \in Agree PROVE k \in Agree
  <2>1. CASE k = 1
    BY <1>6, <1>7, <2>1
  <2>2. CASE k # 1
    <3>1. flatten[k - 1] = f[k - 1]
      BY <1>8, <2>2
    <3>2. flatten[k] = flatten[k - 1] \o seqs[k]
      BY <1>7, <2>2
    <3>3. flatten[k] = f[k] /\ k \in 0 .. n
      <4>1. f[k] = f[k - 1] \o seqs[k]
        BY <1>5
      <4> QED BY <1>1, <3>1, <3>2, <4>1
    <3> QED BY <3>3
  <2> QED BY <2>1, <2>2
<1>9. \A k \in 0 .. n : k \in Agree
  <2>1. 0 \in Agree
    BY <1>1
  <2> HIDE DEF Agree
  <2> QED BY <1>1, <1>8, <2>1, Upward
<1>10. S!FlattenSeq(seqs) = IF n = 0 THEN seqs ELSE flatten[n]
  BY DEF S!FlattenSeq, flatten
<1>11. S!FlattenSeq(seqs) = f[n]
  <2>1. CASE n = 0
    <3>1. seqs = <<>>
      BY <2>1
    <3> QED BY <1>4, <1>10, <2>1, <3>1
  <2>2. CASE n # 0
    <3>1. flatten[n] = f[n]
      BY <1>1, <1>9, <2>2
    <3> QED BY <1>10, <2>2, <3>1
  <2> QED BY <2>1, <2>2
<1> QED BY <1>4, <1>5, <1>11

\* A glyph fills one column, so a text of glyphs is its cells.
LEMMA GlyphCells ==
  ASSUME TerminalIsUtf8, NEW c \in Glyphs
  PROVE  Cells(c) = <<c>>
<1>1. CASE c \in Narrow \ Wide
  BY <1>1 DEF Cells
<1>2. CASE \E b \in Plain : c = <<b>>
  <2>1. PICK b \in Plain : c = <<b>>
    BY <1>2
  <2>2. b > 0 /\ c[1] = b /\ Len(c) = 1
    BY <2>1 DEF Plain
  <2>3. ASSUME c \in Wide PROVE FALSE
    <3>1. c \in Seq(-128 .. -1) /\ 1 \in 1 .. Len(c)
      BY <2>2, <2>3 DEF TerminalIsUtf8
    <3>2. b \in -128 .. -1
      BY <2>2, <3>1, ElementOfSeq
    <3> QED BY <2>2, <3>2
  <2> QED BY <2>3 DEF Cells
<1> QED BY <1>1, <1>2 DEF Glyphs

LEMMA TextCells ==
  ASSUME TerminalIsUtf8, NEW bytes, NEW chars \in Seq(Glyphs), Text(bytes, chars)
  PROVE  CellsOf(bytes) = chars
<1> DEFINE n == Len(chars)
           seqs == [k \in DOMAIN chars |-> Cells(chars[k])]
<1>1. n \in Nat /\ DOMAIN chars = 1 .. n /\ \A k \in 1 .. n : chars[k] \in Glyphs
  BY LenProperties, ElementOfSeq
<1>2. \A k \in 1 .. n : Cells(chars[k]) = <<chars[k]>> /\ <<chars[k]>> \in Seq(Glyphs)
  BY <1>1, GlyphCells
<1>3. seqs \in Seq(Seq(Glyphs)) /\ Len(seqs) = n /\ \A k \in 1 .. n : seqs[k] = <<chars[k]>>
  <2>1. seqs = [k \in 1 .. n |-> <<chars[k]>>]
    BY <1>1, <1>2
  <2> HIDE DEF seqs
  <2> QED BY <1>1, <1>2, <2>1
<1>4. CellsOf(bytes) = S!FlattenSeq(seqs)
  BY TextCharacters DEF CellsOf
<1> HIDE DEF seqs
<1>5. PICK f \in [0 .. n -> Seq(Glyphs)] :
        /\ f[0] = <<>> /\ S!FlattenSeq(seqs) = f[n]
        /\ \A k \in 1 .. n : f[k] = f[k - 1] \o seqs[k]
  <2>1. \E f \in [0 .. Len(seqs) -> Seq(Glyphs)] :
          /\ f[0] = <<>> /\ S!FlattenSeq(seqs) = f[Len(seqs)]
          /\ \A k \in 1 .. Len(seqs) : f[k] = f[k - 1] \o seqs[k]
    BY <1>3, Flattening
  <2> QED BY <1>3, <2>1
<1> DEFINE Same == {k \in 0 .. n : f[k] = SubSeq(chars, 1, k)}
<1>6. 0 \in Same
  <2>1. SubSeq(chars, 1, 0) = <<>>
    BY SubSeqEmpty
  <2> QED BY <1>1, <1>5, <2>1
<1>7. ASSUME NEW k \in 1 .. n, k - 1 \in Same PROVE k \in Same
  <2>1. f[k] = SubSeq(chars, 1, k - 1) \o <<chars[k]>>
    BY <1>3, <1>5, <1>7
  <2>2. SubSeq(chars, 1, k) = SubSeq(chars, 1, k - 1) \o <<chars[k]>>
    <3>1. 1 \in 1 .. Len(chars) /\ k \in 1 .. Len(chars)
      BY <1>1
    <3> QED BY <3>1, SubSeqRecursiveSecond
  <2> QED BY <1>1, <2>1, <2>2
<1>8. f[n] = SubSeq(chars, 1, n)
  <2>1. \A k \in 0 .. n : k \in Same
    <3> HIDE DEF Same
    <3> QED BY <1>1, <1>6, <1>7, Upward
  <2>2. n \in 0 .. n
    BY <1>1
  <2> QED BY <2>1, <2>2
<1>9. SubSeq(chars, 1, n) = chars
  BY SubSeqFull
<1> QED BY <1>4, <1>5, <1>8, <1>9

\* Where a glyph stands in its text, and that strlenMultiByte and the copying
\* step over it whole.
LEMMA GlyphAt ==
  ASSUME TerminalIsUtf8, NEW bytes, NEW chars \in Seq(Glyphs), Text(bytes, chars),
         NEW at, IsAt(bytes, chars, at), NEW k \in 1 .. Len(chars)
  PROVE  /\ at[k - 1] \in Nat /\ at[k] \in Nat /\ at[k - 1] < at[k] /\ at[k] <= Len(bytes)
         /\ bytes[at[k - 1] + 1] # 0
         /\ at[k - 1] + Step(bytes[at[k - 1] + 1]) = at[k]
<1>1. Len(chars) \in Nat /\ bytes \in Seq(Bytes) /\ Len(bytes) \in Nat
  BY LenProperties DEF Text
<1>2. \A i \in 1 .. Len(chars) : chars[i] \in Glyphs /\ Len(chars[i]) \in Nat \ {0}
  BY ElementOfSeq, UnitBytes DEF Units
<1>3. at[k - 1] < at[k] /\ at[k] <= Len(bytes)
  BY <1>1, <1>2, TextBounds
<1>4. at[k - 1] \in Nat /\ at[k] \in Nat
  <2>1. k - 1 \in 0 .. Len(chars) /\ k \in 0 .. Len(chars)
    BY <1>1
  <2> QED BY <2>1 DEF IsAt
<1> DEFINE c == chars[k]
<1>5. /\ at[k] = at[k - 1] + Len(c) /\ 1 \in 1 .. Len(c)
      /\ bytes[at[k - 1] + 1] = c[1]
  <2>1. 1 \in 1 .. Len(c)
    BY <1>2
  <2> QED BY <2>1 DEF IsAt
<1>6. Len(c) = (IF c[1] < 0 THEN 3 ELSE 1) /\ c[1] # 0
  BY <1>2, UnitBytes DEF Units
<1> HIDE DEF c
<1>7. Step(c[1]) = Len(c)
  BY <1>6 DEF Step
<1> QED BY <1>3, <1>4, <1>5, <1>6, <1>7

\* strlenMultiByte counts the characters.
LEMMA TextWidth ==
  ASSUME TerminalIsUtf8, NEW bytes, NEW chars \in Seq(Glyphs), Text(bytes, chars)
  PROVE  strlenMultiByte(bytes).width = Len(chars)
<1> DEFINE n == Len(bytes)
           m == Len(chars)
<1>1. bytes \in Seq(Bytes) /\ n \in Nat /\ m \in Nat
  BY LenProperties DEF Text
<1>2. PICK from \in [1 .. n + 4 -> Counts] :
        IsCount(bytes, from) /\ strlenMultiByte(bytes) = from[1]
  BY <1>1, StrlenCounts
<1>3. PICK at : IsAt(bytes, chars, at)
  BY DEF Text
<1> DEFINE Counted_ == {x \in 1 .. m + 1 : from[at[x - 1] + 1].width = m + 1 - x}
<1>4. ASSUME NEW x \in 1 .. m + 1, \A y \in x + 1 .. m + 1 : y \in Counted_
      PROVE  from[at[x - 1] + 1].width = m + 1 - x
  <2>1. CASE x = m + 1
    <3>1. at[x - 1] = n /\ n + 1 \in 1 .. n + 4 /\ n + 1 > n
      BY <1>1, <1>3, <2>1 DEF IsAt
    <3>2. from[n + 1] = [width |-> 0, end |-> n + 1]
      BY <1>2, <3>1 DEF IsCount
    <3> QED BY <1>1, <2>1, <3>1, <3>2
  <2>2. CASE x \in 1 .. m
    <3> DEFINE i == at[x - 1] + 1
    <3>1. /\ at[x - 1] \in Nat /\ at[x] \in Nat /\ at[x - 1] < at[x] /\ at[x] <= n
          /\ bytes[i] # 0 /\ at[x - 1] + Step(bytes[i]) = at[x]
      BY <1>3, <2>2, GlyphAt
    <3>2. i \in 1 .. n + 4 /\ ~(i > n)
      BY <1>1, <3>1
    <3>3. i + Step(bytes[i]) = at[x] + 1 /\ at[x] + 1 \in 1 .. n + 4
      <4>1. Step(bytes[i]) \in Nat
        BY DEF Step
      <4> DEFINE a == at[x - 1]
                 l == Step(bytes[i])
                 e == at[x]
      <4>2. a \in Nat /\ l \in Nat /\ e \in Nat /\ a + l = e /\ e <= n
        BY <3>1, <4>1
      <4> HIDE DEF a, l, e
      <4>3. (a + 1) + l = e + 1 /\ e + 1 \in 1 .. n + 4
        BY <1>1, <4>2
      <4> QED BY <4>3 DEF a, l, e
    <3> HIDE DEF i
    <3>4. from[i] = [width |-> from[i + Step(bytes[i])].width + 1,
                     end   |-> from[i + Step(bytes[i])].end]
      BY <1>2, <3>1, <3>2 DEF IsCount
    <3>5. x + 1 \in Counted_ /\ (x + 1) - 1 = x
      BY <1>1, <1>4, <2>2
    <3>6. from[at[x] + 1].width = m + 1 - (x + 1)
      BY <3>5
    <3>7. from[i].width = (m + 1 - (x + 1)) + 1
      BY <3>3, <3>4, <3>6
    <3> QED BY <1>1, <3>7 DEF i
  <2> QED BY <1>1, <2>1, <2>2
<1>5. \A x \in 1 .. m + 1 : x \in Counted_
  <2>1. m + 1 \in Nat
    BY <1>1
  <2>2. \A x \in 1 .. m + 1 : (\A y \in x + 1 .. m + 1 : y \in Counted_) => x \in Counted_
    BY <1>4
  <2> HIDE DEF Counted_
  <2> QED BY <2>1, <2>2, Downward
<1>6. from[at[0] + 1].width = m
  <2>1. 1 \in 1 .. m + 1 /\ 1 - 1 = 0 /\ m + 1 - 1 = m
    BY <1>1
  <2> QED BY <1>5, <2>1
<1>7. at[0] = 0
  BY <1>3 DEF IsAt
<1> QED BY <1>2, <1>6, <1>7

\* The first characters of a text.
LEMMA TextBegins ==
  ASSUME TerminalIsUtf8, NEW bytes, NEW chars \in Seq(Glyphs), Text(bytes, chars),
         NEW at, IsAt(bytes, chars, at), NEW n \in 0 .. Len(chars)
  PROVE  Text(SubSeq(bytes, 1, at[n]), SubSeq(chars, 1, n))
<1> DEFINE some == SubSeq(bytes, 1, at[n])
           first == SubSeq(chars, 1, n)
           places == [k \in 0 .. n |-> at[k]]
<1>1. bytes \in Seq(Bytes) /\ Len(bytes) \in Nat /\ Len(chars) \in Nat /\ n \in Nat
  BY LenProperties DEF Text
<1>2. \A i \in 1 .. Len(chars) : chars[i] \in Glyphs /\ Len(chars[i]) \in Nat
  BY ElementOfSeq, UnitBytes DEF Units
<1>3. at[n] \in Nat /\ at[n] <= Len(bytes)
  <2>1. CASE n = 0
    BY <1>1, <2>1 DEF IsAt
  <2>2. CASE n \in 1 .. Len(chars)
    BY <2>2, GlyphAt
  <2> QED BY <1>1, <2>1, <2>2
<1>4. some \in Seq(Bytes) /\ Len(some) = at[n] /\ \A j \in 1 .. at[n] : some[j] = bytes[j]
  <2>1. \A j \in 1 .. at[n] : bytes[j] \in Bytes
    <3>1. \A j \in 1 .. at[n] : j \in 1 .. Len(bytes)
      BY <1>1, <1>3
    <3> QED BY <1>1, <3>1, ElementOfSeq
  <2> DEFINE e == at[n]
  <2>2. e \in Nat
    BY <1>3
  <2> HIDE DEF e
  <2>3. /\ SubSeq(bytes, 1, e) \in Seq(Bytes)
        /\ Len(SubSeq(bytes, 1, e)) = IF 1 <= e THEN e - 1 + 1 ELSE 0
        /\ \A j \in 1 .. e - 1 + 1 : SubSeq(bytes, 1, e)[j] = bytes[1 + j - 1]
    BY <2>1, <2>2, SubSeqProperties DEF e
  <2>4. /\ (IF 1 <= e THEN e - 1 + 1 ELSE 0) = e /\ e - 1 + 1 = e
        /\ \A j \in 1 .. e : 1 + j - 1 = j
    BY <2>2
  <2> QED BY <2>3, <2>4 DEF e
<1>5. first \in Seq(Glyphs) /\ Len(first) = n /\ \A k \in 1 .. n : first[k] = chars[k]
  <2>1. \A k \in 1 .. n : chars[k] \in Glyphs
    BY <1>1, <1>2
  <2>2. /\ first \in Seq(Glyphs) /\ Len(first) = IF 1 <= n THEN n - 1 + 1 ELSE 0
        /\ \A k \in 1 .. n - 1 + 1 : first[k] = chars[1 + k - 1]
    BY <1>1, <2>1, SubSeqProperties
  <2>3. (IF 1 <= n THEN n - 1 + 1 ELSE 0) = n /\ n - 1 + 1 = n /\ \A k \in 1 .. n : 1 + k - 1 = k
    BY <1>1
  <2> QED BY <2>2, <2>3
<1>6. first \in Seq(Units)
  BY <1>5, SeqMonotonic DEF Units
<1> HIDE DEF some, first
<1>7. places \in [0 .. n -> Nat] /\ places[0] = 0 /\ places[n] = at[n]
  <2>1. ASSUME NEW k \in 0 .. n PROVE at[k] \in Nat
    <3>1. k \in 0 .. Len(chars)
      BY <1>1
    <3>2. at \in [0 .. Len(chars) -> Nat]
      BY DEF IsAt
    <3> QED BY <3>1, <3>2
  <2> QED BY <1>1, <2>1 DEF IsAt
<1>8. ASSUME NEW k \in 1 .. n
      PROVE  /\ places[k] = places[k - 1] + Len(first[k])
             /\ \A j \in 1 .. Len(first[k]) : some[places[k - 1] + j] = first[k][j]
  <2>1. k \in 1 .. Len(chars) /\ places[k] = at[k] /\ places[k - 1] = at[k - 1]
        /\ first[k] = chars[k] /\ k \in 0 .. Len(chars)
    BY <1>1, <1>5
  <2>2. /\ at[k] = at[k - 1] + Len(chars[k])
        /\ \A j \in 1 .. Len(chars[k]) : bytes[at[k - 1] + j] = chars[k][j]
    BY <2>1 DEF IsAt
  <2>3. at[k - 1] \in Nat /\ at[k] \in Nat /\ at[k] <= at[n]
    <3>1. at[k - 1] \in Nat /\ at[k] \in Nat
      BY <2>1, GlyphAt
    <3>2. at[k] <= at[n]
      <4> DEFINE T == {x \in 0 .. Len(chars) : x >= k => at[k] <= at[x]}
      <4>1. 0 \in T
        BY <1>1
      <4>2. ASSUME NEW x \in 1 .. Len(chars), x - 1 \in T PROVE x \in T
        <5>1. at[x - 1] \in Nat /\ at[x] \in Nat /\ at[x - 1] < at[x]
          BY GlyphAt
        <5>2. x - 1 >= k => at[k] <= at[x - 1]
          BY <4>2
        <5>3. x >= k => at[k] <= at[x]
          BY <3>1, <5>1, <5>2
        <5> QED BY <1>1, <5>3
      <4>3. \A x \in 0 .. Len(chars) : x \in T
        <5> HIDE DEF T
        <5> QED BY <1>1, <4>1, <4>2, Upward
      <4> QED BY <1>1, <4>3
    <3> QED BY <3>1, <3>2
  <2>4. ASSUME NEW j \in 1 .. Len(chars[k]) PROVE some[at[k - 1] + j] = bytes[at[k - 1] + j]
    <3> DEFINE at0 == at[k - 1]
               at1 == at[n]
               l == Len(chars[k])
    <3>1. at0 \in Nat /\ l \in Nat /\ at1 \in Nat /\ at0 + l <= at1
      BY <1>2, <1>3, <2>1, <2>2, <2>3
    <3> HIDE DEF at0, at1, l
    <3>2. at0 + j \in 1 .. at1
      <4>1. j \in 1 .. l
        BY DEF l
      <4>2. 0 \in Nat /\ at1 + 0 = at1
        BY <3>1
      <4> QED BY <3>1, <4>1, <4>2, PlaceWithin
    <3> QED BY <1>4, <3>2 DEF at0, at1
  <2> QED BY <2>1, <2>2, <2>4
<1> HIDE DEF places
<1>9. IsAt(some, first, places)
  BY <1>4, <1>5, <1>7, <1>8 DEF IsAt
<1>10. Text(some, first)
  BY <1>4, <1>6, <1>9 DEF Text
<1> QED BY <1>10 DEF some, first

\* What is copied of a text are its first characters.
LEMMA TextCopied ==
  ASSUME TerminalIsUtf8, NEW str, NEW chars \in Seq(Glyphs), Text(str, chars),
         NEW n \in 0 .. Len(chars)
  PROVE  Text(Copied(str, n), SubSeq(chars, 1, n))
<1> DEFINE c_str(i) == IF i <= Len(str) THEN str[i] ELSE 0
           more(done) == done \o [k \in 1 .. Step(c_str(Len(done) + 1)) |-> c_str(Len(done) + k)]
           body(f) == [j \in 0 .. n |-> IF j = 0 THEN <<>> ELSE more(f[j - 1])]
           copied == CHOOSE f : f = body(f)
<1>1. str \in Seq(Bytes) /\ Len(str) \in Nat /\ Len(chars) \in Nat /\ n \in Nat
  BY LenProperties DEF Text
<1>2. PICK at : IsAt(str, chars, at)
  BY DEF Text
<1>3. Copied(str, n) = copied[n]
  BY DEF Copied
<1>4. ASSUME NEW k \in 1 .. Len(chars)
      PROVE  more(SubSeq(str, 1, at[k - 1])) = SubSeq(str, 1, at[k])
  <2> DEFINE a == at[k - 1]
             e == at[k]
             done == SubSeq(str, 1, a)
  <2>1. /\ a \in Nat /\ e \in Nat /\ a < e /\ e <= Len(str) /\ a + Step(str[a + 1]) = e
    BY <1>2, GlyphAt
  <2> HIDE DEF a, e
  <2>2. Len(done) = a
    <3>1. \A j \in 1 .. a : str[j] \in Bytes
      <4>1. \A j \in 1 .. a : j \in 1 .. Len(str)
        BY <1>1, <2>1
      <4> QED BY <1>1, <4>1, ElementOfSeq
    <3>2. Len(done) = IF 1 <= a THEN a - 1 + 1 ELSE 0
      BY <2>1, <3>1, SubSeqProperties
    <3> QED BY <2>1, <3>2
  <2> HIDE DEF done
  <2>3. [j \in 1 .. Step(c_str(a + 1)) |-> c_str(a + j)] = SubSeq(str, a + 1, e)
    <3> DEFINE part == SubSeq(str, a + 1, e)
    <3>1. /\ Step(c_str(a + 1)) = e - a
          /\ \A j \in 1 .. e - a : a + j \in 1 .. Len(str) /\ c_str(a + j) = str[a + j]
      <4>1. a + 1 <= Len(str)
        BY <1>1, <2>1
      <4>2. Step(str[a + 1]) \in Nat
        BY DEF Step
      <4> QED BY <1>1, <2>1, <4>1, <4>2
    <3>2. part \in Seq(Bytes) /\ Len(part) = e - a /\ \A j \in 1 .. e - a : part[j] = str[a + j]
      <4>1. \A i \in a + 1 .. e : str[i] \in Bytes
        <5>1. \A i \in a + 1 .. e : i \in 1 .. Len(str)
          BY <1>1, <2>1
        <5> QED BY <1>1, <5>1, ElementOfSeq
      <4>2. /\ part \in Seq(Bytes)
            /\ Len(part) = IF a + 1 <= e THEN e - (a + 1) + 1 ELSE 0
            /\ \A j \in 1 .. e - (a + 1) + 1 : part[j] = str[(a + 1) + j - 1]
        BY <2>1, <4>1, SubSeqProperties
      <4>3. e - (a + 1) + 1 = e - a /\ a + 1 <= e /\ \A j \in 1 .. e - a : (a + 1) + j - 1 = a + j
        BY <2>1
      <4> QED BY <4>2, <4>3
    <3> HIDE DEF part, c_str
    <3>3. part = [j \in 1 .. e - a |-> part[j]]
      BY <3>2
    <3>4. part = [j \in 1 .. e - a |-> c_str(a + j)]
      BY <3>1, <3>2, <3>3
    <3> QED BY <3>1, <3>4 DEF part
  <2> HIDE DEF c_str
  <2>4. more(done) = done \o SubSeq(str, a + 1, e)
    BY <2>2, <2>3
  <2>5. done \o SubSeq(str, a + 1, e) = SubSeq(str, 1, e)
    <3>1. 1 \in 1 .. Len(str) + 1 /\ a \in 1 - 1 .. Len(str) /\ e \in a .. Len(str)
      BY <1>1, <2>1
    <3> QED BY <1>1, <3>1, ConcatAdjacentSubSeq DEF done
  <2> QED BY <2>4, <2>5 DEF done, a, e
<1> HIDE DEF more, c_str
<1>5. copied = body(copied)
  <2> DEFINE g == [j \in 0 .. n |-> SubSeq(str, 1, at[j])]
  <2>1. ASSUME NEW j \in 0 .. n PROVE g[j] = IF j = 0 THEN <<>> ELSE more(g[j - 1])
    <3>1. CASE j = 0
      <4>1. SubSeq(str, 1, 0) = <<>> /\ at[0] = 0
        BY <1>2, SubSeqEmpty DEF IsAt
      <4> QED BY <3>1, <4>1
    <3>2. CASE j # 0
      <4>1. j \in 1 .. Len(chars) /\ j - 1 \in 0 .. n
        BY <1>1, <3>2
      <4> QED BY <1>4, <3>2, <4>1
    <3> QED BY <3>1, <3>2
  <2>2. g = body(g)
    BY <2>1
  <2> HIDE DEF g, body
  <2> QED BY <2>2
<1> HIDE DEF copied
<1> DEFINE Same == {k \in 0 .. n : copied[k] = SubSeq(str, 1, at[k])}
<1>6. 0 \in Same
  <2>1. SubSeq(str, 1, 0) = <<>> /\ at[0] = 0
    BY <1>2, SubSeqEmpty DEF IsAt
  <2> QED BY <1>1, <1>5, <2>1
<1>7. ASSUME NEW k \in 1 .. n, k - 1 \in Same PROVE k \in Same
  <2>1. copied[k] = more(copied[k - 1])
    BY <1>1, <1>5
  <2>2. k \in 1 .. Len(chars) /\ k \in 0 .. n
    BY <1>1
  <2> QED BY <1>4, <1>7, <2>1, <2>2
<1>8. copied[n] = SubSeq(str, 1, at[n])
  <2>1. \A k \in 0 .. n : k \in Same
    <3> HIDE DEF Same
    <3> QED BY <1>1, <1>6, <1>7, Upward
  <2>2. n \in 0 .. n
    BY <1>1
  <2> QED BY <2>1, <2>2
<1> QED BY <1>2, <1>3, <1>8, TextBegins

\* A part of a plain text, character by character.
LEMMA PlainPart ==
  ASSUME NEW str \in Seq(Plain), NEW m \in Nat \ {0}, NEW n \in Nat, n <= Len(str)
  PROVE  /\ SubSeq(str, m, n) \in Seq(Plain)
         /\ Ones(SubSeq(str, m, n)) = SubSeq(Ones(str), m, n)
<1> DEFINE part == SubSeq(str, m, n)
           ones == Ones(str)
           l == IF m <= n THEN n - m + 1 ELSE 0
<1>1. Len(str) \in Nat /\ l \in Nat
  BY LenProperties
<1>2. \A i \in m .. n : i \in 1 .. Len(str)
  BY <1>1
<1>3. /\ part \in Seq(Plain) /\ Len(part) = l
      /\ \A i \in 1 .. n - m + 1 : part[i] = str[m + i - 1]
  <2>1. \A i \in m .. n : str[i] \in Plain
    BY <1>2, ElementOfSeq
  <2> QED BY <2>1, SubSeqProperties
<1>4. ones \in Seq(Glyphs) /\ \A i \in 1 .. Len(str) : ones[i] = <<str[i]>>
  BY TextOfPlain DEF Ones
<1>5. /\ SubSeq(ones, m, n) \in Seq(Glyphs) /\ Len(SubSeq(ones, m, n)) = l
      /\ \A i \in 1 .. n - m + 1 : SubSeq(ones, m, n)[i] = ones[m + i - 1]
  <2>1. \A i \in m .. n : ones[i] \in Glyphs
    <3>1. Len(ones) = Len(str)
      BY TextOfPlain
    <3> QED BY <1>2, <1>4, <3>1, ElementOfSeq
  <2> HIDE DEF ones
  <2> QED BY <2>1, SubSeqProperties
<1> HIDE DEF part, ones
<1>6. Ones(part) \in Seq(Glyphs) /\ Len(Ones(part)) = l
      /\ \A i \in 1 .. l : Ones(part)[i] = <<part[i]>>
  BY <1>3, TextOfPlain DEF Ones
<1>7. ASSUME NEW i \in 1 .. l PROVE Ones(part)[i] = SubSeq(ones, m, n)[i]
  <2>1. i \in 1 .. n - m + 1 /\ m + i - 1 \in 1 .. Len(str)
    BY <1>1
  <2> QED BY <1>3, <1>4, <1>5, <1>6, <2>1
<1>8. Ones(part) = SubSeq(ones, m, n)
  BY <1>5, <1>6, <1>7, SeqEqual
<1> QED BY <1>3, <1>8 DEF part, ones

\* A row of the screen and the bytes it is written with.
Row(bytes, line) ==
  Text(bytes, line) /\ line \in Seq(Glyphs) /\ Len(line) <= mConsoleSize.w

LEMMA PlainCells ==
  ASSUME TerminalIsUtf8, NEW str \in Seq(Plain)
  PROVE  CellsOf(str) = Ones(str)
BY TextOfPlain, TextCells

LEMMA Constants ==
  /\ Stamp \in Seq(Plain) /\ Len(Stamp) = 10
  /\ Status \in Seq(Plain) /\ Len(Status) = 11
  /\ Dots \in Seq(Plain) /\ Len(Dots) = 3
  /\ Space \in Plain
<1>1. 58 \in Plain /\ 91 \in Plain /\ 46 \in Plain /\ 32 \in Plain
  BY DEF Plain, LF
<1>2. Stamp \in Seq(Plain) /\ Len(Stamp) = 10
  BY <1>1 DEF Stamp
<1>3. Status \in Seq(Plain) /\ Len(Status) = 11
  BY <1>1 DEF Status
<1>4. Dots \in Seq(Plain) /\ Len(Dots) = 3
  BY <1>1 DEF Dots
<1> QED BY <1>1, <1>2, <1>3, <1>4 DEF Space

LEMMA Filling ==
  ASSUME NEW n \in Nat
  PROVE  /\ [i \in 1 .. n |-> Space] \in Seq(Plain) /\ Len([i \in 1 .. n |-> Space]) = n
         /\ \A i \in 1 .. n : [j \in 1 .. n |-> Space][i] = Space
BY Constants

\* The header and the footer.
LEMMA BarShows ==
  ASSUME TerminalIsUtf8, NEW str \in Seq(Plain), mConsoleSize.w \in Nat \ {0}
  PROVE  Row(Bar(str), MeantBar(str))
<1> DEFINE w == mConsoleSize.w
           l == Len(str)
           fill == [i \in 1 .. w |-> Space]
           all == <<Space>> \o str \o fill
           bar == SubSeq(all, 1, w)
<1>0. w \in Nat \ {0} /\ l \in Nat
  BY LenProperties
<1>1. fill \in Seq(Plain) /\ Len(fill) = w /\ \A i \in 1 .. w : fill[i] = Space
  <2>1. w \in Nat
    BY <1>0
  <2> HIDE DEF w
  <2> QED BY <2>1, Filling
<1>2. <<Space>> \in Seq(Plain) /\ Len(<<Space>>) = 1 /\ <<Space>>[1] = Space
  BY Constants
<1>3. /\ <<Space>> \o str \in Seq(Plain) /\ Len(<<Space>> \o str) = 1 + l
      /\ \A i \in 1 .. 1 + l : (<<Space>> \o str)[i] = IF i <= 1 THEN Space ELSE str[i - 1]
  <2>1. /\ <<Space>> \o str \in Seq(Plain) /\ Len(<<Space>> \o str) = 1 + l
        /\ \A i \in 1 .. 1 + l :
             (<<Space>> \o str)[i] = IF i <= 1 THEN <<Space>>[i] ELSE str[i - 1]
    BY <1>2, ConcatProperties
  <2>2. \A i \in 1 .. 1 + l : i <= 1 => i = 1
    OBVIOUS
  <2> QED BY <1>2, <2>1, <2>2
<1> HIDE DEF fill
<1>4. /\ all \in Seq(Plain) /\ Len(all) = (1 + l) + w
      /\ \A i \in 1 .. (1 + l) + w :
           all[i] = IF i <= 1 + l THEN (<<Space>> \o str)[i] ELSE fill[i - (1 + l)]
  <2> DEFINE begin == <<Space>> \o str
  <2>1. begin \in Seq(Plain) /\ Len(begin) = 1 + l /\ all = begin \o fill
    BY <1>3
  <2> HIDE DEF begin, all, w
  <2>2. /\ begin \o fill \in Seq(Plain) /\ Len(begin \o fill) = (1 + l) + w
        /\ \A i \in 1 .. (1 + l) + w :
             (begin \o fill)[i] = IF i <= 1 + l THEN begin[i] ELSE fill[i - (1 + l)]
    <3>1. fill \in Seq(Plain) /\ Len(fill) = w
      BY <1>1
    <3>2. /\ begin \o fill \in Seq(Plain) /\ Len(begin \o fill) = Len(begin) + Len(fill)
          /\ \A i \in 1 .. Len(begin) + Len(fill) :
               (begin \o fill)[i] = IF i <= Len(begin) THEN begin[i] ELSE fill[i - Len(begin)]
      BY <2>1, <3>1, ConcatProperties
    <3> QED BY <2>1, <3>1, <3>2
  <2> QED BY <2>1, <2>2 DEF begin
<1>5. \A i \in 1 .. (1 + l) + w :
        all[i] = IF i <= 1 \/ i > 1 + l THEN Space ELSE str[i - 1]
  <2> SUFFICES ASSUME NEW i \in 1 .. (1 + l) + w
               PROVE  all[i] = IF i <= 1 \/ i > 1 + l THEN Space ELSE str[i - 1]
    OBVIOUS
  <2> HIDE DEF all
  <2>1. CASE i <= 1 + l
    <3>1. i \in 1 .. 1 + l
      BY <1>0, <2>1
    <3> QED BY <1>0, <1>3, <1>4, <2>1, <3>1
  <2>2. CASE i > 1 + l
    <3>1. i - (1 + l) \in 1 .. w /\ ~(i <= 1 + l)
      BY <1>0, <2>2
    <3> QED BY <1>1, <1>4, <2>2, <3>1
  <2> QED BY <1>0, <2>1, <2>2
<1> HIDE DEF all
<1>6. /\ bar \in Seq(Plain) /\ Len(bar) = w /\ \A i \in 1 .. w : bar[i] = all[i]
      /\ Ones(bar) = SubSeq(Ones(all), 1, w)
  <2>1. w <= Len(all) /\ 1 \in Nat \ {0} /\ w \in Nat
    BY <1>0, <1>4
  <2>2. bar \in Seq(Plain) /\ Ones(bar) = SubSeq(Ones(all), 1, w)
    BY <1>4, <2>1, PlainPart
  <2>3. \A i \in 1 .. w : all[i] \in Plain
    <3>1. \A i \in 1 .. w : i \in 1 .. Len(all)
      BY <1>0, <2>1, <1>4
    <3> QED BY <1>4, <3>1, ElementOfSeq
  <2>4. /\ Len(bar) = IF 1 <= w THEN w - 1 + 1 ELSE 0
        /\ \A i \in 1 .. w - 1 + 1 : bar[i] = all[1 + i - 1]
    BY <1>0, <2>3, SubSeqProperties
  <2>5. (IF 1 <= w THEN w - 1 + 1 ELSE 0) = w /\ w - 1 + 1 = w /\ \A i \in 1 .. w : 1 + i - 1 = i
    BY <1>0
  <2> HIDE DEF bar
  <2> QED BY <2>2, <2>4, <2>5
<1>7. MeantBar(str) = Ones(bar)
  BY <1>4, <1>6, PlainCells DEF MeantBar, all, fill
<1> HIDE DEF bar
<1>8. Bar(str) = bar
  <2> DEFINE rest == IF l + 1 <= w THEN str \o [i \in 1 .. w - (l + 1) |-> Space]
                     ELSE SubSeq(str, 1, w - 1)
  <2>1. rest \in Seq(Plain) /\ Len(rest) = w - 1
        /\ \A i \in 1 .. w - 1 : rest[i] = IF i > l THEN Space ELSE str[i]
    <3>1. CASE l + 1 <= w
      <4> DEFINE spaces == [i \in 1 .. w - (l + 1) |-> Space]
      <4>1. /\ spaces \in Seq(Plain) /\ Len(spaces) = w - (l + 1)
            /\ \A i \in 1 .. w - (l + 1) : spaces[i] = Space
        <5> DEFINE m == w - (l + 1)
        <5>1. m \in Nat
          BY <1>0, <3>1
        <5> HIDE DEF m
        <5>2. /\ [i \in 1 .. m |-> Space] \in Seq(Plain) /\ Len([i \in 1 .. m |-> Space]) = m
              /\ \A i \in 1 .. m : [j \in 1 .. m |-> Space][i] = Space
          BY <5>1, Filling
        <5> QED BY <5>2 DEF m
      <4> HIDE DEF spaces
      <4>2. /\ str \o spaces \in Seq(Plain) /\ Len(str \o spaces) = l + (w - (l + 1))
            /\ \A i \in 1 .. l + (w - (l + 1)) :
                 (str \o spaces)[i] = IF i <= l THEN str[i] ELSE spaces[i - l]
        BY <4>1, ConcatProperties
      <4>3. l + (w - (l + 1)) = w - 1
        BY <1>0
      <4>4. ASSUME NEW i \in 1 .. w - 1 PROVE (str \o spaces)[i] = IF i > l THEN Space ELSE str[i]
        <5>1. i > l => i - l \in 1 .. w - (l + 1)
          BY <1>0
        <5> QED BY <1>0, <4>1, <4>2, <4>3, <5>1
      <4>5. rest = str \o spaces
        BY <3>1 DEF spaces
      <4> HIDE DEF rest
      <4> QED BY <4>2, <4>3, <4>4, <4>5
    <3>2. CASE ~(l + 1 <= w)
      <4>1. \A i \in 1 .. w - 1 : i \in 1 .. l
        BY <1>0, <3>2
      <4>2. \A i \in 1 .. w - 1 : str[i] \in Plain
        BY <4>1, ElementOfSeq
      <4>3. /\ SubSeq(str, 1, w - 1) \in Seq(Plain)
            /\ Len(SubSeq(str, 1, w - 1)) = IF 1 <= w - 1 THEN w - 1 - 1 + 1 ELSE 0
            /\ \A i \in 1 .. w - 1 - 1 + 1 : SubSeq(str, 1, w - 1)[i] = str[1 + i - 1]
        BY <1>0, <4>2, SubSeqProperties
      <4>4. /\ (IF 1 <= w - 1 THEN w - 1 - 1 + 1 ELSE 0) = w - 1 /\ w - 1 - 1 + 1 = w - 1
            /\ \A i \in 1 .. w - 1 : 1 + i - 1 = i /\ ~(i > l)
        BY <1>0, <3>2
      <4>5. rest = SubSeq(str, 1, w - 1)
        BY <3>2
      <4> HIDE DEF rest
      <4> QED BY <4>3, <4>4, <4>5
    <3> QED BY <3>1, <3>2
  <2>2. Bar(str) = <<Space>> \o rest
    BY DEF Bar
  <2> HIDE DEF rest
  <2>3. /\ Bar(str) \in Seq(Plain) /\ Len(Bar(str)) = 1 + (w - 1)
        /\ \A i \in 1 .. 1 + (w - 1) :
             Bar(str)[i] = IF i <= 1 THEN <<Space>>[i] ELSE rest[i - 1]
    BY <1>2, <2>1, <2>2, ConcatProperties
  <2>4. 1 + (w - 1) = w
    BY <1>0
  <2>5. ASSUME NEW i \in 1 .. w PROVE Bar(str)[i] = bar[i]
    <3>1. bar[i] = IF i <= 1 \/ i > 1 + l THEN Space ELSE str[i - 1]
      <4>1. i \in 1 .. (1 + l) + w
        BY <1>0
      <4> QED BY <1>5, <1>6, <4>1
    <3>2. CASE i = 1
      BY <1>2, <2>3, <2>4, <3>1, <3>2
    <3>3. CASE i # 1
      <4>1. i - 1 \in 1 .. w - 1 /\ ~(i <= 1) /\ (i - 1 > l <=> i > 1 + l)
        BY <1>0, <3>3
      <4>2. Bar(str)[i] = rest[i - 1]
        BY <2>3, <2>4, <4>1
      <4>3. rest[i - 1] = IF i - 1 > l THEN Space ELSE str[i - 1]
        BY <2>1, <4>1
      <4> QED BY <3>1, <4>1, <4>2, <4>3
    <3> QED BY <3>2, <3>3
  <2> QED BY <1>6, <2>3, <2>4, <2>5, SeqEqual
<1>9. Text(bar, Ones(bar)) /\ Ones(bar) \in Seq(Glyphs) /\ Len(Ones(bar)) = w
  BY <1>6, TextOfPlain
<1> QED BY <1>0, <1>7, <1>8, <1>9 DEF Row

\* How long two sequences are that follow each other.
LEMMA LengthOfTwo ==
  ASSUME NEW T, NEW a \in Seq(T), NEW b \in Seq(T)
  PROVE  a \o b \in Seq(T) /\ Len(a \o b) = Len(a) + Len(b)
BY ConcatProperties

\* The prompt.
LEMMA PromptShows ==
  ASSUME TerminalIsUtf8, mPromptBuffer \in Seq(Plain), mConsoleSize.w \in Nat, mConsoleSize.w > 12
  PROVE  LET end == Last(mPromptBuffer, Fewer(mConsoleSize.w - 11, Len(mPromptBuffer)))
         IN  end \in Seq(Plain) /\ Row(Status \o end, MeantPrompt)
<1> DEFINE w == mConsoleSize.w
           l == Len(mPromptBuffer)
           n == Fewer(w - 11, l)
           m == l - n + 1
           end == SubSeq(mPromptBuffer, m, l)
<1>1. w \in Nat /\ w > 12 /\ l \in Nat
  BY LenProperties
<1>2. n \in Nat /\ n <= l /\ n <= w - 11 /\ m \in Nat \ {0} /\ l - m + 1 = n /\ (m <= l <=> n # 0)
  BY <1>1 DEF Fewer
<1>3. CellsOf(mPromptBuffer) = Ones(mPromptBuffer) /\ Len(Ones(mPromptBuffer)) = l
      /\ CellsOf(Status) = Ones(Status) /\ Len(Status) = 11
  BY PlainCells, TextOfPlain, Constants
<1>4. MeantPrompt = Ones(Status) \o SubSeq(Ones(mPromptBuffer), m, l)
  BY <1>3 DEF MeantPrompt, Last
<1>5. Last(mPromptBuffer, n) = end
  BY DEF Last
<1>6. /\ end \in Seq(Plain) /\ Ones(end) = SubSeq(Ones(mPromptBuffer), m, l)
      /\ Len(end) = n
  <2> HIDE DEF m
  <2>1. end \in Seq(Plain) /\ Ones(end) = SubSeq(Ones(mPromptBuffer), m, l)
    <3>1. m \in Nat \ {0} /\ l \in Nat /\ l <= l
      BY <1>1, <1>2
    <3> HIDE DEF l
    <3>2. SubSeq(mPromptBuffer, m, l) \in Seq(Plain)
          /\ Ones(SubSeq(mPromptBuffer, m, l)) = SubSeq(Ones(mPromptBuffer), m, l)
      <4>1. l <= Len(mPromptBuffer)
        BY <3>1 DEF l
      <4> QED BY <3>1, <4>1, PlainPart
    <3> QED BY <3>2
  <2>2. \A i \in m .. l : mPromptBuffer[i] \in Plain
    <3>1. \A i \in m .. l : i \in 1 .. l
      BY <1>1, <1>2
    <3> QED BY <3>1, ElementOfSeq
  <2>3. Len(end) = IF m <= l THEN l - m + 1 ELSE 0
    BY <1>1, <1>2, <2>2, SubSeqProperties
  <2> QED BY <1>2, <2>1, <2>3
<1> HIDE DEF end, m, n
<1>7. /\ Text(Status, Ones(Status)) /\ Ones(Status) \in Seq(Glyphs) /\ Len(Ones(Status)) = 11
      /\ Text(end, Ones(end)) /\ Ones(end) \in Seq(Glyphs) /\ Len(Ones(end)) = n
  BY <1>3, <1>6, TextOfPlain, Constants
<1>8. Text(Status \o end, Ones(Status) \o Ones(end))
  BY <1>7, TextConcat
<1>9. Ones(Status) \o Ones(end) \in Seq(Glyphs) /\ Len(Ones(Status) \o Ones(end)) = 11 + n
  <2> DEFINE a == Ones(Status)
             b == Ones(end)
  <2>1. a \in Seq(Glyphs) /\ b \in Seq(Glyphs) /\ Len(a) = 11 /\ Len(b) = n
    BY <1>7
  <2> HIDE DEF a, b
  <2>2. a \o b \in Seq(Glyphs) /\ Len(a \o b) = Len(a) + Len(b)
    BY <2>1, LengthOfTwo
  <2> QED BY <2>1, <2>2 DEF a, b
<1>10. Row(Status \o end, MeantPrompt)
  BY <1>1, <1>2, <1>4, <1>6, <1>8, <1>9 DEF Row
<1> QED BY <1>5, <1>6, <1>10 DEF n

\* The first characters of two texts that follow each other.
LEMMA FirstOfTwo ==
  ASSUME NEW T, NEW a \in Seq(T), NEW b \in Seq(T), NEW n \in 0 .. Len(b)
  PROVE  SubSeq(a \o b, 1, Len(a) + n) = a \o SubSeq(b, 1, n)
<1> DEFINE m == Len(a)
           all == a \o b
           part == SubSeq(b, 1, n)
<1>1. m \in Nat /\ Len(b) \in Nat /\ n \in Nat /\ n <= Len(b)
  BY LenProperties
<1>2. /\ all \in Seq(T) /\ Len(all) = m + Len(b)
      /\ \A i \in 1 .. m + Len(b) : all[i] = IF i <= m THEN a[i] ELSE b[i - m]
  BY ConcatProperties
<1>3. part \in Seq(T) /\ Len(part) = n /\ \A i \in 1 .. n : part[i] = b[i]
  <2>1. \A i \in 1 .. n : b[i] \in T
    <3>1. \A i \in 1 .. n : i \in 1 .. Len(b)
      BY <1>1
    <3> QED BY <3>1, ElementOfSeq
  <2>2. /\ part \in Seq(T) /\ Len(part) = IF 1 <= n THEN n - 1 + 1 ELSE 0
        /\ \A i \in 1 .. n - 1 + 1 : part[i] = b[1 + i - 1]
    BY <1>1, <2>1, SubSeqProperties
  <2>3. (IF 1 <= n THEN n - 1 + 1 ELSE 0) = n /\ n - 1 + 1 = n /\ \A i \in 1 .. n : 1 + i - 1 = i
    BY <1>1
  <2> QED BY <2>2, <2>3
<1> HIDE DEF all, part, m
<1> DEFINE some == SubSeq(all, 1, m + n)
<1>4. some \in Seq(T) /\ Len(some) = m + n /\ \A i \in 1 .. m + n : some[i] = all[i]
  <2> DEFINE e == m + n
  <2>0. e \in Nat /\ e <= m + Len(b)
    BY <1>1
  <2> HIDE DEF e
  <2>1. \A i \in 1 .. e : all[i] \in T
    <3>1. \A i \in 1 .. e : i \in 1 .. Len(all)
      BY <1>1, <1>2, <2>0
    <3> QED BY <1>2, <3>1, ElementOfSeq
  <2>2. /\ SubSeq(all, 1, e) \in Seq(T) /\ Len(SubSeq(all, 1, e)) = IF 1 <= e THEN e - 1 + 1 ELSE 0
        /\ \A i \in 1 .. e - 1 + 1 : SubSeq(all, 1, e)[i] = all[1 + i - 1]
    BY <2>0, <2>1, SubSeqProperties
  <2>3. (IF 1 <= e THEN e - 1 + 1 ELSE 0) = e /\ e - 1 + 1 = e /\ \A i \in 1 .. e : 1 + i - 1 = i
    BY <2>0
  <2> QED BY <2>2, <2>3 DEF e
<1>5. /\ a \o part \in Seq(T) /\ Len(a \o part) = m + n
      /\ \A i \in 1 .. m + n : (a \o part)[i] = IF i <= m THEN a[i] ELSE part[i - m]
  BY <1>3, ConcatProperties DEF m
<1> HIDE DEF some
<1>6. ASSUME NEW i \in 1 .. m + n PROVE some[i] = (a \o part)[i]
  <2>1. i \in 1 .. m + Len(b) /\ (~(i <= m) => i - m \in 1 .. n)
    BY <1>1
  <2> QED BY <1>2, <1>3, <1>4, <1>5, <2>1
<1>7. some = a \o part
  BY <1>4, <1>5, <1>6, SeqEqual
<1> QED BY <1>7 DEF some, all, part, m

\* A line of content.
LEMMA LineShows ==
  ASSUME TerminalIsUtf8, NEW str, NEW chars \in Seq(Glyphs), Text(str, chars),
         mConsoleSize.w \in Nat, mConsoleSize.w > 12
  PROVE  \E bytes : ContentLine(str) = bytes \o <<LF>> /\ Row(bytes, MeantLine(str))
<1> DEFINE w == mConsoleSize.w
           stamp == IF bIsTimestampEnabled THEN Stamp ELSE <<>>
           left == w - Len(stamp)
           first == SubSeq(chars, 1, left - 3)
           body == IF strlenMultiByte(str).width > left THEN Copied(str, left - 3) \o Dots ELSE str
           cells == CellsOf(stamp \o str)
<1>1. ContentLine(str) = (stamp \o body) \o <<LF>>
  BY DEF ContentLine
<1>2. MeantLine(str) = IF Len(cells) <= w THEN cells
                       ELSE SubSeq(cells, 1, w - 3) \o CellsOf(Dots)
  BY DEF MeantLine
<1>3. strlenMultiByte(str).width = Len(chars)
  BY TextWidth
<1>4. stamp \in Seq(Plain) /\ Len(stamp) \in {0, 10}
  <2>1. <<>> \in Seq(Plain) /\ Len(<<>>) = 0
    OBVIOUS
  <2> QED BY <2>1, Constants
<1> HIDE DEF stamp
<1>5. Text(stamp, Ones(stamp)) /\ Ones(stamp) \in Seq(Glyphs) /\ Len(Ones(stamp)) = Len(stamp)
  BY <1>4, TextOfPlain
<1>6. Text(Dots, Ones(Dots)) /\ Ones(Dots) \in Seq(Glyphs) /\ Len(Ones(Dots)) = 3
      /\ CellsOf(Dots) = Ones(Dots)
  BY TextOfPlain, PlainCells, Constants
<1> DEFINE all == Ones(stamp) \o chars
<1>7. Text(stamp \o str, all) /\ all \in Seq(Glyphs) /\ Len(all) = Len(stamp) + Len(chars)
  BY <1>5, TextConcat, ConcatProperties
<1>8. cells = all
  BY <1>7, TextCells
<1>9. w \in Nat /\ Len(chars) \in Nat /\ left \in Nat /\ left - 3 \in Nat
      /\ Len(stamp) + left = w /\ Len(stamp) + (left - 3) = w - 3
  <2> DEFINE l == Len(stamp)
  <2>1. l \in {0, 10} /\ w \in Nat /\ w > 12
    BY <1>4
  <2>2. Len(chars) \in Nat
    BY LenProperties
  <2> HIDE DEF l, w
  <2>3. w - l \in Nat /\ (w - l) - 3 \in Nat /\ l + (w - l) = w /\ l + ((w - l) - 3) = w - 3
    BY <2>1
  <2> QED BY <2>1, <2>2, <2>3 DEF l, w
<1> HIDE DEF cells, all, left
<1>10. CASE Len(chars) > left
  <2>1. left - 3 \in 0 .. Len(chars)
    BY <1>9, <1>10
  <2>2. Text(Copied(str, left - 3), first)
    BY <2>1, TextCopied
  <2>3. first \in Seq(Glyphs) /\ Len(first) = left - 3
    <3>1. \A i \in 1 .. left - 3 : chars[i] \in Glyphs
      <4>1. \A i \in 1 .. left - 3 : i \in 1 .. Len(chars)
        BY <1>9, <2>1
      <4> QED BY <4>1, ElementOfSeq
    <3> DEFINE e == left - 3
    <3>2. e \in Nat
      BY <1>9
    <3> HIDE DEF e
    <3>3. SubSeq(chars, 1, e) \in Seq(Glyphs)
          /\ Len(SubSeq(chars, 1, e)) = IF 1 <= e THEN e - 1 + 1 ELSE 0
      BY <3>1, <3>2, SubSeqProperties DEF e
    <3> QED BY <3>2, <3>3 DEF e
  <2> HIDE DEF first
  <2>4. /\ Text(stamp \o Copied(str, left - 3), Ones(stamp) \o first)
        /\ Ones(stamp) \o first \in Seq(Glyphs)
        /\ Len(Ones(stamp) \o first) = w - 3
    BY <1>5, <1>9, <2>2, <2>3, TextConcat, ConcatProperties
  <2>5. /\ Text(Copied(str, left - 3) \o Dots, first \o Ones(Dots))
        /\ Text(stamp \o (Copied(str, left - 3) \o Dots), Ones(stamp) \o (first \o Ones(Dots)))
    BY <1>5, <1>6, <2>2, TextConcat
  <2> DEFINE a == Ones(stamp)
             c == Ones(Dots)
             ab == a \o first
  <2>0. /\ a \in Seq(Glyphs) /\ c \in Seq(Glyphs) /\ Len(c) = 3
        /\ ab \in Seq(Glyphs) /\ Len(ab) = w - 3
    BY <1>5, <1>6, <2>4
  <2>6. a \o (first \o c) = ab \o c
    <3> HIDE DEF a, c
    <3>1. a \in Seq(Glyphs) /\ first \in Seq(Glyphs) /\ c \in Seq(Glyphs)
      BY <2>0, <2>3
    <3>2. (a \o first) \o c = a \o (first \o c)
      BY <3>1, ConcatAssociative
    <3> QED BY <3>2
  <2>7. SubSeq(all, 1, w - 3) = Ones(stamp) \o first
    <3>1. SubSeq(Ones(stamp) \o chars, 1, Len(Ones(stamp)) + (left - 3))
            = Ones(stamp) \o SubSeq(chars, 1, left - 3)
      BY <1>5, <2>1, FirstOfTwo
    <3> QED BY <1>5, <1>9, <3>1 DEF all, first
  <2>8. ~(Len(cells) <= w)
    BY <1>7, <1>8, <1>9, <1>10
  <2>9. MeantLine(str) = ab \o c
    BY <1>2, <1>6, <1>8, <2>7, <2>8
  <2>10. body = Copied(str, left - 3) \o Dots
    BY <1>3, <1>10
  <2>11. ab \o c \in Seq(Glyphs) /\ Len(ab \o c) = (w - 3) + 3
    <3> HIDE DEF ab, c
    <3>1. ab \o c \in Seq(Glyphs) /\ Len(ab \o c) = Len(ab) + Len(c)
      BY <2>0, LengthOfTwo
    <3> QED BY <2>0, <3>1
  <2>12. Text(stamp \o body, MeantLine(str))
    BY <2>5, <2>6, <2>9, <2>10
  <2>13. Row(stamp \o body, MeantLine(str))
    <3> HIDE DEF body, ab, c
    <3> QED BY <1>9, <2>9, <2>11, <2>12 DEF Row
  <2> QED BY <1>1, <2>13
<1>11. CASE ~(Len(chars) > left)
  <2>1. body = str
    BY <1>3, <1>11
  <2>2. Len(cells) <= w
    BY <1>7, <1>8, <1>9, <1>11
  <2>3. Row(stamp \o body, MeantLine(str))
    BY <1>2, <1>7, <1>8, <2>1, <2>2 DEF Row
  <2> QED BY <1>1, <2>3
<1> QED BY <1>10, <1>11

\* The terminal takes the characters in picture p and ends in picture q.
Draws(p, chars, q) ==
  \E after : /\ after[0] = p /\ after[Len(chars)] = q
             /\ \A k \in 1 .. Len(chars) : after[k] = Draw(after[k - 1], chars[k])

Shows(p, bytes, q) == \E chars : Text(bytes, chars) /\ Draws(p, chars, q)

LEMMA ShowsNothing ==
  ASSUME NEW p
  PROVE  Shows(p, <<>>, p)
<1> DEFINE after == [k \in 0 .. 0 |-> p]
<1>1. after[0] = p /\ Len(<<>>) = 0
  OBVIOUS
<1> HIDE DEF after
<1>2. Draws(p, <<>>, p)
  BY <1>1 DEF Draws
<1> QED BY <1>2, TextOfNothing DEF Shows

LEMMA ShowsUnit ==
  ASSUME TerminalIsUtf8, NEW p, NEW c \in Units
  PROVE  Shows(p, c, Draw(p, c))
<1> DEFINE after == [k \in 0 .. 1 |-> IF k = 0 THEN p ELSE Draw(p, c)]
           chars == <<c>>
<1>1. after[0] = p /\ after[1] = Draw(p, c)
  OBVIOUS
<1>2. Len(chars) = 1 /\ chars[1] = c /\ \A k \in 1 .. 1 : k = 1 /\ k - 1 = 0
  OBVIOUS
<1> HIDE DEF after, chars
<1>3. Draws(p, chars, Draw(p, c))
  BY <1>1, <1>2 DEF Draws
<1>4. Text(c, chars)
  BY TextOfUnit DEF chars
<1> QED BY <1>3, <1>4 DEF Shows

\* One text after the other.
LEMMA ShowsMore ==
  ASSUME TerminalIsUtf8, NEW p, NEW a, NEW q, NEW b, NEW r, Shows(p, a, q), Shows(q, b, r)
  PROVE  Shows(p, a \o b, r)
<1>1. PICK as : Text(a, as) /\ Draws(p, as, q)
  BY DEF Shows
<1>2. PICK bs : Text(b, bs) /\ Draws(q, bs, r)
  BY DEF Shows
<1> DEFINE m == Len(as)
           n == Len(bs)
           all == as \o bs
<1>3. as \in Seq(Units) /\ bs \in Seq(Units) /\ m \in Nat /\ n \in Nat
  BY <1>1, <1>2, LenProperties DEF Text
<1>4. /\ Len(all) = m + n
      /\ \A k \in 1 .. m + n : all[k] = IF k <= m THEN as[k] ELSE bs[k - m]
  BY <1>3, ConcatProperties
<1>5. PICK after1 : /\ after1[0] = p /\ after1[m] = q
                    /\ \A k \in 1 .. m : after1[k] = Draw(after1[k - 1], as[k])
  BY <1>1 DEF Draws
<1>6. PICK after2 : /\ after2[0] = q /\ after2[n] = r
                    /\ \A k \in 1 .. n : after2[k] = Draw(after2[k - 1], bs[k])
  BY <1>2 DEF Draws
<1> DEFINE after == [k \in 0 .. m + n |-> IF k <= m THEN after1[k] ELSE after2[k - m]]
<1> HIDE DEF all, m, n
<1>7. \A k \in 0 .. m : after[k] = after1[k]
  BY <1>3
<1>8. ASSUME NEW k \in m .. m + n PROVE after[k] = after2[k - m]
  <2>1. k \in 0 .. m + n /\ k >= m
    BY <1>3
  <2>2. CASE k = m
    <3>1. k - m = 0 /\ after[k] = after1[k]
      BY <1>3, <2>1, <2>2
    <3> QED BY <1>5, <1>6, <2>2, <3>1
  <2>3. CASE k # m
    <3>1. ~(k <= m)
      BY <1>3, <2>1, <2>3
    <3> QED BY <2>1, <3>1
  <2> QED BY <2>2, <2>3
<1> HIDE DEF after
<1>9. after[0] = p /\ after[m + n] = r
  <2>1. 0 \in 0 .. m /\ m + n \in m .. m + n /\ (m + n) - m = n
    BY <1>3
  <2> QED BY <1>5, <1>6, <1>7, <1>8, <2>1
<1>10. ASSUME NEW k \in 1 .. m + n PROVE after[k] = Draw(after[k - 1], all[k])
  <2>1. CASE k <= m
    <3>1. k \in 1 .. m /\ k \in 0 .. m /\ k - 1 \in 0 .. m
      BY <1>3, <2>1
    <3> QED BY <1>4, <1>5, <1>7, <2>1, <3>1
  <2>2. CASE k > m
    <3>1. k \in m .. m + n /\ k - 1 \in m .. m + n /\ (k - 1) - m = (k - m) - 1
          /\ k - m \in 1 .. n /\ ~(k <= m)
      BY <1>3, <2>2
    <3>2. after[k] = after2[k - m] /\ after[k - 1] = after2[(k - m) - 1] /\ all[k] = bs[k - m]
      BY <1>4, <1>8, <3>1
    <3> QED BY <1>6, <3>1, <3>2
  <2> QED BY <1>3, <2>1, <2>2
<1>11. Draws(p, all, r)
  BY <1>4, <1>9, <1>10 DEF Draws
<1>12. Text(a \o b, all)
  BY <1>1, <1>2, TextConcat DEF all
<1> QED BY <1>11, <1>12 DEF Shows

\* So the picture is the one in which the characters end.
LEMMA ShowsPicture ==
  ASSUME TerminalIsUtf8, NEW p, NEW bytes, NEW q, Shows(p, bytes, q)
  PROVE  Picture(p, bytes) = q /\ bytes \in Seq(Bytes)
<1>1. PICK chars : Text(bytes, chars) /\ Draws(p, chars, q)
  BY DEF Shows
<1> DEFINE n == Len(chars)
           body(f) == [k \in 0 .. n |-> IF k = 0 THEN p ELSE Draw(f[k - 1], chars[k])]
           after == CHOOSE f : f = body(f)
<1>2. n \in Nat /\ bytes \in Seq(Bytes)
  BY <1>1, LenProperties DEF Text
<1>3. Picture(p, bytes) = after[n]
  BY <1>1, TextCharacters DEF Picture
<1>4. PICK drawn : /\ drawn[0] = p /\ drawn[n] = q
                   /\ \A k \in 1 .. n : drawn[k] = Draw(drawn[k - 1], chars[k])
  BY <1>1 DEF Draws
<1>5. after = body(after)
  <2> DEFINE g == [k \in 0 .. n |-> drawn[k]]
  <2>1. ASSUME NEW k \in 0 .. n PROVE g[k] = IF k = 0 THEN p ELSE Draw(g[k - 1], chars[k])
    <3>1. CASE k = 0
      BY <1>4, <3>1
    <3>2. CASE k # 0
      <4>1. k \in 1 .. n /\ k - 1 \in 0 .. n
        BY <1>2, <3>2
      <4> QED BY <1>4, <3>2, <4>1
    <3> QED BY <3>1, <3>2
  <2>2. g = body(g)
    BY <2>1
  <2> HIDE DEF g
  <2> QED BY <2>2
<1> HIDE DEF after
<1> DEFINE Same == {k \in 0 .. n : after[k] = drawn[k]}
<1>6. 0 \in Same
  BY <1>2, <1>4, <1>5
<1>7. ASSUME NEW k \in 1 .. n, k - 1 \in Same PROVE k \in Same
  <2>1. after[k] = Draw(after[k - 1], chars[k]) /\ k \in 0 .. n
    BY <1>2, <1>5
  <2> QED BY <1>4, <1>7, <2>1
<1>8. after[n] = q
  <2>1. \A k \in 0 .. n : k \in Same
    <3> HIDE DEF Same
    <3> QED BY <1>2, <1>6, <1>7, Upward
  <2>2. n \in 0 .. n
    BY <1>2
  <2> QED BY <1>4, <2>1, <2>2
<1> QED BY <1>2, <1>3, <1>8

\* The rows above row r as they are meant to be, line in row r with the cursor
\* behind it, and nothing below.
Upto(r, line) ==
  [rows |-> [i \in 1 .. mConsoleSize.h |->
               IF i < r THEN MeantRow(i) ELSE IF i = r THEN line ELSE <<>>],
   row  |-> r,
   col  |-> Len(line) + 1]

IsPicture(p, rows, row, col) == p = [rows |-> rows, row |-> row, col |-> col]

LEMMA CursorMoves ==
  ASSUME NEW p, NEW rows, NEW row, NEW col, IsPicture(p, rows, row, col), NEW r
  PROVE  MoveTo(p, r) = [rows |-> rows, row |-> r, col |-> 1]
<1> DEFINE q == [p EXCEPT !.row = r]
<1>1. q = [rows |-> rows, row |-> r, col |-> col]
  BY DEF IsPicture
<1> HIDE DEF q
<1>2. [q EXCEPT !.col = 1] = [rows |-> rows, row |-> r, col |-> 1]
  BY <1>1
<1> QED BY <1>2 DEF q, MoveTo

WithRow(p, r, line, col) == [p EXCEPT !.rows[r] = line, !.col = col]

LEMMA RowChanges ==
  ASSUME NEW p, NEW rows, NEW row, NEW col, IsPicture(p, rows, row, col),
         NEW r, NEW line, NEW c
  PROVE  WithRow(p, r, line, c) = [rows |-> [rows EXCEPT ![r] = line], row |-> row, col |-> c]
<1> DEFINE q == [p EXCEPT !.rows[r] = line]
<1>1. q = [rows |-> [rows EXCEPT ![r] = line], row |-> row, col |-> col]
  BY DEF IsPicture
<1> HIDE DEF q
<1>2. [q EXCEPT !.col = c] = [rows |-> [rows EXCEPT ![r] = line], row |-> row, col |-> c]
  BY <1>1
<1> QED BY <1>2 DEF q, WithRow

\* The terminal takes a glyph, a line feed, and a cursor.
LEMMA TakesGlyph ==
  ASSUME TerminalIsUtf8, NEW r \in 1 .. mConsoleSize.h, NEW line \in Seq(Glyphs), NEW c \in Glyphs,
         mConsoleSize.w \in Nat, Len(line) < mConsoleSize.w
  PROVE  Draw(Upto(r, line), c) = Upto(r, Append(line, c))
<1> DEFINE h == mConsoleSize.h
           w == mConsoleSize.w
           l == Len(line)
           p == Upto(r, line)
           more == SubSeq(line, 1, (l + 1) - 1) \o <<c>> \o SubSeq(line, (l + 1) + 1, l)
<1>1. l \in Nat /\ w \in Nat /\ l < w
  BY LenProperties
<1>2. Cells(c) = <<c>> /\ Len(<<c>>) = 1
  BY GlyphCells
<1>3. c # Clears /\ c # <<LF>> /\ ~(c[1] > 256)
  <2>1. c # <<LF>> /\ c[1] <= 127 /\ Len(c) = IF c[1] < 0 THEN 3 ELSE 1
    BY UnitBytes DEF Units
  <2>2. c[1] \in Int
    <3>1. c \in Seq(Bytes) /\ 1 \in 1 .. Len(c)
      BY UnitBytes DEF Units
    <3> QED BY <3>1, ElementOfSeq DEF Bytes
  <2>3. ~(c[1] > 256) /\ c[1] # 256
    <3> DEFINE byte == c[1]
    <3>1. byte \in Int /\ byte <= 127
      BY <2>1, <2>2
    <3> HIDE DEF byte
    <3>2. ~(byte > 256) /\ byte # 256
      BY <3>1
    <3> QED BY <3>2 DEF byte
  <2>4. Clears[1] = 256
    BY DEF Clears
  <2> QED BY <2>1, <2>3, <2>4
<1>4. /\ p.row = r /\ p.col = l + 1 /\ p.rows[r] = line /\ r \in DOMAIN p.rows
      /\ DOMAIN p.rows = 1 .. h
  BY DEF Upto
<1>5. Draw(p, c) = Put(p, c)
  BY <1>3, <1>4 DEF Draw
<1>6. ~((l + 1) + 1 - 1 > w)
  BY <1>1
<1>7. Put(p, c) = WithRow(p, r, more, (l + 1) + 1)
  BY <1>2, <1>4, <1>6 DEF Put, WithRow
<1>8. more = Append(line, c)
  <2>1. SubSeq(line, 1, (l + 1) - 1) = line
    <3>1. (l + 1) - 1 = l
      BY <1>1
    <3> QED BY <3>1, SubSeqFull
  <2>2. SubSeq(line, (l + 1) + 1, l) = <<>>
    BY <1>1, SubSeqEmpty
  <2>3. Append(line, c) = line \o <<c>> /\ line \o <<c>> \in Seq(Glyphs)
    BY AppendIsConcat, AppendProperties
  <2>4. (line \o <<c>>) \o <<>> = line \o <<c>>
    BY <2>3, ConcatEmptySeq
  <2> QED BY <2>1, <2>2, <2>3, <2>4
<1> HIDE DEF more
<1>9. Len(Append(line, c)) = l + 1
  BY AppendProperties
<1>10. WithRow(p, r, Append(line, c), (l + 1) + 1) = Upto(r, Append(line, c))
  <2> DEFINE line2 == Append(line, c)
  <2>1. Len(line2) = l + 1
    BY <1>9
  <2> HIDE DEF line2
  <2>2. IsPicture(p, p.rows, r, l + 1)
    BY DEF Upto, IsPicture
  <2>3. WithRow(p, r, line2, (l + 1) + 1)
          = [rows |-> [p.rows EXCEPT ![r] = line2], row |-> r, col |-> (l + 1) + 1]
    <3> HIDE DEF p, l
    <3> QED BY <2>2, RowChanges
  <2>4. [p.rows EXCEPT ![r] = line2]
          = [i \in 1 .. h |-> IF i < r THEN MeantRow(i) ELSE IF i = r THEN line2 ELSE <<>>]
    <3> DEFINE f == [i \in 1 .. h |-> IF i < r THEN MeantRow(i)
                                      ELSE IF i = r THEN line ELSE <<>>]
    <3>1. p.rows = f
      BY DEF Upto
    <3>2. [f EXCEPT ![r] = line2]
            = [i \in 1 .. h |-> IF i < r THEN MeantRow(i) ELSE IF i = r THEN line2 ELSE <<>>]
      <4>1. \A i \in 1 .. h : [f EXCEPT ![r] = line2][i]
                                = IF i < r THEN MeantRow(i) ELSE IF i = r THEN line2 ELSE <<>>
        OBVIOUS
      <4> QED BY <4>1
    <3> HIDE DEF p, f
    <3> QED BY <3>1, <3>2
  <2>5. Upto(r, line2)
          = [rows |-> [i \in 1 .. h |-> IF i < r THEN MeantRow(i)
                                        ELSE IF i = r THEN line2 ELSE <<>>],
             row |-> r, col |-> (l + 1) + 1]
    BY <2>1 DEF Upto
  <2> HIDE DEF p
  <2> QED BY <2>3, <2>4, <2>5 DEF line2
<1> QED BY <1>5, <1>7, <1>8, <1>10

LEMMA TakesLineFeed ==
  ASSUME NEW r \in 1 .. mConsoleSize.h, mConsoleSize.h \in Nat, r < mConsoleSize.h
  PROVE  Draw(Upto(r, MeantRow(r)), <<LF>>) = Upto(r + 1, <<>>)
<1> DEFINE p == Upto(r, MeantRow(r))
           q == Upto(r + 1, <<>>)
<1>1. /\ p.row = r /\ r \in DOMAIN p.rows /\ DOMAIN p.rows = 1 .. mConsoleSize.h
  BY DEF Upto
<1> DEFINE c == <<LF>>
<1>2. c = <<LF>> /\ c # Clears /\ ~(c[1] > 256)
  <2>1. 10 # 256 /\ ~(10 > 256) /\ <<10>>[1] = 10
    OBVIOUS
  <2> QED BY <2>1 DEF LF, Clears
<1>3. Draw(p, <<LF>>) = NewLine(p)
  <2> HIDE DEF p, c
  <2>1. Draw(p, c) = NewLine(p)
    BY <1>1, <1>2 DEF Draw
  <2> QED BY <2>1 DEF c
<1>4. NewLine(p) = MoveTo(p, r + 1)
  BY <1>1 DEF NewLine
<1>5. p.rows = q.rows
  <2>1. ASSUME NEW i \in 1 .. mConsoleSize.h
        PROVE  (IF i < r THEN MeantRow(i) ELSE IF i = r THEN MeantRow(r) ELSE <<>>)
                 = IF i < r + 1 THEN MeantRow(i) ELSE IF i = r + 1 THEN <<>> ELSE <<>>
    OBVIOUS
  <2> QED BY <2>1 DEF Upto
<1>6. MoveTo(p, r + 1) = [rows |-> p.rows, row |-> r + 1, col |-> 1]
  <2>1. IsPicture(p, p.rows, r, p.col)
    BY DEF Upto, IsPicture
  <2> HIDE DEF p
  <2> QED BY <2>1, CursorMoves
<1>7. q = [rows |-> q.rows, row |-> r + 1, col |-> 1]
  <2>1. Len(<<>>) + 1 = 1
    OBVIOUS
  <2> QED BY <2>1 DEF Upto
<1> QED BY <1>3, <1>4, <1>5, <1>6, <1>7

LEMMA TakesCursor ==
  ASSUME NEW r \in 1 .. mConsoleSize.h, NEW s \in r .. mConsoleSize.h, mConsoleSize.h \in Nat,
         \A i \in r .. s - 1 : MeantRow(i) = <<>>
  PROVE  Draw(Upto(r, <<>>), cursorToLine(s)) = Upto(s, <<>>)
<1> DEFINE p == Upto(r, <<>>)
           q == Upto(s, <<>>)
           c == cursorToLine(s)
<1>0. r \in Nat /\ s \in Nat /\ r > 0 /\ r <= s
  OBVIOUS
<1>1. p.row = r /\ r \in DOMAIN p.rows
  BY DEF Upto
<1>2. c[1] = 256 + s
  BY DEF cursorToLine
<1>3. c # <<LF>> /\ c # Clears /\ c[1] > 256 /\ c[1] - 256 = s
  <2>1. <<LF>>[1] = 10 /\ Clears[1] = 256
    BY DEF LF, Clears
  <2>2. 256 + s > 256 /\ 256 + s # 10 /\ 256 + s # 256 /\ (256 + s) - 256 = s
    BY <1>0
  <2> HIDE DEF c
  <2> QED BY <1>2, <2>1, <2>2
<1> HIDE DEF c
<1>4. Draw(p, c) = MoveTo(p, s)
  BY <1>1, <1>3 DEF Draw
<1>5. p.rows = q.rows
  <2>1. ASSUME NEW i \in 1 .. mConsoleSize.h
        PROVE  (IF i < r THEN MeantRow(i) ELSE IF i = r THEN <<>> ELSE <<>>)
                 = IF i < s THEN MeantRow(i) ELSE IF i = s THEN <<>> ELSE <<>>
    <3>1. i < r \/ i \in r .. s - 1 \/ i >= s
      BY <1>0
    <3> QED BY <1>0, <3>1
  <2> QED BY <2>1 DEF Upto
<1>6. MoveTo(p, s) = [rows |-> p.rows, row |-> s, col |-> 1]
  <2>1. IsPicture(p, p.rows, r, p.col)
    BY DEF Upto, IsPicture
  <2> HIDE DEF p
  <2> QED BY <2>1, CursorMoves
<1>7. q = [rows |-> q.rows, row |-> s, col |-> 1]
  <2>1. Len(<<>>) + 1 = 1
    OBVIOUS
  <2> QED BY <2>1 DEF Upto
<1> QED BY <1>4, <1>5, <1>6, <1>7 DEF c

\* A row is shown glyph by glyph.
LEMMA RowShows ==
  ASSUME TerminalIsUtf8, NEW r \in 1 .. mConsoleSize.h, mConsoleSize.w \in Nat,
         NEW bytes, Row(bytes, MeantRow(r))
  PROVE  Shows(Upto(r, <<>>), bytes, Upto(r, MeantRow(r)))
<1> DEFINE chars == MeantRow(r)
           n == Len(chars)
           after == [k \in 0 .. n |-> Upto(r, SubSeq(chars, 1, k))]
<1>1. Text(bytes, chars) /\ chars \in Seq(Glyphs) /\ n \in Nat /\ n <= mConsoleSize.w
  BY LenProperties DEF Row
<1>2. after[0] = Upto(r, <<>>) /\ after[n] = Upto(r, chars)
  <2>1. SubSeq(chars, 1, 0) = <<>> /\ SubSeq(chars, 1, n) = chars
    BY <1>1, SubSeqEmpty, SubSeqFull
  <2>2. 0 \in 0 .. n /\ n \in 0 .. n
    BY <1>1
  <2> QED BY <2>1, <2>2
<1>3. ASSUME NEW k \in 1 .. n PROVE after[k] = Draw(after[k - 1], chars[k])
  <2> DEFINE line == SubSeq(chars, 1, k - 1)
             c == chars[k]
  <2>1. c \in Glyphs
    BY <1>1, ElementOfSeq
  <2>2. line \in Seq(Glyphs) /\ Len(line) = k - 1
    <3> DEFINE e == k - 1
    <3>1. e \in Nat /\ e <= n
      BY <1>1
    <3>2. \A i \in 1 .. e : chars[i] \in Glyphs
      <4>1. \A i \in 1 .. e : i \in 1 .. n
        BY <1>1, <3>1
      <4> QED BY <1>1, <4>1, ElementOfSeq
    <3> HIDE DEF e, chars
    <3>3. SubSeq(chars, 1, e) \in Seq(Glyphs)
          /\ Len(SubSeq(chars, 1, e)) = IF 1 <= e THEN e - 1 + 1 ELSE 0
      BY <3>1, <3>2, SubSeqProperties
    <3> QED BY <3>1, <3>3 DEF e
  <2>3. SubSeq(chars, 1, k) = Append(line, c)
    <3>1. 1 \in 1 .. n /\ k \in 1 .. n
      BY <1>1
    <3>2. SubSeq(chars, 1, k) = line \o <<c>>
      BY <1>1, <3>1, SubSeqRecursiveSecond
    <3> QED BY <2>1, <2>2, <3>2, AppendIsConcat
  <2>4. Len(line) < mConsoleSize.w
    BY <1>1, <2>2
  <2>5. after[k] = Upto(r, Append(line, c)) /\ after[k - 1] = Upto(r, line)
    <3>1. k \in 0 .. n /\ k - 1 \in 0 .. n
      BY <1>1
    <3> QED BY <2>3, <3>1
  <2> HIDE DEF line, c, after
  <2>6. Draw(Upto(r, line), c) = Upto(r, Append(line, c))
    BY <2>1, <2>2, <2>4, TakesGlyph
  <2> QED BY <2>5, <2>6 DEF c
<1> HIDE DEF after, chars
<1>4. Draws(Upto(r, <<>>), chars, Upto(r, chars))
  BY <1>2, <1>3 DEF Draws
<1>5. Shows(Upto(r, <<>>), bytes, Upto(r, chars))
  BY <1>1, <1>4 DEF Shows
<1> QED BY <1>5 DEF chars

LEMMA LineFeedIsUnit == <<LF>> \in Units /\ \A n \in Nat : cursorToLine(n) \in Units
BY DEF Units, Controls, cursorToLine

LEMMA RowEnds ==
  ASSUME TerminalIsUtf8, mConsoleSize.h \in Nat, mConsoleSize.w \in Nat,
         NEW r \in 1 .. mConsoleSize.h, r < mConsoleSize.h, NEW bytes, Row(bytes, MeantRow(r))
  PROVE  Shows(Upto(r, <<>>), bytes \o <<LF>>, Upto(r + 1, <<>>))
<1>1. Shows(Upto(r, <<>>), bytes, Upto(r, MeantRow(r)))
  BY RowShows
<1>2. Shows(Upto(r, MeantRow(r)), <<LF>>, Draw(Upto(r, MeantRow(r)), <<LF>>))
  BY LineFeedIsUnit, ShowsUnit
<1>3. Draw(Upto(r, MeantRow(r)), <<LF>>) = Upto(r + 1, <<>>)
  BY TakesLineFeed
<1> QED BY <1>1, <1>2, <1>3, ShowsMore

\* The application shows text of ASCII characters and, as content, of glyphs.
Legible(str) == \E chars \in Seq(Glyphs) : Text(str, chars)

ShownIsLegible ==
  /\ mHeader \in Seq(Plain) /\ mFooter \in Seq(Plain) /\ mPromptBuffer \in Seq(Plain)
  /\ \E T : mContentBuffer \in Seq(T)
  /\ \A i \in 1 .. Len(mContentBuffer) : Legible(mContentBuffer[i])
  /\ mConsoleSize.h \in Nat /\ mConsoleSize.w \in Nat

LargeEnough ==
  /\ ~(mConsoleSize.h < MinHeight \/ mConsoleSize.w < MinWidth)
  /\ mConsoleSize.h > 3 /\ mConsoleSize.w > 12

Lines == Fewer(mConsoleSize.h - 3, Len(mContentBuffer))

\* What is meant to be in which row of a window that is large enough.
LEMMA MeantRows ==
  ASSUME ShownIsLegible, LargeEnough
  PROVE  /\ Lines \in 0 .. mConsoleSize.h - 3 /\ Lines <= Len(mContentBuffer)
         /\ MeantRow(1) = MeantBar(mHeader)
         /\ MeantRow(mConsoleSize.h - 1) = MeantBar(mFooter)
         /\ MeantRow(mConsoleSize.h) = MeantPrompt
         /\ \A k \in 1 .. Lines : MeantRow(k + 1) = MeantLine(Last(mContentBuffer, Lines)[k])
         /\ \A r \in Lines + 2 .. mConsoleSize.h - 2 : MeantRow(r) = <<>>
<1> DEFINE h == mConsoleSize.h
           small == h < MinHeight \/ mConsoleSize.w < MinWidth
<1>1. h \in Nat /\ h > 3 /\ ~small /\ Len(mContentBuffer) \in Nat
  BY LenProperties DEF ShownIsLegible, LargeEnough
<1>2. Lines \in 0 .. h - 3 /\ Lines <= Len(mContentBuffer)
  BY <1>1 DEF Lines, Fewer
<1>3. ASSUME NEW r
      PROVE  MeantRow(r) = CASE r = 1                -> MeantBar(mHeader)
                             [] r = h - 1            -> MeantBar(mFooter)
                             [] r = h                -> MeantPrompt
                             [] r \in 2 .. Lines + 1 ->
                                  MeantLine(Last(mContentBuffer, Lines)[r - 1])
                             [] OTHER                -> <<>>
  BY <1>1 DEF MeantRow, Lines
<1> HIDE DEF small, h
<1>4. MeantRow(1) = MeantBar(mHeader)
  <2>1. 1 # h - 1 /\ 1 # h /\ 1 \notin 2 .. Lines + 1
    BY <1>1, <1>2
  <2> QED BY <1>1, <1>3, <2>1
<1>5. MeantRow(h - 1) = MeantBar(mFooter)
  <2>1. h - 1 # 1 /\ h - 1 # h /\ h - 1 \notin 2 .. Lines + 1
    BY <1>1, <1>2
  <2> QED BY <1>1, <1>3, <2>1
<1>6. MeantRow(h) = MeantPrompt
  <2>1. h # 1 /\ h # h - 1 /\ h \notin 2 .. Lines + 1
    BY <1>1, <1>2
  <2> QED BY <1>1, <1>3, <2>1
<1>7. ASSUME NEW k \in 1 .. Lines PROVE MeantRow(k + 1) = MeantLine(Last(mContentBuffer, Lines)[k])
  <2>1. k + 1 # 1 /\ k + 1 # h - 1 /\ k + 1 # h /\ k + 1 \in 2 .. Lines + 1 /\ (k + 1) - 1 = k
    BY <1>1, <1>2
  <2> QED BY <1>1, <1>3, <2>1
<1>8. ASSUME NEW r \in Lines + 2 .. h - 2 PROVE MeantRow(r) = <<>>
  <2>1. r # 1 /\ r # h - 1 /\ r # h /\ r \notin 2 .. Lines + 1
    BY <1>1, <1>2
  <2> QED BY <1>1, <1>3, <2>1
<1> QED BY <1>2, <1>4, <1>5, <1>6, <1>7, <1>8 DEF h

\* The lines of content, one below the other.
LEMMA ContentShows ==
  ASSUME TerminalIsUtf8, ShownIsLegible, LargeEnough
  PROVE  Shows(Upto(2, <<>>), appendContent, Upto(Lines + 2, <<>>))
<1> DEFINE h == mConsoleSize.h
           n == Lines
           visible == Last(mContentBuffer, n)
           seqs == [i \in DOMAIN visible |-> ContentLine(visible[i])]
<1>1. /\ h \in Nat /\ h > 3 /\ n \in 0 .. h - 3 /\ n <= Len(mContentBuffer)
      /\ \A k \in 1 .. n : MeantRow(k + 1) = MeantLine(visible[k])
  BY MeantRows DEF ShownIsLegible, LargeEnough
<1>2. DOMAIN visible = 1 .. n /\ \A k \in 1 .. n : Legible(visible[k])
  <2>1. PICK T : mContentBuffer \in Seq(T)
    BY DEF ShownIsLegible
  <2> DEFINE m == Len(mContentBuffer)
             from == m - n + 1
             last == SubSeq(mContentBuffer, from, m)
  <2>2. m \in Nat /\ n \in Nat /\ n <= m
    BY <1>1, <2>1, LenProperties
  <2> HIDE DEF n
  <2>3. \A i \in from .. m : i \in 1 .. m /\ mContentBuffer[i] \in T
    <3>1. \A i \in from .. m : i \in 1 .. m
      BY <2>2
    <3> QED BY <2>1, <3>1, ElementOfSeq
  <2>4. /\ last \in Seq(T) /\ Len(last) = IF from <= m THEN m - from + 1 ELSE 0
        /\ \A k \in 1 .. m - from + 1 : last[k] = mContentBuffer[from + k - 1]
    BY <2>2, <2>3, SubSeqProperties
  <2>5. (IF from <= m THEN m - from + 1 ELSE 0) = n /\ m - from + 1 = n
        /\ \A k \in 1 .. n : from + k - 1 \in 1 .. m
    BY <2>2
  <2>6. visible = last
    BY DEF Last
  <2> HIDE DEF last, from, visible
  <2>7. DOMAIN last = 1 .. n
    BY <2>4, <2>5, LenProperties
  <2>8. \A k \in 1 .. n : Legible(last[k])
    BY <2>4, <2>5 DEF ShownIsLegible
  <2> QED BY <2>6, <2>7, <2>8 DEF n
<1>3. appendContent = S!FlattenSeq(seqs)
  BY DEF appendContent, Lines
<1>4. ASSUME NEW k \in 1 .. n
      PROVE  /\ ContentLine(visible[k]) \in Seq(Bytes)
             /\ Shows(Upto(k + 1, <<>>), ContentLine(visible[k]), Upto(k + 2, <<>>))
  <2>1. PICK chars \in Seq(Glyphs) : Text(visible[k], chars)
    BY <1>2 DEF Legible
  <2>2. PICK bytes : /\ ContentLine(visible[k]) = bytes \o <<LF>>
                     /\ Row(bytes, MeantLine(visible[k]))
    BY <2>1, LineShows DEF ShownIsLegible, LargeEnough
  <2>3. Row(bytes, MeantRow(k + 1))
    BY <1>1, <2>2
  <2>4. k + 1 \in 1 .. h /\ k + 1 < h /\ (k + 1) + 1 = k + 2
    BY <1>1
  <2>5. Shows(Upto(k + 1, <<>>), bytes \o <<LF>>, Upto((k + 1) + 1, <<>>))
    BY <2>3, <2>4, RowEnds DEF ShownIsLegible
  <2>6. bytes \o <<LF>> \in Seq(Bytes)
    BY <2>5, ShowsPicture
  <2> QED BY <2>2, <2>4, <2>5, <2>6
<1> HIDE DEF visible, n
<1>5. seqs \in Seq(Seq(Bytes)) /\ Len(seqs) = n /\ \A k \in 1 .. n : seqs[k] = ContentLine(visible[k])
  <2>1. seqs = [k \in 1 .. n |-> ContentLine(visible[k])] /\ n \in Nat
    BY <1>1, <1>2
  <2> HIDE DEF seqs
  <2> QED BY <1>4, <2>1
<1> HIDE DEF seqs
<1>6. PICK f \in [0 .. n -> Seq(Bytes)] :
        /\ f[0] = <<>> /\ S!FlattenSeq(seqs) = f[n]
        /\ \A k \in 1 .. n : f[k] = f[k - 1] \o seqs[k]
  <2>1. \E f \in [0 .. Len(seqs) -> Seq(Bytes)] :
          /\ f[0] = <<>> /\ S!FlattenSeq(seqs) = f[Len(seqs)]
          /\ \A k \in 1 .. Len(seqs) : f[k] = f[k - 1] \o seqs[k]
    BY <1>5, Flattening
  <2> QED BY <1>5, <2>1
<1> DEFINE Shown == {k \in 0 .. n : Shows(Upto(2, <<>>), f[k], Upto(k + 2, <<>>))}
<1>7. 0 \in Shown
  <2>1. 0 + 2 = 2 /\ 0 \in 0 .. n
    BY <1>1
  <2> QED BY <1>6, <2>1, ShowsNothing
<1>8. ASSUME NEW k \in 1 .. n, k - 1 \in Shown PROVE k \in Shown
  <2>1. (k - 1) + 2 = k + 1 /\ k \in 0 .. n
    BY <1>1
  <2>2. Shows(Upto(2, <<>>), f[k - 1], Upto(k + 1, <<>>))
    BY <1>8, <2>1
  <2>3. Shows(Upto(k + 1, <<>>), seqs[k], Upto(k + 2, <<>>))
    BY <1>4, <1>5
  <2>4. f[k] = f[k - 1] \o seqs[k]
    BY <1>6
  <2>5. Shows(Upto(2, <<>>), f[k - 1] \o seqs[k], Upto(k + 2, <<>>))
    BY <2>2, <2>3, ShowsMore
  <2> QED BY <2>1, <2>4, <2>5
<1>9. \A k \in 0 .. n : k \in Shown
  <2>1. n \in Nat
    BY <1>1
  <2> HIDE DEF Shown
  <2> QED BY <1>7, <1>8, <2>1, Upward
<1>10. Shows(Upto(2, <<>>), f[n], Upto(n + 2, <<>>))
  <2>1. n \in 0 .. n
    BY <1>1
  <2> QED BY <1>9, <2>1
<1> QED BY <1>3, <1>6, <1>10 DEF n

\* The cursor goes down over rows that are to stay empty.
LEMMA CursorShows ==
  ASSUME TerminalIsUtf8, mConsoleSize.h \in Nat,
         NEW r \in 1 .. mConsoleSize.h, NEW s \in r .. mConsoleSize.h,
         \A i \in r .. s - 1 : MeantRow(i) = <<>>
  PROVE  Shows(Upto(r, <<>>), cursorToLine(s), Upto(s, <<>>))
<1>1. s \in Nat
  OBVIOUS
<1>2. Shows(Upto(r, <<>>), cursorToLine(s), Draw(Upto(r, <<>>), cursorToLine(s)))
  BY <1>1, LineFeedIsUnit, ShowsUnit
<1>3. Draw(Upto(r, <<>>), cursorToLine(s)) = Upto(s, <<>>)
  BY TakesCursor
<1> QED BY <1>2, <1>3

\* The screen is cleared.
LEMMA ClearsShow ==
  ASSUME TerminalIsUtf8
  PROVE  Shows(Blank, Clears, Blank)
<1>1. Clears \in Units
  <2>1. Clears = <<256 + 0>> /\ 0 \in Nat
    BY DEF Clears
  <2> QED BY <2>1 DEF Units, Controls
<1>2. Draw(Blank, Clears) = Blank
  <2> DEFINE c == Clears
  <2>1. c = Clears /\ c # <<LF>> /\ ~(c[1] > 256)
    <3>1. 256 # 10 /\ ~(256 > 256) /\ <<256>>[1] = 256
      OBVIOUS
    <3> QED BY <3>1 DEF Clears, LF
  <2> HIDE DEF c
  <2>2. Draw(Blank, c) = Blank
    BY <2>1 DEF Draw
  <2> QED BY <2>1, <2>2
<1> QED BY <1>1, <1>2, ShowsUnit

\* The frame, from its first byte to its last.
LEMMA FrameShows ==
  ASSUME TerminalIsUtf8, ShownIsLegible, LargeEnough
  PROVE  Shows(Blank, renderScreenString, Upto(mConsoleSize.h, MeantRow(mConsoleSize.h)))
<1> DEFINE h == mConsoleSize.h
           w == mConsoleSize.w
           end == Last(mPromptBuffer, Fewer(w - 11, Len(mPromptBuffer)))
           q == Upto(h, MeantRow(h))
<1>1. /\ h \in Nat /\ h > 3 /\ w \in Nat /\ w > 12 /\ w \in Nat \ {0}
      /\ mHeader \in Seq(Plain) /\ mFooter \in Seq(Plain) /\ mPromptBuffer \in Seq(Plain)
  BY DEF ShownIsLegible, LargeEnough
<1>2. /\ Lines \in 0 .. h - 3
      /\ MeantRow(1) = MeantBar(mHeader) /\ MeantRow(h - 1) = MeantBar(mFooter)
      /\ MeantRow(h) = MeantPrompt
      /\ \A r \in Lines + 2 .. h - 2 : MeantRow(r) = <<>>
  BY MeantRows
<1>3. Shows(Upto(1, <<>>), appendHeader, Upto(2, <<>>))
  <2>1. Row(Bar(mHeader), MeantRow(1))
    BY <1>1, <1>2, BarShows
  <2>2. 1 \in 1 .. h /\ 1 < h /\ 1 + 1 = 2
    BY <1>1
  <2>3. Shows(Upto(1, <<>>), Bar(mHeader) \o <<LF>>, Upto(1 + 1, <<>>))
    BY <1>1, <2>1, <2>2, RowEnds
  <2> QED BY <2>2, <2>3 DEF appendHeader
<1>4. Shows(Upto(2, <<>>), appendContent, Upto(Lines + 2, <<>>))
  BY ContentShows
<1>5. Shows(Upto(Lines + 2, <<>>), appendFooter, Upto(h, <<>>))
  <2> DEFINE r == Lines + 2
             s == h - 1
  <2>1. r \in 1 .. h /\ s \in r .. h /\ s - 1 = h - 2 /\ s \in 1 .. h /\ s < h /\ s + 1 = h
    BY <1>1, <1>2
  <2>2. Row(Bar(mFooter), MeantRow(s))
    BY <1>1, <1>2, BarShows
  <2>3. \A i \in r .. s - 1 : MeantRow(i) = <<>>
    BY <1>2, <2>1
  <2> HIDE DEF r, s
  <2>4. Shows(Upto(r, <<>>), cursorToLine(s), Upto(s, <<>>))
    BY <1>1, <2>1, <2>3, CursorShows
  <2>5. Shows(Upto(s, <<>>), Bar(mFooter), Upto(s, MeantRow(s)))
    BY <1>1, <2>1, <2>2, RowShows
  <2>6. Shows(Upto(s, MeantRow(s)), <<LF>>, Draw(Upto(s, MeantRow(s)), <<LF>>))
    BY LineFeedIsUnit, ShowsUnit
  <2>7. Draw(Upto(s, MeantRow(s)), <<LF>>) = Upto(s + 1, <<>>)
    BY <1>1, <2>1, TakesLineFeed
  <2>8. Shows(Upto(r, <<>>), cursorToLine(s) \o Bar(mFooter), Upto(s, MeantRow(s)))
    BY <2>4, <2>5, ShowsMore
  <2>9. Shows(Upto(r, <<>>), (cursorToLine(s) \o Bar(mFooter)) \o <<LF>>, Upto(s + 1, <<>>))
    BY <2>6, <2>7, <2>8, ShowsMore
  <2> QED BY <2>1, <2>9 DEF appendFooter, r, s
<1>6. Shows(Upto(h, <<>>), appendPrompt, q)
  <2>1. end \in Seq(Plain) /\ Row(Status \o end, MeantRow(h))
    BY <1>1, <1>2, PromptShows
  <2>2. h \in 1 .. h /\ h \in h .. h /\ \A i \in h .. h - 1 : MeantRow(i) = <<>>
    BY <1>1
  <2> HIDE DEF end
  <2>3. Shows(Upto(h, <<>>), cursorToLine(h), Upto(h, <<>>))
    BY <1>1, <2>2, CursorShows
  <2>4. Shows(Upto(h, <<>>), Status \o end, q)
    BY <1>1, <2>1, <2>2, RowShows
  <2>5. Shows(Upto(h, <<>>), cursorToLine(h) \o (Status \o end), q)
    BY <2>3, <2>4, ShowsMore
  <2>6. (cursorToLine(h) \o Status) \o end = cursorToLine(h) \o (Status \o end)
    <3> DEFINE a == cursorToLine(h)
    <3>1. Plain \subseteq Int
      BY DEF Plain
    <3>2. Status \in Seq(Int) /\ end \in Seq(Int)
      BY <2>1, <3>1, Constants, SeqMonotonic
    <3>3. a \in Seq(Int)
      BY <1>1 DEF cursorToLine
    <3> HIDE DEF a
    <3>4. (a \o Status) \o end = a \o (Status \o end)
      BY <3>2, <3>3, ConcatAssociative
    <3> QED BY <3>4 DEF a
  <2> QED BY <2>5, <2>6 DEF appendPrompt, end
<1>7. Blank = Upto(1, <<>>)
  <2>1. \A i \in 1 .. h : (IF i < 1 THEN MeantRow(i) ELSE IF i = 1 THEN <<>> ELSE <<>>) = <<>>
    BY <1>1
  <2>2. Len(<<>>) + 1 = 1
    OBVIOUS
  <2> QED BY <2>1, <2>2 DEF Blank, Upto
<1>8. Shows(Blank, Clears, Upto(1, <<>>))
  BY <1>7, ClearsShow
<1>9. renderScreenString = Clears \o (((appendHeader \o appendContent) \o appendFooter) \o appendPrompt)
  BY DEF renderScreenString, LargeEnough
<1> HIDE DEF h, q
<1>10. Shows(Upto(1, <<>>), appendHeader \o appendContent, Upto(Lines + 2, <<>>))
  BY <1>3, <1>4, ShowsMore
<1>11. Shows(Upto(1, <<>>), (appendHeader \o appendContent) \o appendFooter, Upto(h, <<>>))
  BY <1>5, <1>10, ShowsMore
<1>12. Shows(Upto(1, <<>>), ((appendHeader \o appendContent) \o appendFooter) \o appendPrompt, q)
  BY <1>6, <1>11, ShowsMore
<1>13. Shows(Blank, renderScreenString, q)
  BY <1>8, <1>9, <1>12, ShowsMore
<1> QED BY <1>13 DEF q, h

\* Refresh writes the whole frame: no byte of it is zero.
LEMMA WrittenWhole ==
  ASSUME renderScreenString \in Seq(Bytes)
  PROVE  Written = renderScreenString
<1> DEFINE frame == renderScreenString
           zeros == {i \in DOMAIN frame : frame[i] = 0}
<1>1. zeros = {}
  <2> SUFFICES ASSUME NEW i \in DOMAIN frame PROVE frame[i] # 0
    OBVIOUS
  <2>1. i \in 1 .. Len(frame)
    BY LenProperties
  <2>2. frame[i] \in Bytes
    BY <2>1, ElementOfSeq
  <2> QED BY <2>2 DEF Bytes
<1>2. Written = IF zeros = {} THEN frame
                ELSE SubSeq(frame, 1, (CHOOSE i \in zeros : \A j \in zeros : i <= j) - 1)
  BY DEF Written
<1> HIDE DEF zeros, frame
<1>3. Written = frame
  BY <1>1, <1>2
<1> QED BY <1>3 DEF frame

LEMMA LegibleIsShown ==
  ASSUME TerminalIsUtf8, ShownIsLegible
  PROVE  ScreenShowsTheDisplay
<1> DEFINE h == mConsoleSize.h
<1>0. h \in Nat /\ mConsoleSize.w \in Nat
  BY DEF ShownIsLegible
<1>1. CASE mConsoleSize.h < MinHeight \/ mConsoleSize.w < MinWidth
  <2>1. renderScreenString = Clears
    <3>1. Clears \o <<>> = Clears
      BY DEF Clears
    <3> QED BY <1>1, <3>1 DEF renderScreenString
  <2>2. Picture(Blank, Clears) = Blank /\ Clears \in Seq(Bytes)
    BY ClearsShow, ShowsPicture
  <2>3. Picture(Blank, Written) = Blank
    BY <2>1, <2>2, WrittenWhole
  <2>4. \A r \in 1 .. h : MeantRow(r) = <<>>
    BY <1>1 DEF MeantRow
  <2>5. Blank.rows = [r \in 1 .. h |-> <<>>]
    BY DEF Blank
  <2> QED BY <2>3, <2>4, <2>5 DEF ScreenShowsTheDisplay
<1>2. CASE ~(mConsoleSize.h < MinHeight \/ mConsoleSize.w < MinWidth)
  <2> DEFINE q == Upto(h, MeantRow(h))
  <2>1. LargeEnough
    BY <1>0, <1>2, ConsoleLayoutAssumption DEF LargeEnough
  <2>2. Shows(Blank, renderScreenString, q)
    BY <2>1, FrameShows
  <2>3. Picture(Blank, renderScreenString) = q /\ renderScreenString \in Seq(Bytes)
    BY <2>2, ShowsPicture
  <2>4. Picture(Blank, Written) = q
    BY <2>3, WrittenWhole
  <2>5. q.rows = [r \in 1 .. h |-> MeantRow(r)]
    <3>1. \A i \in 1 .. h : (IF i < h THEN MeantRow(i) ELSE IF i = h THEN MeantRow(h) ELSE <<>>)
                              = MeantRow(i)
      <4>1. \A i \in 1 .. h : i < h \/ i = h
        BY <1>0
      <4> QED BY <4>1
    <3> QED BY <3>1 DEF Upto
  <2> QED BY <2>4, <2>5 DEF ScreenShowsTheDisplay
<1> QED BY <1>1, <1>2

\* What the application shows and the user types, and what of it there is.
LegibleTexts == {str \in Seq(Bytes) : Legible(str)}

LinesAreLegible ==
  /\ TerminalIsUtf8
  /\ Texts \subseteq Seq(Plain) /\ Typed \subseteq Seq(Plain)
  /\ Contents \subseteq LegibleTexts

LegibleInv ==
  /\ mHeader \in Seq(Plain) /\ mFooter \in Seq(Plain) /\ mPromptBuffer \in Seq(Plain)
  /\ mContentBuffer \in Seq(LegibleTexts)
  /\ mConsoleSize \in Sizes

LEMMA LegiblePushes ==
  ASSUME LegibleInv, NEW str \in LegibleTexts, PushContent(str)
  PROVE  mContentBuffer' \in Seq(LegibleTexts)
<1> DEFINE more == Append(mContentBuffer, str)
<1>1. more \in Seq(LegibleTexts) /\ more # <<>>
  BY AppendProperties DEF LegibleInv
<1> HIDE DEF more
<1>2. Tail(more) \in Seq(LegibleTexts)
  BY <1>1, HeadTailProperties
<1>3. mContentBuffer' \in {more, Tail(more)}
  BY DEF PushContent, Trimmed, more
<1> QED BY <1>1, <1>2, <1>3

LEMMA LegibleNext ==
  LinesAreLegible /\ LegibleInv /\ [LayoutNext]_layoutVars => LegibleInv'
<1> SUFFICES ASSUME LinesAreLegible, LegibleInv, [LayoutNext]_layoutVars PROVE LegibleInv'
  OBVIOUS
<1>1. CASE Setting
  BY <1>1 DEF Setting, LinesAreLegible, LegibleInv, bufferVars
<1>2. CASE Content
  <2>1. UNCHANGED <<mHeader, mFooter, mPromptBuffer, mConsoleSize>>
    BY <1>2 DEF Content, settings
  <2>2. ASSUME NEW str \in Contents, PushContent(str) PROVE LegibleInv'
    <3>1. str \in LegibleTexts
      BY DEF LinesAreLegible
    <3> QED BY <2>1, <2>2, <3>1, LegiblePushes DEF LegibleInv
  <2>3. CASE Clear
    BY <2>1, <2>3 DEF Clear, LegibleInv
  <2>4. ASSUME NEW capacity \in Capacities, SetContentBufferCapacity(capacity) PROVE LegibleInv'
    BY <2>1, <2>4 DEF SetContentBufferCapacity, LegibleInv
  <2>5. ASSUME NEW other \in Others, Assign(other) PROVE LegibleInv'
    <3>1. other.lines \in Seq(Contents) /\ mContentBuffer' = other.lines
      BY <2>5, DisplayBufferAssumption DEF Assign
    <3>2. other.lines \in Seq(LegibleTexts)
      BY <3>1, SeqMonotonic DEF LinesAreLegible
    <3> QED BY <2>1, <3>1, <3>2 DEF LegibleInv
  <2> QED BY <1>2, <2>2, <2>3, <2>4, <2>5 DEF Content, Next
<1>3. ASSUME NEW char \in Typed, Grows(char) PROVE LegibleInv'
  <2>1. mPromptBuffer \o char \in Seq(Plain)
    BY ConcatProperties DEF LinesAreLegible, LegibleInv
  <2> QED BY <1>3, <2>1 DEF Grows, LegibleInv, bufferVars, settings
<1>4. CASE Erases
  <2>1. mPromptBuffer' \in Seq(Plain)
    <3> DEFINE n == Len(mPromptBuffer) - 1
    <3>1. mPromptBuffer \in Seq(Plain) /\ n \in Nat /\ n <= Len(mPromptBuffer)
      BY <1>4, EmptySeq DEF Erases, LegibleInv
    <3>2. SubSeq(mPromptBuffer, 1, n) \in Seq(Plain)
      <4> HIDE DEF n
      <4> QED BY <3>1, PlainPart
    <3> QED BY <1>4, <3>2 DEF Erases
  <2> QED BY <1>4, <2>1 DEF Erases, LegibleInv, bufferVars, settings
<1>5. CASE Ends
  <2>1. mPromptBuffer' = <<>> /\ <<>> \in Seq(Plain) /\ UNCHANGED <<settings, mConsoleSize>>
    BY <1>5 DEF Ends
  <2>2. CASE Echoing
    <3>1. PushContent(mPromptBuffer)
      BY <1>5, <2>2 DEF Ends
    <3>2. mPromptBuffer \in LegibleTexts
      <4>1. Text(mPromptBuffer, Ones(mPromptBuffer)) /\ Ones(mPromptBuffer) \in Seq(Glyphs)
        BY TextOfPlain DEF LegibleInv
      <4> QED BY <4>1 DEF LegibleTexts, Legible, Text
    <3> QED BY <2>1, <3>1, <3>2, LegiblePushes DEF LegibleInv, settings
  <2>3. CASE ~Echoing
    BY <1>5, <2>1, <2>3 DEF Ends, LegibleInv, bufferVars, settings
  <2> QED BY <2>2, <2>3
<1>6. CASE updateConsoleSize
  BY <1>6 DEF updateConsoleSize, LegibleInv, bufferVars, settings
<1>7. CASE UNCHANGED layoutVars
  BY <1>7 DEF layoutVars, LegibleInv, bufferVars, settings
<1> QED BY <1>1, <1>2, <1>3, <1>4, <1>5, <1>6, <1>7 DEF LayoutNext

\* The terminal shows the rows that are meant, in a window of any size, whatever
\* is pushed, cleared, assigned, set, typed, erased and resized in any order, for
\* an application that shows text of glyphs and a user who types ASCII.
THEOREM ScreenCorrect == LinesAreLegible => (LayoutSpec => []ScreenShowsTheDisplay)
<1> SUFFICES ASSUME LinesAreLegible PROVE LayoutSpec => []ScreenShowsTheDisplay
  OBVIOUS
<1>1. LayoutInit => LegibleInv
  BY DEF LayoutInit, Init, LegibleInv, LinesAreLegible
<1>2. LegibleInv /\ [LayoutNext]_layoutVars => LegibleInv'
  BY LegibleNext
<1>3. LegibleInv => ScreenShowsTheDisplay
  <2> SUFFICES ASSUME LegibleInv PROVE ScreenShowsTheDisplay
    OBVIOUS
  <2>1. \A i \in 1 .. Len(mContentBuffer) : Legible(mContentBuffer[i])
    BY ElementOfSeq DEF LegibleInv, LegibleTexts
  <2>2. mConsoleSize.h \in Nat /\ mConsoleSize.w \in Nat
    BY ConsoleLayoutAssumption DEF LegibleInv
  <2>3. ShownIsLegible
    BY <2>1, <2>2 DEF ShownIsLegible, LegibleInv
  <2> QED BY <2>3, LegibleIsShown DEF LinesAreLegible
<1> QED BY <1>1, <1>2, <1>3, PTL DEF LayoutSpec
=============================================================================
