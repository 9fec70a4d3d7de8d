------------------------- MODULE HttpMessagesProofs -------------------------
(***************************************************************************)
(* Proofs about HttpMessages for any messages, any cuts of the stream and  *)
(* any sizes of the buffers.  A text is known by its parts: where the      *)
(* messages are in the stream, the lines in a message, and so where the    *)
(* loop of get_input_http_info is when it has read from the begin of a     *)
(* message on.  What FlattenSeq, Min and Max compute is proved first.      *)
(***************************************************************************)
EXTENDS HttpMessages, FiniteSetTheorems, SequenceTheorems, WellFoundedInduction, TLAPS

-----------------------------------------------------------------------------
(* Least numbers, texts and their parts.                                   *)

\* A set of numbers that is not empty has a least one.
LEMMA LeastNumber ==
  ASSUME NEW S \in SUBSET Nat, S # {}
  PROVE  Min(S) \in S /\ \A y \in S : Min(S) <= y
<1> DEFINE less == {p \in Nat \X Nat : p[1] < p[2]}
<1>1. IsWellFoundedOn(less, Nat)
  BY NatLessThanWellFounded, Zenon DEF OpToRel
<1>2. \E x \in S : \A y \in S : ~(<<y, x>> \in less)
  <2> HIDE DEF less
  <2>1. QED
    BY <1>1, WFMin, Zenon
<1>3. PICK x \in S : \A y \in S : ~(<<y, x>> \in less)
  BY <1>2
<1>4. ASSUME NEW y \in S
      PROVE  x <= y
  <2>1. x \in Nat /\ y \in Nat /\ <<y, x>> \notin less
    BY <1>3
  <2>2. ~(y < x)
    BY <2>1
  <2>3. QED
    BY <2>1, <2>2
<1>5. QED
  BY <1>4 DEF Min

\* The parts of a text put together, prefix by prefix.
Joined(seqs, n) == FlattenSeq(SubSeq(seqs, 1, n))
Off(seqs, n)    == Len(Joined(seqs, n))

\* The function that defines FlattenSeq exists.
LEMMA FlattenExists ==
  ASSUME NEW S, NEW seqs \in Seq(Seq(S)), NEW n \in 0..Len(seqs)
  PROVE  \E f : f = [i \in 1..n |-> IF i = 1 THEN seqs[i] ELSE f[i-1] \o seqs[i]]
<1> DEFINE Good(m) == \E f : f = [i \in 1..m |-> IF i = 1 THEN seqs[i] ELSE f[i-1] \o seqs[i]]
           Bad     == {m \in 0..Len(seqs) : ~Good(m)}
<1>0. Len(seqs) \in Nat
  OBVIOUS
<1>1. SUFFICES ASSUME Bad # {} PROVE FALSE
  OBVIOUS
<1>2. PICK m \in Bad : \A y \in Bad : m <= y
  <2> HIDE DEF Good
  <2>1. Bad \in SUBSET Nat
    BY <1>0
  <2> HIDE DEF Bad
  <2>2. QED
    BY <1>1, <2>1, LeastNumber
<1>3. m \in 0..Len(seqs) /\ ~Good(m) /\ m \in Nat
  <2> HIDE DEF Good
  <2>1. QED
    BY <1>0, <1>2
<1>4. CASE m = 0
  <2>1. << >> = [i \in 1..0 |-> IF i = 1 THEN seqs[i] ELSE << >>[i-1] \o seqs[i]]
    OBVIOUS
  <2>2. QED
    BY <1>3, <1>4, <2>1
<1>5. CASE m > 0
  <2>1. m - 1 \in 0..Len(seqs) /\ m - 1 \notin Bad
    <3> HIDE DEF Good
    <3>1. QED
      BY <1>2, <1>3, <1>5
  <2>2. Good(m - 1)
    <3> HIDE DEF Good
    <3>1. QED
      BY <2>1
  <2>3. PICK f : f = [i \in 1..(m-1) |-> IF i = 1 THEN seqs[i] ELSE f[i-1] \o seqs[i]]
    BY <2>2
  <2> DEFINE e == [i \in 1..m |-> IF i = m THEN (IF m = 1 THEN seqs[1] ELSE f[m-1] \o seqs[m]) ELSE f[i]]
  <2>4. ASSUME NEW i \in 1..m
        PROVE  e[i] = IF i = 1 THEN seqs[i] ELSE e[i-1] \o seqs[i]
    <3>1. CASE i = m
      BY <1>3, <1>5, <3>1
    <3>2. CASE i # m
      <4>1. i \in 1..(m-1) /\ (i # 1 => i - 1 \in 1..m /\ i - 1 # m)
        BY <1>3, <3>2
      <4>2. e[i] = f[i] /\ (i # 1 => e[i-1] = f[i-1])
        BY <3>2, <4>1
      <4> HIDE DEF e
      <4>3. f[i] = IF i = 1 THEN seqs[i] ELSE f[i-1] \o seqs[i]
        BY <2>3, <4>1
      <4>4. QED
        BY <4>2, <4>3
    <3>3. QED
      BY <3>1, <3>2
  <2>5. e = [i \in 1..m |-> IF i = 1 THEN seqs[i] ELSE e[i-1] \o seqs[i]]
    <3>1. e = [i \in 1..m |-> e[i]]
      OBVIOUS
    <3> HIDE DEF e
    <3>2. QED
      BY <2>4, <3>1
  <2> HIDE DEF e
  <2>6. QED
    BY <1>3, <2>5
<1>6. QED
  BY <1>3, <1>4, <1>5

\* f puts the first n parts together, as the definition of FlattenSeq says.
Flattens(f, seqs, n) ==
  \A i \in 1..n : f[i] = IF i = 1 THEN seqs[i] ELSE f[i-1] \o seqs[i]

\* The function that defines FlattenSeq is unique.
LEMMA FlattenUnique ==
  ASSUME NEW seqs, NEW n \in Nat, NEW f, NEW g, Flattens(f, seqs, n), Flattens(g, seqs, n)
  PROVE  \A i \in 1..n : f[i] = g[i]
<1> DEFINE Bad == {i \in 1..n : f[i] # g[i]}
<1>1. SUFFICES ASSUME Bad # {} PROVE FALSE
  OBVIOUS
<1>2. PICK m \in Bad : \A y \in Bad : m <= y
  <2>1. Bad \in SUBSET Nat
    OBVIOUS
  <2> HIDE DEF Bad
  <2>2. QED
    BY <1>1, <2>1, LeastNumber
<1>3. m \in 1..n /\ f[m] # g[m]
  BY <1>2
<1>4. m # 1
  BY <1>3 DEF Flattens
<1>5. m - 1 \in 1..n /\ m - 1 \notin Bad
  BY <1>2, <1>3, <1>4
<1>6. f[m-1] = g[m-1]
  BY <1>5
<1>7. QED
  BY <1>3, <1>4, <1>6 DEF Flattens

\* The parts put together one after the other.
LEMMA JoinedSteps ==
  ASSUME NEW S, NEW seqs \in Seq(Seq(S))
  PROVE  /\ Joined(seqs, 0) = << >>
         /\ \A n \in 1..Len(seqs) : Joined(seqs, n) = Joined(seqs, n - 1) \o seqs[n]
         /\ Joined(seqs, Len(seqs)) = FlattenSeq(seqs)
<1> DEFINE N == Len(seqs)
<1>0. N \in Nat /\ \A i \in 1..N : seqs[i] \in Seq(S)
  OBVIOUS
<1>1. PICK f : f = [i \in 1..N |-> IF i = 1 THEN seqs[i] ELSE f[i-1] \o seqs[i]]
  <2>1. N \in 0..N
    BY <1>0
  <2>2. QED
    BY <2>1, FlattenExists
<1>2. ASSUME NEW s \in Seq(Seq(S)), Len(s) # 0
      PROVE  \E e : /\ e = [i \in 1..Len(s) |-> IF i = 1 THEN s[i] ELSE e[i-1] \o s[i]]
                    /\ FlattenSeq(s) = e[Len(s)]
  <2> DEFINE Is(e) == e = [i \in 1..Len(s) |-> IF i = 1 THEN s[i] ELSE e[i-1] \o s[i]]
  <2>1. \E e : Is(e)
    <3>1. Len(s) \in 0..Len(s)
      OBVIOUS
    <3>2. QED
      BY <3>1, FlattenExists
  <2>2. Is(CHOOSE e : Is(e))
    <3> HIDE DEF Is
    <3>1. QED
      BY <2>1
  <2>3. FlattenSeq(s) = (CHOOSE e : Is(e))[Len(s)]
    BY <1>2 DEF FlattenSeq
  <2> HIDE DEF Is
  <2>4. PICK e : e = CHOOSE x : Is(x)
    OBVIOUS
  <2>5. Is(e) /\ FlattenSeq(s) = e[Len(s)]
    BY <2>2, <2>3, <2>4
  <2>6. QED
    BY <2>5 DEF Is
<1>3. ASSUME NEW n \in 1..N
      PROVE  Joined(seqs, n) = f[n]
  <2> DEFINE s == SubSeq(seqs, 1, n)
  <2>1. s \in Seq(Seq(S)) /\ Len(s) = n /\ \A i \in 1..n : s[i] = seqs[i]
    BY <1>0, SubSeqProperties
  <2>2. PICK e : /\ e = [i \in 1..n |-> IF i = 1 THEN s[i] ELSE e[i-1] \o s[i]]
                 /\ FlattenSeq(s) = e[n]
    <3> HIDE DEF s
    <3>1. n # 0
      BY <1>0
    <3>2. QED
      BY <1>2, <2>1, <3>1
  <2>3. Flattens(e, seqs, n)
    <3> HIDE DEF s
    <3>1. QED
      BY <2>1, <2>2 DEF Flattens
  <2>4. Flattens(f, seqs, n)
    <3>1. \A i \in 1..N : f[i] = IF i = 1 THEN seqs[i] ELSE f[i-1] \o seqs[i]
      BY <1>1
    <3>2. 1..n \subseteq 1..N
      BY <1>0
    <3>3. QED
      BY <3>1, <3>2 DEF Flattens
  <2>5. n \in Nat /\ n \in 1..n
    BY <1>0
  <2>6. e[n] = f[n]
    BY <2>3, <2>4, <2>5, FlattenUnique
  <2>7. QED
    BY <2>2, <2>6 DEF Joined
<1>4. SubSeq(seqs, 1, 0) = << >> /\ FlattenSeq(<< >>) = << >> /\ SubSeq(seqs, 1, N) = seqs
  BY SubSeqEmpty, SubSeqFull DEF FlattenSeq
<1>5. Joined(seqs, 0) = << >> /\ Joined(seqs, N) = FlattenSeq(seqs)
  BY <1>4 DEF Joined
<1>6. ASSUME NEW n \in 1..N
      PROVE  Joined(seqs, n) = Joined(seqs, n - 1) \o seqs[n]
  <2>1. Joined(seqs, n) = IF n = 1 THEN seqs[n] ELSE f[n-1] \o seqs[n]
    BY <1>1, <1>3
  <2>2. CASE n = 1
    <3>1. seqs[1] = << >> \o seqs[1]
      BY <1>0, <2>2
    <3>2. QED
      BY <1>5, <2>1, <2>2, <3>1
  <2>3. CASE n # 1
    <3>1. n - 1 \in 1..N
      BY <1>0, <2>3
    <3>2. QED
      BY <1>3, <2>1, <2>3, <3>1
  <2>4. QED
    BY <2>2, <2>3
<1>7. QED
  BY <1>5, <1>6

\* What is closed under concatenation holds of all parts put together.
LEMMA JoinedClosed ==
  ASSUME NEW S, NEW C \in SUBSET Seq(S), << >> \in C, \A a, b \in C : a \o b \in C,
         NEW seqs \in Seq(C)
  PROVE  \A n \in 0..Len(seqs) : Joined(seqs, n) \in C
<1>0. /\ Len(seqs) \in Nat /\ seqs \in Seq(Seq(S)) /\ \A i \in 1..Len(seqs) : seqs[i] \in C
      /\ Joined(seqs, 0) = << >>
      /\ \A n \in 1..Len(seqs) : Joined(seqs, n) = Joined(seqs, n - 1) \o seqs[n]
  <2>1. seqs \in Seq(Seq(S))
    BY SeqMonotonic
  <2>2. Len(seqs) \in Nat /\ \A i \in 1..Len(seqs) : seqs[i] \in C
    OBVIOUS
  <2>3. /\ Joined(seqs, 0) = << >>
        /\ \A n \in 1..Len(seqs) : Joined(seqs, n) = Joined(seqs, n - 1) \o seqs[n]
    BY <2>1, JoinedSteps
  <2>4. QED
    BY <2>1, <2>2, <2>3
<1> DEFINE Bad == {n \in 0..Len(seqs) : Joined(seqs, n) \notin C}
<1>1. SUFFICES ASSUME Bad # {} PROVE FALSE
  OBVIOUS
<1>2. PICK m \in Bad : \A y \in Bad : m <= y
  <2>1. Bad \in SUBSET Nat
    BY <1>0
  <2> HIDE DEF Bad
  <2>2. QED
    BY <1>1, <2>1, LeastNumber
<1>3. m \in 0..Len(seqs) /\ Joined(seqs, m) \notin C
  BY <1>2
<1>4. m # 0
  BY <1>0, <1>3
<1>5. m - 1 \in 0..Len(seqs) /\ m - 1 \notin Bad
  BY <1>0, <1>2, <1>3, <1>4
<1>6. Joined(seqs, m - 1) \in C
  BY <1>5
<1>7. m \in 1..Len(seqs)
  BY <1>0, <1>3, <1>4
<1>8. QED
  BY <1>0, <1>3, <1>6, <1>7

\* Parts over S put together are a sequence over S.
LEMMA JoinedType ==
  ASSUME NEW S, NEW seqs \in Seq(Seq(S))
  PROVE  /\ \A n \in 0..Len(seqs) : Joined(seqs, n) \in Seq(S)
         /\ FlattenSeq(seqs) \in Seq(S)
<1> DEFINE C == Seq(S)
<1>1. << >> \in C /\ \A a, b \in C : a \o b \in C
  BY ConcatProperties, EmptySeq
<1> HIDE DEF C
<1>2. \A n \in 0..Len(seqs) : Joined(seqs, n) \in C
  BY <1>1, JoinedClosed DEF C
<1>3. Len(seqs) \in 0..Len(seqs)
  OBVIOUS
<1>4. QED
  BY <1>2, <1>3, JoinedSteps DEF C

\* Where the parts begin and end.
LEMMA OffFacts ==
  ASSUME NEW S, NEW seqs \in Seq(Seq(S))
  PROVE  /\ Off(seqs, 0) = 0 /\ Off(seqs, Len(seqs)) = Len(FlattenSeq(seqs))
         /\ \A n \in 0..Len(seqs) : Off(seqs, n) \in Nat
         /\ \A n \in 1..Len(seqs) : Off(seqs, n) = Off(seqs, n - 1) + Len(seqs[n])
         /\ \A m, n \in 0..Len(seqs) : m <= n => Off(seqs, m) <= Off(seqs, n)
<1> DEFINE N == Len(seqs)
<1>0. N \in Nat /\ \A i \in 1..N : seqs[i] \in Seq(S) /\ Len(seqs[i]) \in Nat
  OBVIOUS
<1>1. Off(seqs, 0) = 0 /\ Off(seqs, N) = Len(FlattenSeq(seqs))
  BY JoinedSteps, EmptySeq DEF Off
<1>2. \A n \in 0..N : Off(seqs, n) \in Nat
  BY JoinedType, LenProperties DEF Off
<1>3. ASSUME NEW n \in 1..N
      PROVE  Off(seqs, n) = Off(seqs, n - 1) + Len(seqs[n])
  <2>1. n - 1 \in 0..N
    BY <1>0
  <2>2. Joined(seqs, n - 1) \in Seq(S) /\ seqs[n] \in Seq(S)
    BY <1>0, <2>1, JoinedType
  <2>3. Joined(seqs, n) = Joined(seqs, n - 1) \o seqs[n]
    BY JoinedSteps
  <2>4. QED
    BY <2>2, <2>3, ConcatProperties DEF Off
<1>4. ASSUME NEW m \in 0..N
      PROVE  \A n \in 0..N : m <= n => Off(seqs, m) <= Off(seqs, n)
  <2> DEFINE Bad == {n \in 0..N : m <= n /\ ~(Off(seqs, m) <= Off(seqs, n))}
  <2>1. SUFFICES ASSUME Bad # {} PROVE FALSE
    OBVIOUS
  <2>2. PICK n \in Bad : \A y \in Bad : n <= y
    <3>1. Bad \in SUBSET Nat
      BY <1>0
    <3> HIDE DEF Bad
    <3>2. QED
      BY <2>1, <3>1, LeastNumber
  <2>3. n \in 0..N /\ m <= n /\ ~(Off(seqs, m) <= Off(seqs, n))
    BY <2>2
  <2>4. n # m
    BY <1>2, <2>3
  <2>5. n \in 1..N /\ n - 1 \in 0..N /\ m <= n - 1
    BY <1>0, <2>3, <2>4
  <2>6. n - 1 \notin Bad
    BY <1>0, <2>2, <2>3
  <2>7. Off(seqs, m) <= Off(seqs, n - 1)
    BY <2>5, <2>6
  <2>8. Off(seqs, n) = Off(seqs, n - 1) + Len(seqs[n]) /\ Len(seqs[n]) \in Nat
    BY <1>0, <1>3, <2>5
  <2>9. Off(seqs, n - 1) \in Nat /\ Off(seqs, m) \in Nat
    BY <1>2, <2>5
  <2> DEFINE a == Off(seqs, m)
             b == Off(seqs, n - 1)
             c == Off(seqs, n)
  <2>10. a <= b /\ c = b + Len(seqs[n]) /\ ~(a <= c)
    BY <2>3, <2>7, <2>8
  <2>11. a \in Nat /\ b \in Nat
    BY <2>9
  <2> HIDE DEF a, b, c
  <2>12. QED
    BY <2>8, <2>10, <2>11
<1>5. QED
  BY <1>1, <1>2, <1>3, <1>4

\* Every position is in a part.
LEMMA InSomePart ==
  ASSUME NEW S, NEW seqs \in Seq(Seq(S)), NEW x \in 1..Len(FlattenSeq(seqs))
  PROVE  \E i \in 1..Len(seqs) : Off(seqs, i - 1) < x /\ x <= Off(seqs, i)
<1> DEFINE N == Len(seqs)
           Ends == {i \in 0..N : x <= Off(seqs, i)}
<1>0. N \in Nat
  OBVIOUS
<1>1. /\ Off(seqs, 0) = 0 /\ Off(seqs, N) = Len(FlattenSeq(seqs))
      /\ \A n \in 0..N : Off(seqs, n) \in Nat
  BY OffFacts
<1>2. N \in Ends
  BY <1>0, <1>1
<1>3. PICK i \in Ends : \A y \in Ends : i <= y
  <2>1. Ends \in SUBSET Nat /\ Ends # {}
    BY <1>0, <1>2
  <2> HIDE DEF Ends
  <2>2. QED
    BY <2>1, LeastNumber
<1>4. i \in 0..N /\ x <= Off(seqs, i)
  BY <1>3
<1>5. i # 0
  BY <1>1, <1>4
<1>6. i \in 1..N /\ i - 1 \in 0..N /\ i - 1 \notin Ends
  BY <1>0, <1>3, <1>4, <1>5
<1>7. Off(seqs, i - 1) \in Nat /\ ~(x <= Off(seqs, i - 1))
  BY <1>1, <1>6
<1>8. Off(seqs, i - 1) < x
  BY <1>7
<1>9. QED
  BY <1>4, <1>6, <1>8

\* What a part holds is found at its place.
LEMMA PartAt ==
  ASSUME NEW S, NEW seqs \in Seq(Seq(S)), NEW i \in 1..Len(seqs), NEW o \in 1..Len(seqs[i])
  PROVE  /\ Off(seqs, i - 1) + o \in 1..Len(FlattenSeq(seqs))
         /\ FlattenSeq(seqs)[Off(seqs, i - 1) + o] = seqs[i][o]
<1> DEFINE N == Len(seqs)
           x == Off(seqs, i - 1) + o
<1>0. /\ N \in Nat /\ i - 1 \in 0..N /\ i \in 0..N
      /\ \A n \in 1..N : seqs[n] \in Seq(S) /\ Len(seqs[n]) \in Nat
  OBVIOUS
<1>1. /\ \A n \in 0..N : Off(seqs, n) \in Nat
      /\ Off(seqs, i) = Off(seqs, i - 1) + Len(seqs[i])
      /\ \A m, n \in 0..N : m <= n => Off(seqs, m) <= Off(seqs, n)
      /\ Off(seqs, N) = Len(FlattenSeq(seqs))
  BY OffFacts
<1>2. x \in Nat /\ 1 <= x /\ x <= Off(seqs, i) /\ x > Off(seqs, i - 1) /\ x - Off(seqs, i - 1) = o
  <2> DEFINE a == Off(seqs, i - 1)
             b == Off(seqs, i)
             l == Len(seqs[i])
  <2>1. a \in Nat /\ b = a + l /\ l \in Nat /\ o \in 1..l
    BY <1>0, <1>1
  <2> HIDE DEF a, b, l
  <2>2. a + o \in Nat /\ 1 <= a + o /\ a + o <= b /\ a + o > a /\ (a + o) - a = o
    BY <2>1
  <2>3. QED
    BY <2>2 DEF a, b
<1>3. ASSUME NEW n \in 1..N
      PROVE  /\ Joined(seqs, n - 1) \in Seq(S) /\ Len(Joined(seqs, n - 1)) = Off(seqs, n - 1)
             /\ Joined(seqs, n) = Joined(seqs, n - 1) \o seqs[n]
             /\ \A y \in 1..Off(seqs, n) :
                  Joined(seqs, n)[y] = IF y <= Off(seqs, n - 1) THEN Joined(seqs, n - 1)[y]
                                       ELSE seqs[n][y - Off(seqs, n - 1)]
  <2>1. n - 1 \in 0..N
    BY <1>0
  <2>2. /\ Joined(seqs, n - 1) \in Seq(S) /\ Len(Joined(seqs, n - 1)) = Off(seqs, n - 1)
        /\ Joined(seqs, n) = Joined(seqs, n - 1) \o seqs[n]
        /\ Off(seqs, n) = Off(seqs, n - 1) + Len(seqs[n])
    BY <2>1, JoinedType, JoinedSteps, OffFacts DEF Off
  <2>3. seqs[n] \in Seq(S)
    BY <1>0
  <2>4. ASSUME NEW y \in 1..Off(seqs, n)
        PROVE  Joined(seqs, n)[y] = IF y <= Off(seqs, n - 1) THEN Joined(seqs, n - 1)[y]
                                       ELSE seqs[n][y - Off(seqs, n - 1)]
    <3> DEFINE a == Joined(seqs, n - 1)
               b == seqs[n]
    <3>1. a \in Seq(S) /\ b \in Seq(S) /\ Len(a) = Off(seqs, n - 1) /\ y \in 1..(Len(a) + Len(b))
      BY <2>2, <2>3
    <3> HIDE DEF a, b
    <3>2. (a \o b)[y] = IF y <= Len(a) THEN a[y] ELSE b[y - Len(a)]
      BY <3>1, ConcatProperties
    <3>3. QED
      BY <2>2, <3>1, <3>2 DEF a, b
  <2>5. QED
    BY <2>2, <2>4
<1> DEFINE Bad == {n \in i..N : Joined(seqs, n)[x] # seqs[i][o]}
<1>4. Bad = {}
  <2>1. SUFFICES ASSUME Bad # {} PROVE FALSE
    OBVIOUS
  <2>2. PICK n \in Bad : \A y \in Bad : n <= y
    <3>1. Bad \in SUBSET Nat
      BY <1>0
    <3> HIDE DEF Bad
    <3>2. QED
      BY <2>1, <3>1, LeastNumber
  <2>3. n \in i..N /\ Joined(seqs, n)[x] # seqs[i][o]
    BY <2>2
  <2>4. CASE n = i
    <3>1. Joined(seqs, i)[x] = seqs[i][x - Off(seqs, i - 1)]
      <4>1. x \in 1..Off(seqs, i) /\ ~(x <= Off(seqs, i - 1))
        <5> DEFINE a == Off(seqs, i - 1)
                   b == Off(seqs, i)
        <5>1. a \in Nat /\ b \in Nat /\ x \in Nat /\ 1 <= x /\ x <= b /\ x > a
          BY <1>0, <1>1, <1>2
        <5> HIDE DEF a, b, x
        <5>2. x \in 1..b /\ ~(x <= a)
          BY <5>1
        <5>3. QED
          BY <5>2 DEF a, b
      <4> HIDE DEF x
      <4>2. QED
        BY <1>3, <4>1
    <3>2. x - Off(seqs, i - 1) = o
      BY <1>2
    <3>3. QED
      BY <2>3, <2>4, <3>1, <3>2
  <2>5. CASE n # i
    <3>1. n \in 1..N /\ n - 1 \in i..N /\ n - 1 \in 0..N /\ n \in 0..N /\ i <= n - 1
      BY <1>0, <2>3, <2>5
    <3>2. n - 1 \notin Bad
      BY <1>0, <2>2, <2>3
    <3>3. Joined(seqs, n - 1)[x] = seqs[i][o]
      BY <3>1, <3>2
    <3>4. Off(seqs, i) <= Off(seqs, n - 1) /\ Off(seqs, n - 1) <= Off(seqs, n)
      BY <1>0, <1>1, <3>1
    <3>5. x <= Off(seqs, n - 1) /\ x \in 1..Off(seqs, n)
      <4> DEFINE a == Off(seqs, i)
                 b == Off(seqs, n - 1)
                 c == Off(seqs, n)
      <4>1. a \in Nat /\ b \in Nat /\ c \in Nat /\ a <= b /\ b <= c
        BY <1>0, <1>1, <3>1, <3>4
      <4>2. x \in Nat /\ 1 <= x /\ x <= a
        BY <1>2
      <4> HIDE DEF a, b, c, x
      <4>3. x <= b /\ x \in 1..c
        BY <4>1, <4>2
      <4>4. QED
        BY <4>3 DEF b, c
    <3> HIDE DEF x
    <3>6. Joined(seqs, n)[x] = Joined(seqs, n - 1)[x]
      BY <1>3, <3>1, <3>5
    <3>7. QED
      BY <2>3, <3>3, <3>6
  <2>6. QED
    BY <2>4, <2>5
<1>5. N \in i..N /\ Off(seqs, i) <= Off(seqs, N)
  BY <1>0, <1>1
<1>6. Joined(seqs, N)[x] = seqs[i][o]
  BY <1>4, <1>5
<1>7. Joined(seqs, N) = FlattenSeq(seqs)
  BY JoinedSteps
<1>8. x \in 1..Len(FlattenSeq(seqs))
  BY <1>0, <1>1, <1>2, <1>5
<1>9. QED
  BY <1>6, <1>7, <1>8

-----------------------------------------------------------------------------
(* The types of the texts, and where the read piece is.                    *)

\* The length and the elements of a part of a sequence.
LEMMA PartOf ==
  ASSUME NEW S, NEW s \in Seq(S), NEW a \in 1..(Len(s) + 1), NEW b \in Int, a - 1 <= b, b <= Len(s)
  PROVE  /\ SubSeq(s, a, b) \in Seq(S)
         /\ Len(SubSeq(s, a, b)) = b - a + 1
         /\ \A k \in 1..(b - a + 1) : SubSeq(s, a, b)[k] = s[a + k - 1]
<1>0. Len(s) \in Nat /\ \A i \in 1..Len(s) : s[i] \in S
  OBVIOUS
<1>1. a \in Int /\ b \in Int /\ \A i \in a..b : s[i] \in S
  BY <1>0
<1>2. /\ SubSeq(s, a, b) \in Seq(S)
      /\ Len(SubSeq(s, a, b)) = IF a <= b THEN b - a + 1 ELSE 0
      /\ \A k \in 1..(b - a + 1) : SubSeq(s, a, b)[k] = s[a + k - 1]
  BY <1>1, SubSeqProperties
<1>3. (IF a <= b THEN b - a + 1 ELSE 0) = b - a + 1
  OBVIOUS
<1>4. QED
  BY <1>2, <1>3

\* A symbol has finitely many positions in a text.
LEMMA CountPositions ==
  ASSUME NEW t \in Texts, NEW x
  PROVE  /\ IsFiniteSet(Positions(t, x)) /\ Positions(t, x) \subseteq 1..Len(t)
         /\ Cardinality(Positions(t, x)) \in Nat
<1>1. Len(t) \in Nat /\ DOMAIN t = 1..Len(t)
  BY DEF Texts
<1>2. IsFiniteSet(1..Len(t))
  BY <1>1, FS_Interval
<1>3. Positions(t, x) \subseteq 1..Len(t)
  BY <1>1 DEF Positions
<1>4. IsFiniteSet(Positions(t, x))
  BY <1>2, <1>3, FS_Subset
<1>5. QED
  BY <1>3, <1>4, FS_CardinalityType

\* A text has at least as many characters as symbols.
LEMMA BytesFacts ==
  ASSUME NEW t \in Texts
  PROVE  Bytes(t) \in Nat /\ Bytes(t) >= Len(t)
<1>1. Len(t) \in Nat
  BY DEF Texts
<1>2. Cardinality(Positions(t, "M")) \in Nat /\ Cardinality(Positions(t, "CT")) \in Nat
  BY CountPositions
<1>3. QED
  BY <1>1, <1>2 DEF Bytes

\* Sequences of at most two elements.
LEMMA ShortSeq ==
  ASSUME NEW S, NEW a \in S, NEW b \in S
  PROVE  /\ << >> \in Seq(S) /\ <<a>> \in Seq(S) /\ <<a, b>> \in Seq(S)
         /\ Len(<<a>>) = 1 /\ Len(<<a, b>>) = 2
  OBVIOUS

\* Sequences of three elements.
LEMMA ThreeSeq ==
  ASSUME NEW S, NEW a \in S, NEW b \in S, NEW c \in S
  PROVE  <<a, b, c>> \in Seq(S) /\ Len(<<a, b, c>>) = 3
  OBVIOUS

\* Two texts put together are a text.
LEMMA ConcatText == \A a, b \in Texts : a \o b \in Texts
  BY ConcatProperties DEF Texts

\* The symbols of two texts put together.
LEMMA ConcatAt ==
  ASSUME NEW u \in Texts, NEW v \in Texts
  PROVE  /\ Len(u \o v) = Len(u) + Len(v) /\ Len(u) \in Nat /\ Len(v) \in Nat
         /\ \A i \in 1..Len(u) : (u \o v)[i] = u[i]
         /\ \A i \in 1..Len(v) : (u \o v)[Len(u) + i] = v[i]
<1>1. /\ Len(u \o v) = Len(u) + Len(v) /\ Len(u) \in Nat /\ Len(v) \in Nat
      /\ \A i \in 1..(Len(u) + Len(v)) : (u \o v)[i] = IF i <= Len(u) THEN u[i] ELSE v[i - Len(u)]
  BY ConcatProperties DEF Texts
<1>2. ASSUME NEW i \in 1..Len(u)
      PROVE  (u \o v)[i] = u[i]
  <2>1. i \in 1..(Len(u) + Len(v)) /\ i <= Len(u)
    BY <1>1
  <2>2. QED
    BY <1>1, <2>1
<1>3. ASSUME NEW i \in 1..Len(v)
      PROVE  (u \o v)[Len(u) + i] = v[i]
  <2>1. Len(u) + i \in 1..(Len(u) + Len(v)) /\ ~(Len(u) + i <= Len(u)) /\ (Len(u) + i) - Len(u) = i
    BY <1>1
  <2>2. (u \o v)[Len(u) + i] = v[(Len(u) + i) - Len(u)]
    BY <1>1, <2>1
  <2>3. QED
    BY <2>1, <2>2
<1>4. QED
  BY <1>1, <1>2, <1>3

\* The symbols of the replies, but for the braces.
LEMMA KnownSymbols ==
  /\ "M" \in Symbols /\ "CT" \in Symbols /\ "CR" \in Symbols /\ "LF" \in Symbols /\ "SP" \in Symbols
  /\ "D" \in Symbols /\ "S" \in Symbols /\ "L" \in Symbols /\ "N" \in Symbols /\ "NUL" \in Symbols
  BY SymbolsAssumption, Zenon

\* What is well-formed about a message, but for the begin of its lines.
LEMMA WellFormedParts ==
  ASSUME NEW m, WellFormed(m)
  PROVE  /\ m.path # << >> /\ m.protocol # << >>
         /\ ~Has(m.path, "SP") /\ ~Has(m.protocol, "SP")
         /\ ~Has(Tail(Text(m)), "M") /\ ~Has(m.body, "CT")
         /\ \A k \in DOMAIN Lines(m) : ~Has(Lines(m)[k], "CR") /\ ~Has(Lines(m)[k], "LF")
  BY Zenon DEF WellFormed

\* The end of a line is a text of two symbols.
LEMMA CrlfText == CRLF \in Texts /\ Len(CRLF) = 2 /\ CRLF[1] = "CR" /\ CRLF[2] = "LF"
<1>1. "CR" \in Symbols /\ "LF" \in Symbols
  BY KnownSymbols
<1>2. CRLF \in Texts
  BY <1>1, ShortSeq, Zenon DEF CRLF, Texts
<1>3. QED
  BY <1>2 DEF CRLF

\* The lines of a message with their ends.
Ended(m) == [k \in DOMAIN Lines(m) |-> Lines(m)[k] \o CRLF]

\* The parts of a message are texts; the lines are the first one, the others and
\* the empty one.
LEMMA MessageTypes ==
  ASSUME NEW m \in Messages
  PROVE  /\ m.path \in Texts /\ m.protocol \in Texts /\ m.head \in Seq(Texts) /\ m.body \in Texts
         /\ FirstLine(m) \in Texts
         /\ Lines(m) \in Seq(Texts) /\ Len(Lines(m)) = Len(m.head) + 2
         /\ Lines(m)[1] = FirstLine(m) /\ Lines(m)[Len(m.head) + 2] = << >>
         /\ \A k \in 1..Len(m.head) : Lines(m)[k + 1] = m.head[k]
         /\ Ended(m) \in Seq(Texts) /\ Len(Ended(m)) = Len(Lines(m))
         /\ Header(m) = FlattenSeq(Ended(m)) /\ Header(m) \in Texts /\ Text(m) \in Texts
         /\ Len(Text(m)) = Len(Header(m)) + Len(m.body)
<1>1. m.path \in Texts /\ m.protocol \in Texts /\ m.head \in Seq(Texts) /\ m.body \in Texts
  BY DEF Messages
<1>2. \A a, b \in Texts : a \o b \in Texts /\ Len(a \o b) = Len(a) + Len(b)
  BY ConcatProperties DEF Texts
<1>3. <<"M", "SP">> \in Texts /\ <<"SP">> \in Texts /\ << >> \in Texts
  <2>1. "M" \in Symbols /\ "SP" \in Symbols
    BY KnownSymbols
  <2>2. QED
    BY <2>1, ShortSeq, Zenon DEF Texts
<1>4. FirstLine(m) \in Texts
  BY <1>1, <1>2, <1>3, Zenon DEF FirstLine
<1> DEFINE N == Len(m.head)
<1>5. /\ Lines(m) \in Seq(Texts) /\ Len(Lines(m)) = N + 2
      /\ Lines(m)[1] = FirstLine(m) /\ Lines(m)[N + 2] = << >>
      /\ \A k \in 1..N : Lines(m)[k + 1] = m.head[k]
  <2> DEFINE f == FirstLine(m)
             h == m.head
             a == <<f>> \o h
  <2>0. N = Len(h) /\ N \in Nat /\ f \in Texts /\ h \in Seq(Texts)
    BY <1>1, <1>4
  <2> HIDE DEF f, h, N
  <2>1. <<f>> \in Seq(Texts) /\ Len(<<f>>) = 1 /\ << << >> >> \in Seq(Texts) /\ Len(<< << >> >>) = 1
    BY <1>3, <2>0
  <2>2. /\ a \in Seq(Texts) /\ Len(a) = N + 1
        /\ \A i \in 1..(1 + N) : a[i] = IF i <= 1 THEN <<f>>[i] ELSE h[i - 1]
    BY <2>0, <2>1, ConcatProperties
  <2> HIDE DEF a
  <2>3. /\ a \o << << >> >> \in Seq(Texts) /\ Len(a \o << << >> >>) = N + 2
        /\ \A i \in 1..(N + 1 + 1) : (a \o << << >> >>)[i] = IF i <= N + 1 THEN a[i] ELSE << << >> >>[i - (N + 1)]
    BY <2>0, <2>1, <2>2, ConcatProperties
  <2>4. Lines(m) = a \o << << >> >>
    BY DEF Lines, a, f, h
  <2> DEFINE l == Lines(m)
  <2>5. /\ l \in Seq(Texts) /\ Len(l) = N + 2
        /\ \A i \in 1..(N + 1 + 1) : l[i] = IF i <= N + 1 THEN a[i] ELSE << << >> >>[i - (N + 1)]
    BY <2>3, <2>4
  <2> HIDE DEF l
  <2>6. l[1] = f
    BY <2>0, <2>2, <2>5
  <2>7. l[N + 2] = << >>
    <3>1. l[N + 2] = << << >> >>[(N + 2) - (N + 1)] /\ (N + 2) - (N + 1) = 1
      BY <2>0, <2>5
    <3>2. QED
      BY <3>1
  <2>8. ASSUME NEW k \in 1..N
        PROVE  l[k + 1] = h[k]
    <3>1. k + 1 \in 1..(N + 1) /\ ~(k + 1 <= 1) /\ (k + 1) - 1 = k
      BY <2>0
    <3>2. l[k + 1] = a[k + 1] /\ a[k + 1] = h[(k + 1) - 1]
      BY <2>0, <2>2, <2>5, <3>1
    <3>3. QED
      BY <3>1, <3>2
  <2>9. QED
    BY <2>5, <2>6, <2>7, <2>8 DEF l, f, h
<1>6. Ended(m) \in Seq(Texts) /\ Len(Ended(m)) = Len(Lines(m))
  <2> DEFINE l == Lines(m)
  <2>1. l \in Seq(Texts)
    BY <1>5
  <2>2. \A k \in DOMAIN l : l[k] \o CRLF \in Texts
    BY <1>2, <2>1, CrlfText
  <2> HIDE DEF l
  <2>a. DOMAIN l = 1..Len(l) /\ Len(l) \in Nat
    BY <2>1
  <2> DEFINE e == [k \in DOMAIN l |-> l[k] \o CRLF]
  <2>b. e \in [1..Len(l) -> Texts]
    <3> DEFINE X == Texts
               F(k) == l[k] \o CRLF
    <3>1. \A k \in DOMAIN l : F(k) \in X
      BY <2>2
    <3> HIDE DEF X, F
    <3>2. [k \in DOMAIN l |-> F(k)] \in [1..Len(l) -> X]
      BY <2>a, <3>1
    <3>3. QED
      BY <3>2 DEF X, F
  <2> HIDE DEF e
  <2>c. e \in Seq(Texts) /\ Len(e) = Len(l)
    BY <2>a, <2>b
  <2>3. [k \in DOMAIN l |-> l[k] \o CRLF] \in Seq(Texts) /\ Len([k \in DOMAIN l |-> l[k] \o CRLF]) = Len(l)
    BY <2>c DEF e
  <2>4. QED
    BY <2>3 DEF l, Ended
<1>7. Header(m) = FlattenSeq(Ended(m))
  BY DEF Header, Ended
<1>8. Header(m) \in Texts
  BY <1>6, <1>7, JoinedType DEF Texts
<1>9. Text(m) \in Texts /\ Len(Text(m)) = Len(Header(m)) + Len(m.body)
  BY <1>1, <1>2, <1>8 DEF Text
<1>10. QED
  BY <1>1, <1>4, <1>5, <1>6, <1>7, <1>8, <1>9

\* The messages of a conversation one after the other.
Sent == [c \in DOMAIN conv |-> Text(conv[c])]

\* What the client sends is a text, put together from the texts of its messages.
LEMMA SentTypes ==
  ASSUME conv \in Conversations
  PROVE  /\ conv \in Seq(Messages) /\ \A c \in 1..Len(conv) : WellFormed(conv[c]) /\ Fits(conv[c])
         /\ Sent \in Seq(Texts) /\ Len(Sent) = Len(conv) /\ \A c \in 1..Len(conv) : Sent[c] = Text(conv[c])
         /\ Stream = FlattenSeq(Sent) /\ Stream \in Texts /\ Len(Stream) \in Nat
<1>1. conv \in Seq(Messages) /\ \A c \in 1..Len(conv) : WellFormed(conv[c]) /\ Fits(conv[c])
  <2>1. conv \in Seq(Messages) /\ \A c \in DOMAIN conv : WellFormed(conv[c]) /\ Fits(conv[c])
    BY MessagesAssumption
  <2>2. QED
    BY <2>1
<1>2. \A c \in DOMAIN conv : Text(conv[c]) \in Texts
  BY <1>1, MessageTypes
<1>3. Sent \in Seq(Texts) /\ Len(Sent) = Len(conv) /\ \A c \in 1..Len(conv) : Sent[c] = Text(conv[c])
  BY <1>1, <1>2 DEF Sent
<1>4. Stream = FlattenSeq(Sent)
  BY DEF Stream, Sent
<1>5. Stream \in Texts
  BY <1>3, <1>4, JoinedType DEF Texts
<1>6. QED
  BY <1>1, <1>3, <1>4, <1>5 DEF Texts

\* A set of numbers that is bounded and not empty has a greatest one.
LEMMA MostNumber ==
  ASSUME NEW n \in Nat, NEW S \in SUBSET (1..n), S # {}
  PROVE  Max(S) \in S /\ \A y \in S : Max(S) >= y
<1> DEFINE T == {n - y : y \in S}
<1>1. T \in SUBSET Nat /\ T # {}
  <2>1. \A y \in S : y \in 1..n /\ n - y \in Nat
    OBVIOUS
  <2>2. T \in SUBSET Nat
    BY <2>1
  <2>3. QED
    BY <2>2
<1>2. PICK t \in T : \A y \in T : t <= y
  <2> HIDE DEF T
  <2>1. QED
    BY <1>1, LeastNumber
<1>3. PICK x \in S : t = n - x
  BY <1>2
<1>4. ASSUME NEW y \in S
      PROVE  x >= y
  <2>1. n - y \in T
    OBVIOUS
  <2>2. t <= n - y /\ y \in Nat /\ x \in Nat
    BY <1>2, <2>1
  <2>3. QED
    BY <1>3, <2>2
<1>5. QED
  BY <1>3, <1>4 DEF Max

-----------------------------------------------------------------------------
(* What was read is a piece of the stream, and what is made of it has its  *)
(* type.                                                                   *)

\* The three fields of a request.
Fields == DOMAIN http = {"method", "header", "type"}

\* recvbuf is the piece of the stream that was read last, and what was made of it
\* has its type.
PieceInv ==
  /\ conv \in Conversations
  /\ at \in 0..Len(Stream) /\ reads \in 0..MaxReads /\ aligned \in BOOLEAN
  /\ pc \in {"idle", "scan", "fault"}
  /\ recvbuf \in Texts /\ Len(recvbuf) <= at
  /\ \A k \in 1..Len(recvbuf) : recvbuf[k] = Stream[at - Len(recvbuf) + k]
  /\ j \in 0..(Len(recvbuf) + 1)
  /\ pc = "scan" => recvbuf # << >> /\ recvbuf[1] = "M" /\ Len(replies) < reads
  /\ Fields /\ http.header \in Texts /\ http.type \in Texts
  /\ replies \in Seq([length : Nat, text : Texts]) /\ Len(replies) <= reads
  /\ accepted \in Seq([place : Int, text : Texts]) /\ Len(accepted) <= Len(replies)

\* The invariant contains the types of all variables.
LEMMA PieceInvTypes == PieceInv => TypeOK
<1>1. SUFFICES ASSUME PieceInv PROVE TypeOK
  OBVIOUS
<1>2. QED
  BY <1>1 DEF PieceInv, TypeOK

\* No step changes what the client sends.
LEMMA StreamKept ==
  ASSUME conv' = conv
  PROVE  Stream' = Stream
  BY DEF Stream

\* Before the first read nothing has been taken from the stream.
LEMMA PieceInvInit == Init => PieceInv
<1>1. SUFFICES ASSUME Init PROVE PieceInv
  OBVIOUS
<1>2. conv \in Conversations
  BY <1>1 DEF Init
<1>3. Len(Stream) \in Nat /\ MaxReads \in Nat
  BY <1>2, SentTypes, MessagesAssumption
<1>4. << >> \in Texts /\ Len(<< >>) = 0
  BY DEF Texts
<1>5. Fields /\ http.header \in Texts /\ http.type \in Texts
  BY <1>1, <1>4 DEF Init, NoFields, Fields
<1>6. QED
  BY <1>1, <1>2, <1>3, <1>4, <1>5 DEF Init, PieceInv

\* A read clears recvbuf and takes the next piece of the stream.
LEMMA PieceInvRead == PieceInv /\ Read => PieceInv'
<1>1. SUFFICES ASSUME PieceInv, Read PROVE PieceInv'
  OBVIOUS
<1>2. PICK to \in (at + 1)..Len(Stream) :
        /\ recvbuf' = SubSeq(Stream, at + 1, to)
        /\ pc' = IF IsHttp(SubSeq(Stream, at + 1, to)) THEN "scan" ELSE "idle"
        /\ aligned' = (aligned /\ \E c \in DOMAIN conv : SubSeq(Stream, at + 1, to) = Text(conv[c]) /\ at = Start(c))
        /\ at' = to
  BY <1>1, Zenon DEF Read, Received
<1>3. /\ reads < MaxReads /\ reads' = reads + 1 /\ j' = 0 /\ http' = NoFields
      /\ conv' = conv /\ accepted' = accepted /\ replies' = replies
  BY <1>1 DEF Read
<1>4. Stream \in Texts /\ Len(Stream) \in Nat /\ Stream' = Stream /\ MaxReads \in Nat
  BY <1>1, <1>3, SentTypes, StreamKept, MessagesAssumption DEF PieceInv
<1>5. /\ at \in 0..Len(Stream) /\ reads \in 0..MaxReads /\ Len(replies) <= reads /\ conv \in Conversations
      /\ replies \in Seq([length : Nat, text : Texts])
      /\ accepted \in Seq([place : Int, text : Texts]) /\ Len(accepted) <= Len(replies)
  BY <1>1 DEF PieceInv
<1>6. /\ recvbuf' \in Texts /\ Len(recvbuf') = to - at
      /\ \A k \in 1..(to - at) : recvbuf'[k] = Stream[at + k]
  <2> DEFINE s == Stream
             p == SubSeq(s, at + 1, to)
  <2>1. s \in Seq(Symbols) /\ at + 1 \in 1..(Len(s) + 1) /\ to \in Int /\ (at + 1) - 1 <= to /\ to <= Len(s)
    BY <1>4, <1>5 DEF Texts
  <2> HIDE DEF s
  <2>2. /\ p \in Seq(Symbols) /\ Len(p) = to - (at + 1) + 1
        /\ \A k \in 1..(to - (at + 1) + 1) : p[k] = s[at + 1 + k - 1]
    BY <2>1, PartOf
  <2>3. at \in Int /\ to \in Int /\ to - (at + 1) + 1 = to - at
    BY <1>5
  <2> HIDE DEF p
  <2>3a. ASSUME NEW k \in 1..(to - at)
         PROVE  p[k] = s[at + k]
    <3>1. k \in Int /\ at + 1 + k - 1 = at + k /\ k \in 1..(to - (at + 1) + 1)
      BY <2>3
    <3>2. p[k] = s[at + 1 + k - 1]
      BY <2>2, <3>1
    <3>3. QED
      BY <3>1, <3>2
  <2>4. p \in Seq(Symbols) /\ Len(p) = to - at /\ \A k \in 1..(to - at) : p[k] = s[at + k]
    BY <2>2, <2>3, <2>3a
  <2>5. recvbuf' = p
    BY <1>2 DEF p, s
  <2>6. QED
    BY <2>4, <2>5 DEF s, Texts
<1>7. /\ to \in 0..Len(Stream) /\ Len(recvbuf') <= to /\ to - at > 0
      /\ \A k \in 1..Len(recvbuf') : recvbuf'[k] = Stream[to - Len(recvbuf') + k]
  <2>1. to \in Nat /\ at \in Nat /\ to > at /\ to <= Len(Stream) /\ to - (to - at) = at
    BY <1>4, <1>5
  <2>2. QED
    BY <1>4, <1>6, <2>1
<1>8. pc' \in {"idle", "scan", "fault"} /\ (pc' = "scan" => recvbuf'[1] = "M")
  BY <1>2 DEF IsHttp
<1>9. recvbuf' # << >>
  BY <1>6, <1>7
<1>10. << >> \in Texts
  BY DEF Texts
<1>11. Fields' /\ http'.header \in Texts /\ http'.type \in Texts
  BY <1>3, <1>10 DEF Fields, NoFields
<1>12. reads' \in 0..MaxReads /\ Len(replies) < reads' /\ aligned' \in BOOLEAN /\ j' \in 0..(Len(recvbuf') + 1)
       /\ Len(replies) <= reads' /\ Len(replies) \in Nat
  BY <1>2, <1>3, <1>4, <1>5, <1>6, <1>7
<1>13. QED
  BY <1>2, <1>3, <1>4, <1>5, <1>6, <1>7, <1>8, <1>9, <1>11, <1>12 DEF PieceInv

\* The line that get_input_http_info takes next.
TheLine(k) == SubSeq(recvbuf, j + 1, k - 1)

\* The loop of get_input_http_info stops at the first '\r' after j.
LEMMA NextReturn ==
  ASSUME PieceInv, Returns # {}
  PROVE  \E k \in 1..Len(recvbuf) :
           /\ k = Min(Returns) /\ j < k /\ recvbuf[k] = "CR"
           /\ \A i \in (j + 1)..(k - 1) : recvbuf[i] # "CR"
           /\ TheLine(k) \in Texts /\ Len(TheLine(k)) = k - 1 - j
           /\ \A i \in 1..(k - 1 - j) : TheLine(k)[i] = recvbuf[j + i]
<1>1. recvbuf \in Texts /\ Len(recvbuf) \in Nat /\ j \in 0..(Len(recvbuf) + 1)
  BY DEF PieceInv, Texts
<1>2. Returns \in SUBSET Nat
  BY <1>1 DEF Returns
<1>3. PICK k \in Returns : k = Min(Returns) /\ \A y \in Returns : k <= y
  BY <1>2, LeastNumber
<1>4. k \in (j + 1)..Len(recvbuf) /\ recvbuf[k] = "CR"
  BY <1>3 DEF Returns
<1>5. \A i \in (j + 1)..(k - 1) : recvbuf[i] # "CR"
  BY <1>1, <1>3, <1>4 DEF Returns
<1>6. /\ TheLine(k) \in Texts /\ Len(TheLine(k)) = k - 1 - j
      /\ \A i \in 1..(k - 1 - j) : TheLine(k)[i] = recvbuf[j + i]
  <2>1. recvbuf \in Seq(Symbols) /\ j + 1 \in 1..(Len(recvbuf) + 1) /\ k - 1 \in Int /\ (j + 1) - 1 <= k - 1 /\ k - 1 <= Len(recvbuf)
    BY <1>1, <1>4 DEF Texts
  <2>2. /\ TheLine(k) \in Seq(Symbols) /\ Len(TheLine(k)) = (k - 1) - (j + 1) + 1
        /\ \A i \in 1..((k - 1) - (j + 1) + 1) : TheLine(k)[i] = recvbuf[(j + 1) + i - 1]
    BY <2>1, PartOf, Zenon DEF TheLine
  <2>3. k \in Int /\ j \in Int /\ (k - 1) - (j + 1) + 1 = k - 1 - j
    BY <1>1, <1>4
  <2> DEFINE l == TheLine(k)
  <2> HIDE DEF l
  <2>4. ASSUME NEW i \in 1..(k - 1 - j)
        PROVE  l[i] = recvbuf[j + i]
    <3>1. i \in Int /\ (j + 1) + i - 1 = j + i /\ i \in 1..((k - 1) - (j + 1) + 1)
      BY <2>3
    <3>2. l[i] = recvbuf[(j + 1) + i - 1]
      BY <2>2, <3>1 DEF l
    <3>3. QED
      BY <3>1, <3>2
  <2>5. l \in Seq(Symbols) /\ Len(l) = k - 1 - j
    BY <2>2, <2>3 DEF l
  <2>6. QED
    BY <2>4, <2>5 DEF Texts, l
<1>7. k \in 1..Len(recvbuf) /\ j < k
  BY <1>1, <1>4
<1>8. QED
  BY <1>3, <1>4, <1>5, <1>6, <1>7

\* What a line changes in the fields.
LEMMA LineFields ==
  ASSUME PieceInv, NEW line \in Texts, TakeFirstLine(line) \/ TakeLine(line)
  PROVE  /\ pc' \in {"scan", "fault"} /\ Fields'
         /\ \/ http' = http
            \/ \E b \in 1..Len(line) : /\ line[b] = "SP" /\ http'.header = SubSeq(line, b + 1, Len(line))
                                       /\ http'.type = http.type
            \/ http'.header = http.header /\ http'.type = SubSeq(line, 3, Len(line))
<1>0. Fields /\ Len(line) \in Nat /\ DOMAIN line = 1..Len(line)
  BY DEF PieceInv, Texts
<1>1. CASE TakeLine(line)
  <2>1. \/ pc' \in {"scan", "fault"} /\ http' = http
        \/ pc' = "scan" /\ http' = [http EXCEPT !.type = SubSeq(line, 3, Len(line))]
    BY <1>1, Zenon DEF TakeLine
  <2>2. CASE pc' \in {"scan", "fault"} /\ http' = http
    BY <1>0, <2>2 DEF Fields
  <2>3. CASE pc' = "scan" /\ http' = [http EXCEPT !.type = SubSeq(line, 3, Len(line))]
    <3>1. pc' \in {"scan", "fault"} /\ Fields'
      BY <1>0, <2>3 DEF Fields
    <3>2. http'.header = http.header /\ http'.type = SubSeq(line, 3, Len(line))
      BY <1>0, <2>3 DEF Fields
    <3>3. QED
      BY <3>1, <3>2
  <2>4. QED
    BY <2>1, <2>2, <2>3
<1>2. CASE TakeFirstLine(line)
  <2> DEFINE spaces == {k \in DOMAIN line : line[k] = "SP"}
             b == Max(spaces)
             m == SubSeq(line, Min(spaces) + 2, b - 1)
             v == SubSeq(line, b + 1, Len(line))
  <2>1. \/ pc' \in {"scan", "fault"} /\ http' = http
        \/ pc' = "scan" /\ spaces # {} /\ http' = [http EXCEPT !.header = v, !.method = m]
    BY <1>2, Zenon DEF TakeFirstLine
  <2>2. CASE pc' \in {"scan", "fault"} /\ http' = http
    BY <1>0, <2>2 DEF Fields
  <2>3. CASE pc' = "scan" /\ spaces # {} /\ http' = [http EXCEPT !.header = v, !.method = m]
    <3>1. spaces \in SUBSET (1..Len(line))
      BY <1>0
    <3>2. b \in spaces
      <4> HIDE DEF spaces
      <4>1. QED
        BY <1>0, <2>3, <3>1, MostNumber
    <3>3. b \in 1..Len(line) /\ line[b] = "SP"
      BY <1>0, <3>2
    <3> HIDE DEF m, v
    <3>4. pc' \in {"scan", "fault"} /\ Fields'
      BY <1>0, <2>3 DEF Fields
    <3>5. http'.header = v
      BY <1>0, <2>3 DEF Fields
    <3>6. http'.type = http.type
      BY <1>0, <2>3 DEF Fields
    <3> HIDE DEF b
    <3>7. http'.header = SubSeq(line, b + 1, Len(line))
      BY <3>5 DEF v
    <3>8. QED
      BY <3>3, <3>4, <3>6, <3>7
  <2>4. QED
    BY <2>1, <2>2, <2>3
<1>3. QED
  BY <1>1, <1>2

\* A line of get_input_http_info leaves the piece alone and moves j forward.
LEMMA PieceInvLine == PieceInv /\ Line => PieceInv'
<1>1. SUFFICES ASSUME PieceInv, Line PROVE PieceInv'
  OBVIOUS
<1>2. Returns # {} /\ UNCHANGED <<conv, at, reads, aligned, recvbuf, accepted, replies>> /\ pc = "scan"
  BY <1>1, Zenon DEF Line
<1>3. PICK k \in 1..Len(recvbuf) :
        /\ k = Min(Returns) /\ j < k
        /\ TheLine(k) \in Texts /\ Len(TheLine(k)) = k - 1 - j
  BY <1>1, <1>2, NextReturn
<1>4. /\ j' = k + 1
      /\ \/ pc' = "fault" /\ http' = http
         \/ TakeFirstLine(TheLine(k)) \/ TakeLine(TheLine(k))
  BY <1>1, <1>3, Zenon DEF Line, AfterReturn, TheLine
<1> DEFINE l == TheLine(k)
<1>5. /\ pc' \in {"scan", "fault"} /\ Fields'
      /\ \/ http' = http
         \/ \E b \in 1..Len(l) : http'.header = SubSeq(l, b + 1, Len(l)) /\ http'.type = http.type
         \/ http'.header = http.header /\ http'.type = SubSeq(l, 3, Len(l))
  <2>1. CASE pc' = "fault" /\ http' = http
    BY <1>1, <2>1 DEF PieceInv, Fields
  <2>2. CASE TakeFirstLine(l) \/ TakeLine(l)
    <3> HIDE DEF l
    <3>1. QED
      BY <1>1, <1>3, <2>2, LineFields DEF l
  <2>3. QED
    BY <1>4, <2>1, <2>2
<1>6. \A a \in Int : a >= 1 => SubSeq(l, a, Len(l)) \in Texts
  <2>1. l \in Seq(Symbols)
    BY <1>3 DEF Texts
  <2> HIDE DEF l
  <2>2. Len(l) \in Int /\ \A i \in 1..Len(l) : l[i] \in Symbols
    BY <2>1
  <2>3. QED
    BY <2>2, SubSeqProperties DEF Texts
<1>7. http'.header \in Texts /\ http'.type \in Texts
  <2>0. http.header \in Texts /\ http.type \in Texts
    BY <1>1 DEF PieceInv
  <2> HIDE DEF l
  <2>1. SubSeq(l, 3, Len(l)) \in Texts /\ \A b \in 1..Len(l) : SubSeq(l, b + 1, Len(l)) \in Texts
    BY <1>6
  <2>2. QED
    BY <1>5, <2>0, <2>1
<1>8. Stream' = Stream
  BY <1>2, StreamKept
<1>9. j' \in 0..(Len(recvbuf') + 1)
  BY <1>2, <1>3, <1>4
<1> HIDE DEF l
<1>10. QED
  BY <1>1, <1>2, <1>5, <1>7, <1>8, <1>9 DEF PieceInv

\* The reply that Finish adds.
Reply(right) ==
  LET reply == set_output_http_info(ResultText(right), http.header, http.type)
  IN  [reply EXCEPT !.text = @ \o <<"NUL">>]

\* The text of a reply with such fields.
ReplyText(right, header, type) ==
  set_output_http_info(ResultText(right), header, type).text \o <<"NUL">>

\* The reply of set_output_http_info, with the NUL that write_buf sends.
LEMMA Replied ==
  ASSUME NEW right \in BOOLEAN, http.header \in Texts, http.type \in Texts
  PROVE  /\ Reply(right) \in [length : Nat, text : Texts]
         /\ Reply(right).length = 3 /\ Reply(right).text = ReplyText(right, http.header, http.type)
<1> DEFINE h == http.header
           t == http.type
           c == ResultText(right)
<1>1. \A a, b \in Texts : a \o b \in Texts
  BY ConcatProperties DEF Texts
<1>2. <<"SP", "S">> \in Texts /\ <<"CT", "SP">> \in Texts /\ <<"L">> \in Texts /\ <<"N">> \in Texts
      /\ <<"D", "LF">> \in Texts /\ <<"NUL">> \in Texts /\ CRLF \in Texts
  BY KnownSymbols, CrlfText, ShortSeq DEF Texts
<1>3. c \in Texts /\ Len(c) = 3
  <2>1. (IF right THEN "0" ELSE "1") \in Symbols /\ "{" \in Symbols /\ "}" \in Symbols
    BY SymbolsAssumption, Zenon
  <2>2. QED
    BY <2>1, ThreeSeq DEF ResultText, Texts
<1>4. DateLine \in Texts
  BY <1>1, <1>2 DEF DateLine
<1> DEFINE o == set_output_http_info(c, h, t)
<1> HIDE DEF h, t, c
<1>5. o.text \in Texts /\ o.length = 3
  <2>1. h \in Texts /\ t \in Texts
    BY DEF h, t
  <2>2. o.text = h \o <<"SP", "S">> \o CRLF \o <<"CT", "SP">> \o t \o CRLF
                 \o <<"L">> \o CRLF \o <<"N">> \o CRLF \o DateLine \o c
    BY DEF set_output_http_info
  <2>3. QED
    BY <1>1, <1>2, <1>3, <1>4, <2>1, <2>2 DEF set_output_http_info
<1>6. o.text \o <<"NUL">> \in Texts
  BY <1>1, <1>2, <1>5
<1>7. DOMAIN o = {"length", "text"}
  BY DEF set_output_http_info
<1>8. o = [length |-> o.length, text |-> o.text]
  BY DEF set_output_http_info
<1> HIDE DEF o
<1> DEFINE r == [o EXCEPT !.text = @ \o <<"NUL">>]
<1>9. r.length = 3 /\ r.text = o.text \o <<"NUL">>
  BY <1>5, <1>7
<1>10. r \in [length : Nat, text : Texts]
  <2> DEFINE x == o.text \o <<"NUL">>
  <2>1. r = [o EXCEPT !.text = x]
    OBVIOUS
  <2>2. x \in Texts /\ o.length \in Nat /\ o.text \in Texts
    BY <1>5, <1>6
  <2> HIDE DEF x
  <2>3. o \in [length : Nat, text : Texts]
    BY <1>8, <2>2
  <2> HIDE DEF r
  <2>4. QED
    BY <2>1, <2>2, <2>3
<1>11. Reply(right) = r
  BY DEF Reply, r, o, c, h, t
<1> HIDE DEF r
<1>12. ReplyText(right, http.header, http.type) = o.text \o <<"NUL">>
  BY DEF ReplyText, o, c, h, t
<1>13. QED
  BY <1>9, <1>10, <1>11, <1>12

\* The end of buffered_on_read adds at most one content and one reply.
LEMMA PieceInvFinish == PieceInv /\ Finish => PieceInv'
<1>1. SUFFICES ASSUME PieceInv, Finish PROVE PieceInv'
  OBVIOUS
<1> DEFINE content == SubSeq(recvbuf, j + 1, Len(recvbuf))
           lengths == JsonLengths(content)
           place   == at - Len(recvbuf) + j
           new     == [place |-> place, text |-> SubSeq(content, 1, Min(lengths))]
<1>2. /\ pc = "scan" /\ UNCHANGED <<conv, at, reads, aligned, recvbuf, j, http>>
      /\ \/ pc' = "fault" /\ UNCHANGED <<accepted, replies>>
         \/ /\ pc' = "idle"
            /\ accepted' = IF lengths = {} THEN accepted ELSE Append(accepted, new)
            /\ replies' = Append(replies, Reply(lengths # {}))
  BY <1>1, Zenon DEF Finish, Reply
<1>3. conv' = conv /\ Stream' = Stream
  BY <1>2, StreamKept
<1>4. /\ Reply(lengths # {}) \in [length : Nat, text : Texts]
      /\ replies \in Seq([length : Nat, text : Texts]) /\ Len(replies) < reads /\ reads \in Nat
  <2>1. http.header \in Texts /\ http.type \in Texts /\ (lengths # {}) \in BOOLEAN
    BY <1>1 DEF PieceInv
  <2> HIDE DEF lengths
  <2>2. Reply(lengths # {}) \in [length : Nat, text : Texts]
    BY <2>1, Replied
  <2>3. QED
    BY <1>1, <1>2, <2>2, MessagesAssumption DEF PieceInv
<1>5. ASSUME lengths # {}
      PROVE  new \in [place : Int, text : Texts]
  <2>1. recvbuf \in Seq(Symbols) /\ Len(recvbuf) \in Nat /\ j \in Nat /\ at \in Nat
    BY <1>1, SentTypes DEF PieceInv, Texts
  <2>2. content \in Seq(Symbols)
    <3>1. j + 1 \in Int /\ Len(recvbuf) \in Int /\ \A i \in (j + 1)..Len(recvbuf) : recvbuf[i] \in Symbols
      BY <2>1
    <3>2. QED
      BY <3>1, SubSeqProperties
  <2> HIDE DEF content
  <2>3. lengths \in SUBSET Nat
    BY <2>2 DEF JsonLengths
  <2>4. Min(lengths) \in lengths
    <3> HIDE DEF lengths
    <3>1. QED
      BY <1>5, <2>3, LeastNumber
  <2>5. Min(lengths) \in 1..Len(content)
    BY <2>4 DEF JsonLengths
  <2> DEFINE m == Min(lengths)
  <2>6. SubSeq(content, 1, m) \in Texts
    <3> HIDE DEF m
    <3>1. 1 \in Int /\ m \in Int /\ \A i \in 1..m : content[i] \in Symbols
      BY <2>2, <2>5 DEF m
    <3>2. QED
      BY <3>1, SubSeqProperties DEF Texts
  <2>7. place \in Int
    BY <2>1
  <2> HIDE DEF place, lengths
  <2>8. QED
    BY <2>6, <2>7
<1> HIDE DEF new, lengths
<1>6. /\ replies' \in Seq([length : Nat, text : Texts]) /\ accepted' \in Seq([place : Int, text : Texts])
      /\ Len(replies') <= reads /\ Len(accepted') <= Len(replies')
  <2> DEFINE R == [length : Nat, text : Texts]
             A == [place : Int, text : Texts]
             q == Reply(lengths # {})
  <2>1. replies \in Seq(R) /\ accepted \in Seq(A) /\ q \in R /\ Len(replies) < reads /\ reads \in Nat
        /\ (lengths # {} => new \in A) /\ Len(accepted) <= Len(replies)
    BY <1>1, <1>4, <1>5 DEF PieceInv
  <2>2. \/ accepted' = accepted /\ replies' = replies
        \/ accepted' = accepted /\ replies' = Append(replies, q)
        \/ lengths # {} /\ accepted' = Append(accepted, new) /\ replies' = Append(replies, q)
    BY <1>2
  <2> HIDE DEF R, A, q
  <2>3. /\ Append(replies, q) \in Seq(R) /\ Len(Append(replies, q)) = Len(replies) + 1
        /\ Len(replies) \in Nat /\ Len(accepted) \in Nat
    BY <2>1
  <2>4. lengths # {} => Append(accepted, new) \in Seq(A) /\ Len(Append(accepted, new)) = Len(accepted) + 1
    BY <2>1
  <2>5. replies' \in Seq(R) /\ accepted' \in Seq(A) /\ Len(replies') <= reads /\ Len(accepted') <= Len(replies')
    <3>1. CASE accepted' = accepted /\ replies' = replies
      BY <2>1, <3>1
    <3>2. CASE accepted' = accepted /\ replies' = Append(replies, q)
      <4>1. replies' \in Seq(R) /\ Len(replies') = Len(replies) + 1
        BY <2>3, <3>2
      <4>2. QED
        BY <2>1, <2>3, <3>2, <4>1
    <3>3. CASE lengths # {} /\ accepted' = Append(accepted, new) /\ replies' = Append(replies, q)
      <4>1. replies' \in Seq(R) /\ Len(replies') = Len(replies) + 1
        BY <2>3, <3>3
      <4>2. accepted' \in Seq(A) /\ Len(accepted') = Len(accepted) + 1
        BY <2>4, <3>3
      <4>3. QED
        BY <2>1, <2>3, <4>1, <4>2
    <3>4. QED
      BY <2>2, <3>1, <3>2, <3>3
  <2>6. QED
    BY <2>5 DEF R, A
<1>7. QED
  BY <1>1, <1>2, <1>3, <1>6 DEF PieceInv, Fields

\* Every step of the handler keeps the invariant.
LEMMA PieceInvStep == PieceInv /\ [Next]_vars => PieceInv'
<1>1. ASSUME PieceInv, UNCHANGED vars
      PROVE  PieceInv'
  <2>1. Stream' = Stream
    BY <1>1, StreamKept DEF vars
  <2>2. QED
    BY <1>1, <2>1 DEF vars, PieceInv, Fields
<1>2. QED
  BY <1>1, PieceInvRead, PieceInvLine, PieceInvFinish DEF Next

\* The invariant holds always.
LEMMA SpecPieceInv == Spec => []PieceInv
  BY PieceInvInit, PieceInvStep, PTL DEF Spec

\* For any conversations, buffer sizes and number of reads every variable of the
\* handler keeps its type: j of get_input_http_info stays at most one place after the
\* end of what was read, and no read is answered twice.
THEOREM TypeCorrect == Spec => []TypeOK
  BY SpecPieceInv, PieceInvTypes, PTL

-----------------------------------------------------------------------------
(* A line that begins with the name of a method or a header field ends     *)
(* before the next line feed.                                              *)

\* After the name of a method or a header field a line end comes before a line feed.
Shut(u) ==
  \A a \in 1..Len(u) : u[a] \in {"M", "CT"} =>
    \E c \in a..Len(u) : u[c] = "CR" /\ \A i \in a..c : u[i] # "LF"

\* Texts in which every line ends, put together, are such a text.
LEMMA ShutConcat ==
  ASSUME NEW u \in Texts, NEW v \in Texts, Shut(u), Shut(v)
  PROVE  Shut(u \o v)
<1> DEFINE w == u \o v
           n == Len(u)
           l == Len(v)
<1>1. /\ w \in Texts /\ Len(w) = n + l /\ n \in Nat /\ l \in Nat
      /\ \A i \in 1..(n + l) : w[i] = IF i <= n THEN u[i] ELSE v[i - n]
  BY ConcatProperties DEF Texts
<1> HIDE DEF w
<1>2. ASSUME NEW a \in 1..(n + l), w[a] \in {"M", "CT"}
      PROVE  \E c \in a..(n + l) : w[c] = "CR" /\ \A i \in a..c : w[i] # "LF"
  <2>1. CASE a <= n
    <3>1. a \in 1..n /\ u[a] = w[a]
      BY <1>1, <2>1
    <3>2. PICK c \in a..n : u[c] = "CR" /\ \A i \in a..c : u[i] # "LF"
      BY <1>2, <3>1 DEF Shut
    <3>3. c \in a..(n + l) /\ w[c] = u[c] /\ \A i \in a..c : w[i] = u[i]
      BY <1>1, <3>1
    <3>4. QED
      BY <3>2, <3>3
  <2>2. CASE a > n
    <3>1. a - n \in 1..l /\ v[a - n] = w[a]
      BY <1>1, <2>2
    <3>2. PICK c \in (a - n)..l : v[c] = "CR" /\ \A i \in (a - n)..c : v[i] # "LF"
      BY <1>2, <3>1 DEF Shut
    <3>3. c + n \in a..(n + l) /\ ~(c + n <= n) /\ (c + n) - n = c
      BY <1>1, <2>2, <3>1
    <3>4. w[c + n] = v[c]
      BY <1>1, <3>1, <3>3
    <3>5. ASSUME NEW i \in a..(c + n)
          PROVE  w[i] # "LF"
      <4>1. i \in 1..(n + l) /\ ~(i <= n) /\ i - n \in (a - n)..c
        BY <1>1, <2>2, <3>1
      <4>2. w[i] = v[i - n]
        BY <1>1, <4>1
      <4>3. QED
        BY <3>2, <4>1, <4>2
    <3>6. QED
      BY <3>2, <3>3, <3>4, <3>5
  <2>3. QED
    BY <1>1, <2>1, <2>2
<1>3. Shut(w)
  BY <1>1, <1>2 DEF Shut
<1>4. QED
  BY <1>3 DEF w

\* The same for any number of texts.
LEMMA ShutAll ==
  ASSUME NEW seqs \in Seq(Texts), \A k \in 1..Len(seqs) : Shut(seqs[k])
  PROVE  Shut(FlattenSeq(seqs))
<1> DEFINE C == {u \in Texts : Shut(u)}
<1>1. << >> \in C
  BY DEF Shut, Texts
<1>2. ASSUME NEW a \in C, NEW b \in C
      PROVE  a \o b \in C
  BY ShutConcat, ConcatProperties DEF Texts
<1>3. seqs \in Seq(C)
  BY DEF Texts
<1>4. C \subseteq Seq(Symbols) /\ Len(seqs) \in 0..Len(seqs)
  BY DEF Texts
<1> HIDE DEF C
<1>5. Joined(seqs, Len(seqs)) \in C
  BY <1>1, <1>2, <1>3, <1>4, JoinedClosed
<1>6. Joined(seqs, Len(seqs)) = FlattenSeq(seqs)
  BY JoinedSteps DEF Texts
<1>7. QED
  BY <1>5, <1>6 DEF C

\* A line of a message with its "\r\n".
LEMMA EndedLine ==
  ASSUME NEW m \in Messages, NEW k \in 1..Len(Lines(m))
  PROVE  /\ Lines(m)[k] \in Texts /\ Ended(m)[k] \in Texts
         /\ Len(Ended(m)[k]) = Len(Lines(m)[k]) + 2 /\ Len(Lines(m)[k]) \in Nat
         /\ \A o \in 1..Len(Lines(m)[k]) : Ended(m)[k][o] = Lines(m)[k][o]
         /\ Ended(m)[k][Len(Lines(m)[k]) + 1] = "CR" /\ Ended(m)[k][Len(Lines(m)[k]) + 2] = "LF"
<1> DEFINE l == Lines(m)[k]
           n == Len(l)
<1>1. Lines(m) \in Seq(Texts) /\ l \in Texts /\ Ended(m)[k] = l \o CRLF
  <2>1. Lines(m) \in Seq(Texts)
    BY MessageTypes
  <2>2. l \in Texts /\ k \in DOMAIN Lines(m)
    BY <2>1
  <2>3. QED
    BY <2>1, <2>2 DEF Ended
<1> HIDE DEF l
<1>2. /\ l \o CRLF \in Texts /\ Len(l \o CRLF) = n + 2 /\ n \in Nat
      /\ \A o \in 1..n : (l \o CRLF)[o] = l[o]
  <2>1. l \o CRLF \in Texts
    BY <1>1, CrlfText, ConcatText
  <2>2. CRLF \in Texts /\ Len(CRLF) = 2
    BY CrlfText
  <2>3. /\ Len(l \o CRLF) = Len(l) + Len(CRLF) /\ Len(l) \in Nat
        /\ \A o \in 1..Len(l) : (l \o CRLF)[o] = l[o]
    BY <1>1, <2>2, ConcatAt, Zenon
  <2>4. QED
    BY <2>1, <2>2, <2>3
<1>3. (l \o CRLF)[n + 1] = CRLF[1] /\ (l \o CRLF)[n + 2] = CRLF[2]
  <2>1. 1 \in 1..Len(CRLF) /\ 2 \in 1..Len(CRLF)
    BY CrlfText
  <2>2. \A o \in 1..Len(CRLF) : (l \o CRLF)[n + o] = CRLF[o]
    BY <1>1, CrlfText, ConcatAt
  <2>3. QED
    BY <2>1, <2>2
<1>4. QED
  BY <1>1, <1>2, <1>3, CrlfText DEF l

\* The first line is not empty, and it is the beginning of the message.
LEMMA MessageStarts ==
  ASSUME NEW m \in Messages
  PROVE  /\ Len(FirstLine(m)) >= 3 /\ FirstLine(m)[1] = "M" /\ FirstLine(m)[2] = "SP"
         /\ Len(Header(m)) >= 7 /\ Len(Header(m)) \in Nat
         /\ Text(m)[1] = "M"
<1>1. /\ m.path \in Texts /\ m.protocol \in Texts /\ Lines(m) \in Seq(Texts) /\ Len(m.head) \in Nat
      /\ Len(Lines(m)) = Len(m.head) + 2
      /\ Lines(m)[1] = FirstLine(m) /\ FirstLine(m) \in Texts /\ Header(m) \in Texts /\ m.body \in Texts
      /\ Ended(m) \in Seq(Texts) /\ Len(Ended(m)) = Len(Lines(m)) /\ Header(m) = FlattenSeq(Ended(m))
  BY MessageTypes
<1>2. <<"M", "SP">> \in Texts /\ <<"SP">> \in Texts
  BY KnownSymbols, ShortSeq DEF Texts
<1>3. /\ Len(FirstLine(m)) >= 3 /\ FirstLine(m)[1] = "M" /\ FirstLine(m)[2] = "SP"
  <2> DEFINE p == m.path
             r == m.protocol
             x == <<"M", "SP">>
             y == <<"SP">>
             a == x \o p
             b == a \o y
             c == b \o r
  <2>1. p \in Texts /\ r \in Texts /\ x \in Texts /\ y \in Texts
    BY <1>1, <1>2
  <2>2. FirstLine(m) = c
    BY DEF FirstLine
  <2>3. Len(x) = 2 /\ x[1] = "M" /\ x[2] = "SP" /\ Len(y) = 1
    OBVIOUS
  <2> HIDE DEF p, r, x, y
  <2>4. a \in Texts /\ Len(a) = 2 + Len(p) /\ a[1] = x[1] /\ a[2] = x[2] /\ Len(p) \in Nat
    <3>1. 1 \in 1..Len(x) /\ 2 \in 1..Len(x)
      BY <2>3
    <3>2. a \in Texts
      BY <2>1, ConcatText
    <3>3. Len(a) = Len(x) + Len(p) /\ Len(p) \in Nat /\ \A i \in 1..Len(x) : a[i] = x[i]
      BY <2>1, ConcatAt, Zenon
    <3> HIDE DEF a
    <3>4. QED
      BY <2>3, <3>1, <3>2, <3>3
  <2> HIDE DEF a
  <2>5. b \in Texts /\ Len(b) = 3 + Len(p) /\ b[1] = a[1] /\ b[2] = a[2] /\ Len(p) \in Nat
    <3>1. 1 \in 1..Len(a) /\ 2 \in 1..Len(a)
      BY <2>4
    <3>2. b \in Texts
      BY <2>1, <2>4, ConcatText
    <3>3. Len(b) = Len(a) + Len(y) /\ \A i \in 1..Len(a) : b[i] = a[i]
      BY <2>1, <2>4, ConcatAt, Zenon
    <3> HIDE DEF b
    <3>4. QED
      BY <2>3, <2>4, <3>1, <3>2, <3>3
  <2> HIDE DEF b
  <2>6. c \in Texts /\ Len(c) = 3 + Len(p) + Len(r) /\ c[1] = b[1] /\ c[2] = b[2] /\ Len(r) \in Nat
    <3>1. 1 \in 1..Len(b) /\ 2 \in 1..Len(b)
      BY <2>5
    <3>2. c \in Texts
      BY <2>1, <2>5, ConcatText
    <3>3. Len(c) = Len(b) + Len(r) /\ Len(r) \in Nat /\ \A i \in 1..Len(b) : c[i] = b[i]
      BY <2>1, <2>5, ConcatAt, Zenon
    <3> HIDE DEF c
    <3>4. QED
      BY <2>5, <3>1, <3>2, <3>3
  <2>7. QED
    BY <2>2, <2>3, <2>4, <2>5, <2>6
<1>4. 1 \in 1..Len(Lines(m)) /\ 2 \in 1..Len(Lines(m)) /\ 0 \in 0..Len(Lines(m)) /\ 2 \in 0..Len(Lines(m))
  BY <1>1
<1> DEFINE e == Ended(m)
<1>5. Off(e, 0) = 0 /\ Off(e, 1) = Off(e, 0) + Len(e[1]) /\ Off(e, 2) = Off(e, 1) + Len(e[2])
      /\ Off(e, 2) <= Len(Header(m))
  <2>1. /\ Off(e, 0) = 0 /\ Off(e, Len(e)) = Len(FlattenSeq(e))
        /\ \A n \in 1..Len(e) : Off(e, n) = Off(e, n - 1) + Len(e[n])
        /\ \A i, n \in 0..Len(e) : i <= n => Off(e, i) <= Off(e, n)
    BY <1>1, OffFacts DEF Texts
  <2>2. 1 \in 1..Len(e) /\ 2 \in 1..Len(e) /\ 2 \in 0..Len(e) /\ Len(e) \in 0..Len(e) /\ 2 <= Len(e)
    BY <1>1
  <2> HIDE DEF e
  <2>3. Off(e, 2) <= Off(e, Len(e)) /\ Off(e, 1) = Off(e, 1 - 1) + Len(e[1]) /\ Off(e, 2) = Off(e, 2 - 1) + Len(e[2])
    BY <2>1, <2>2
  <2>4. Header(m) = FlattenSeq(e)
    BY <1>1 DEF e
  <2>5. QED
    BY <2>1, <2>3, <2>4
<1>6. Len(e[1]) = Len(FirstLine(m)) + 2 /\ Len(e[2]) = Len(Lines(m)[2]) + 2 /\ Len(Lines(m)[2]) \in Nat
  BY <1>1, <1>4, EndedLine
<1>7. Len(Header(m)) >= 7 /\ Len(Header(m)) \in Nat
  <2>1. Len(Header(m)) \in Nat /\ Len(FirstLine(m)) \in Nat
    BY <1>1 DEF Texts
  <2> HIDE DEF e
  <2>2. QED
    BY <1>3, <1>5, <1>6, <2>1
<1>8. Header(m)[1] = "M"
  <2>1. 1 \in 1..Len(e[1])
    BY <1>1, <1>3, <1>6 DEF Texts
  <2>2. 1 \in 1..Len(e) /\ e \in Seq(Seq(Symbols))
    BY <1>1, <1>4 DEF Texts
  <2>3. FlattenSeq(e)[Off(e, 1 - 1) + 1] = e[1][1]
    <3> HIDE DEF e
    <3>1. QED
      BY <2>1, <2>2, PartAt
  <2>4. e[1][1] = Lines(m)[1][1]
    <3>1. 1 \in 1..Len(Lines(m)[1])
      BY <1>1, <1>3 DEF Texts
    <3>2. QED
      BY <1>4, <3>1, EndedLine
  <2> HIDE DEF e
  <2>5. Header(m) = FlattenSeq(e) /\ Off(e, 1 - 1) + 1 = 1
    BY <1>1, <1>5 DEF e
  <2>6. QED
    BY <1>1, <1>3, <2>3, <2>4, <2>5
<1>9. Text(m)[1] = Header(m)[1]
  <2> DEFINE h == Header(m)
             b == m.body
  <2>1. h \in Texts /\ b \in Texts /\ Len(h) >= 7 /\ Len(h) \in Nat
    BY <1>1, <1>7
  <2> HIDE DEF h, b
  <2>2. (h \o b)[1] = h[1]
    BY <2>1, ConcatProperties DEF Texts
  <2>3. QED
    BY <2>2 DEF Text, h, b
<1>10. QED
  BY <1>3, <1>7, <1>8, <1>9

\* In the stream every line that begins with the name of a method or a header field
\* ends before the next line feed.
LEMMA StreamShut ==
  ASSUME conv \in Conversations
  PROVE  Shut(Stream)
<1>1. ASSUME NEW m \in Messages, WellFormed(m), NEW k \in 1..Len(Lines(m))
      PROVE  Shut(Ended(m)[k])
  <2> DEFINE l == Lines(m)[k]
             e == Ended(m)[k]
             n == Len(l)
  <2>1. ~Has(l, "CR") /\ ~Has(l, "LF")
    <3>1. k \in DOMAIN Lines(m)
      BY MessageTypes
    <3>2. QED
      BY <1>1, <3>1, WellFormedParts
  <2>2. /\ l \in Texts /\ e \in Texts /\ Len(e) = n + 2 /\ n \in Nat
        /\ \A o \in 1..n : e[o] = l[o]
        /\ e[n + 1] = "CR" /\ e[n + 2] = "LF"
    BY EndedLine
  <2> HIDE DEF l, e
  <2>3. \A o \in 1..n : l[o] # "CR" /\ l[o] # "LF"
    BY <2>1, <2>2 DEF Has, Texts
  <2>4. ASSUME NEW a \in 1..(n + 2), e[a] \in {"M", "CT"}
        PROVE  \E c \in a..(n + 2) : e[c] = "CR" /\ \A i \in a..c : e[i] # "LF"
    <3>1. a # n + 1 /\ a # n + 2
      BY <2>2, <2>4
    <3>2. n + 1 \in a..(n + 2)
      BY <2>2, <3>1
    <3>3. ASSUME NEW i \in a..(n + 1)
          PROVE  e[i] # "LF"
      <4>1. i \in 1..n \/ i = n + 1
        BY <2>2
      <4>2. QED
        BY <2>2, <2>3, <4>1
    <3>4. QED
      BY <2>2, <3>2, <3>3
  <2>5. QED
    BY <2>2, <2>4 DEF e, Shut
<1>2. ASSUME NEW m \in Messages, WellFormed(m)
      PROVE  Shut(Text(m))
  <2>1. Shut(Header(m))
    <3>1. Ended(m) \in Seq(Texts) /\ Len(Ended(m)) = Len(Lines(m)) /\ Header(m) = FlattenSeq(Ended(m))
      BY MessageTypes
    <3>2. QED
      BY <1>1, <1>2, <3>1, ShutAll
  <2>2. Shut(m.body)
    <3> DEFINE h == Header(m)
               b == m.body
               t == Text(m)
    <3>1. /\ h \in Texts /\ b \in Texts /\ t \in Texts /\ t = h \o b
          /\ Len(h) >= 7 /\ Len(h) \in Nat /\ Len(b) \in Nat
      BY MessageTypes, MessageStarts DEF Text, Texts
    <3>2. ~Has(Tail(t), "M") /\ ~Has(b, "CT")
      BY <1>2, WellFormedParts
    <3> HIDE DEF h, b, t
    <3>3. /\ Len(t) = Len(h) + Len(b) /\ \A i \in 1..Len(b) : t[Len(h) + i] = b[i]
      BY <3>1, ConcatAt, Zenon
    <3>4. \A i \in 1..(Len(t) - 1) : Tail(t)[i] = t[i + 1] /\ i \in DOMAIN Tail(t)
      BY <3>1, <3>3 DEF Texts
    <3>5. ASSUME NEW i \in 1..Len(b)
          PROVE  b[i] # "M" /\ b[i] # "CT"
      <4>1. Len(h) + i - 1 \in 1..(Len(t) - 1) /\ (Len(h) + i - 1) + 1 = Len(h) + i
        BY <3>1, <3>3
      <4>2. Tail(t)[Len(h) + i - 1] = b[i] /\ Len(h) + i - 1 \in DOMAIN Tail(t)
        BY <3>3, <3>4, <4>1
      <4>3. b[i] # "M"
        BY <3>2, <4>2 DEF Has
      <4>4. i \in DOMAIN b
        BY <3>1 DEF Texts
      <4>5. QED
        BY <3>2, <4>3, <4>4 DEF Has
    <3>6. Shut(b)
      BY <3>5 DEF Shut
    <3>7. QED
      BY <3>6 DEF b
  <2>3. Header(m) \in Texts /\ m.body \in Texts
    BY MessageTypes
  <2>4. QED
    BY <2>1, <2>2, <2>3, ShutConcat DEF Text
<1>3. /\ Sent \in Seq(Texts) /\ Len(Sent) = Len(conv) /\ Stream = FlattenSeq(Sent)
      /\ \A c \in 1..Len(conv) : Sent[c] = Text(conv[c])
      /\ conv \in Seq(Messages) /\ \A c \in 1..Len(conv) : WellFormed(conv[c])
  BY SentTypes
<1>4. \A c \in 1..Len(Sent) : Shut(Sent[c])
  BY <1>2, <1>3
<1>5. QED
  BY <1>3, <1>4, ShutAll

-----------------------------------------------------------------------------
(* The replies: the fields hold no line feed, so that the only empty line  *)
(* is the one before the content.                                          *)

\* A text without line feed.
OneLine(t) == t \in Texts /\ ~Has(t, "LF")

\* The fields, also those the replies were made of, are of one line.
FramedInv ==
  /\ OneLine(http.header) /\ OneLine(http.type)
  /\ \A r \in DOMAIN replies :
       \E right \in BOOLEAN : \E h, t :
         /\ OneLine(h) /\ OneLine(t)
         /\ replies[r].length = 3 /\ replies[r].text = ReplyText(right, h, t)

\* A part of a line that begins with the name of a method or a header field
\* holds no line feed.
LEMMA TakenOneLine ==
  ASSUME PieceInv, Returns # {}, NEW k \in 1..Len(recvbuf), k = Min(Returns),
         j < Len(recvbuf), recvbuf[j + 1] \in {"M", "CT"},
         NEW a \in Int, a >= 1
  PROVE  OneLine(SubSeq(TheLine(k), a, Len(TheLine(k))))
<1> DEFINE l == TheLine(k)
           o == at - Len(recvbuf)
           p == SubSeq(l, a, Len(l))
<1>1. /\ j < k /\ recvbuf[k] = "CR"
      /\ \A i \in (j + 1)..(k - 1) : recvbuf[i] # "CR"
      /\ l \in Texts /\ Len(l) = k - 1 - j
      /\ \A i \in 1..(k - 1 - j) : l[i] = recvbuf[j + i]
  BY NextReturn
<1>2. /\ j \in Nat /\ Len(recvbuf) \in Nat /\ o \in Nat /\ at <= Len(Stream) /\ at \in Nat /\ Len(Stream) \in Nat
      /\ \A i \in 1..Len(recvbuf) : recvbuf[i] = Stream[o + i]
      /\ Shut(Stream) /\ o + Len(recvbuf) = at
  <2>1. /\ conv \in Conversations /\ at \in 0..Len(Stream) /\ Len(recvbuf) <= at /\ recvbuf \in Texts
        /\ j \in 0..(Len(recvbuf) + 1)
        /\ \A i \in 1..Len(recvbuf) : recvbuf[i] = Stream[at - Len(recvbuf) + i]
    BY DEF PieceInv
  <2>2. Len(Stream) \in Nat /\ Shut(Stream) /\ Len(recvbuf) \in Nat
    BY <2>1, SentTypes, StreamShut DEF Texts
  <2>3. QED
    BY <2>1, <2>2
<1> HIDE DEF l, o, p
<1>3. ASSUME NEW i \in (j + 1)..(k - 1)
      PROVE  recvbuf[i] # "LF"
  <2>1. j + 1 \in 1..Len(recvbuf) /\ o + (j + 1) \in 1..Len(Stream)
    BY <1>1, <1>2
  <2>2. Stream[o + (j + 1)] \in {"M", "CT"}
    BY <1>2, <2>1
  <2>3. PICK c \in (o + (j + 1))..Len(Stream) :
          Stream[c] = "CR" /\ \A x \in (o + (j + 1))..c : Stream[x] # "LF"
    BY <1>2, <2>1, <2>2 DEF Shut
  <2>4. ~(c - o \in (j + 1)..(k - 1))
    <3>1. SUFFICES ASSUME c - o \in (j + 1)..(k - 1) PROVE FALSE
      OBVIOUS
    <3>2. c - o \in 1..Len(recvbuf) /\ o + (c - o) = c
      BY <1>2, <3>1
    <3>3. recvbuf[c - o] = Stream[o + (c - o)]
      BY <1>2, <3>2
    <3>4. recvbuf[c - o] = "CR"
      BY <2>3, <3>2, <3>3
    <3>5. QED
      BY <1>1, <3>1, <3>4
  <2>5. c - o >= j + 1
    BY <1>2, <2>1
  <2>6. c - o > k - 1
    BY <1>2, <2>1, <2>4, <2>5
  <2>7. o + i \in (o + (j + 1))..c /\ i \in 1..Len(recvbuf)
    BY <1>2, <2>1, <2>6
  <2>8. QED
    BY <1>2, <2>3, <2>7
<1>4. Len(l) \in Int /\ \A i \in 1..Len(l) : l[i] \in Symbols /\ l[i] # "LF"
  <2>1. l \in Seq(Symbols)
    BY <1>1 DEF Texts
  <2>2. ASSUME NEW i \in 1..Len(l)
        PROVE  l[i] # "LF"
    <3>1. j + i \in (j + 1)..(k - 1) /\ i \in 1..(k - 1 - j)
      BY <1>1, <1>2
    <3>2. QED
      BY <1>1, <1>3, <3>1
  <2>3. QED
    BY <2>1, <2>2
<1>5. /\ p \in Seq(Symbols) /\ Len(p) = IF a <= Len(l) THEN Len(l) - a + 1 ELSE 0
      /\ \A i \in 1..(Len(l) - a + 1) : p[i] = l[a + i - 1]
  <2>1. a \in Int /\ Len(l) \in Int /\ \A i \in a..Len(l) : l[i] \in Symbols
    BY <1>4
  <2>2. QED
    BY <2>1, SubSeqProperties DEF p
<1>6. ASSUME NEW i \in DOMAIN p
      PROVE  p[i] # "LF"
  <2>1. i \in 1..(Len(l) - a + 1) /\ a + i - 1 \in 1..Len(l)
    BY <1>4, <1>5
  <2>2. QED
    BY <1>4, <1>5, <2>1
<1>7. OneLine(p)
  BY <1>5, <1>6 DEF OneLine, Texts, Has
<1>8. QED
  BY <1>7 DEF p, l

\* In the beginning there are no fields and no replies.
LEMMA FramedInit == Init => FramedInv
<1>1. OneLine(<< >>)
  BY DEF OneLine, Texts, Has
<1>2. QED
  BY <1>1 DEF Init, FramedInv, NoFields

\* The fields get_input_http_info takes from a line hold no line feed.
LEMMA FramedLine == PieceInv /\ FramedInv /\ Line => FramedInv'
<1>1. SUFFICES ASSUME PieceInv, FramedInv, Line PROVE FramedInv'
  OBVIOUS
<1>2. Returns # {} /\ replies' = replies /\ pc = "scan"
  BY <1>1, Zenon DEF Line
<1>3. PICK k \in 1..Len(recvbuf) :
        /\ k = Min(Returns) /\ j < k
        /\ TheLine(k) \in Texts /\ Len(TheLine(k)) = k - 1 - j
        /\ \A i \in 1..(k - 1 - j) : TheLine(k)[i] = recvbuf[j + i]
  BY <1>1, <1>2, NextReturn
<1> DEFINE l == TheLine(k)
<1>4. \/ pc' = "fault" /\ http' = http
      \/ j = 0 /\ TakeFirstLine(l)
      \/ TakeLine(l)
  BY <1>1, <1>3, Zenon DEF Line, TheLine
<1>5. /\ j \in Nat /\ Len(recvbuf) \in Nat /\ recvbuf[1] = "M"
  BY <1>1, <1>2 DEF PieceInv, Texts
<1>6. OneLine(http.header) /\ OneLine(http.type)
  BY <1>1 DEF FramedInv
<1>7. OneLine(http'.header) /\ OneLine(http'.type)
  <2>1. CASE http' = http
    BY <1>6, <2>1
  <2>2. CASE j = 0 /\ TakeFirstLine(l)
    <3>1. j < Len(recvbuf) /\ recvbuf[j + 1] \in {"M", "CT"}
      BY <1>3, <1>5, <2>2
    <3>2. \A a \in Int : a >= 1 => OneLine(SubSeq(l, a, Len(l)))
      BY <1>1, <1>2, <1>3, <3>1, TakenOneLine
    <3>3. \/ http' = http
          \/ \E b \in 1..Len(l) : http'.header = SubSeq(l, b + 1, Len(l)) /\ http'.type = http.type
          \/ http'.header = http.header /\ http'.type = SubSeq(l, 3, Len(l))
      <4> HIDE DEF l
      <4>1. QED
        BY <1>1, <1>3, <2>2, LineFields DEF l
    <3> HIDE DEF l
    <3>4. OneLine(SubSeq(l, 3, Len(l))) /\ \A b \in 1..Len(l) : OneLine(SubSeq(l, b + 1, Len(l)))
      BY <3>2
    <3>5. QED
      BY <1>6, <3>3, <3>4
  <2>3. CASE TakeLine(l) /\ http' # http
    <3>1. l[1] = "CT" /\ Bytes(l) > 14
      BY <2>3, Zenon DEF TakeLine
    <3>2. Len(l) # 0
      <4>1. l \in Texts
        BY <1>3
      <4> HIDE DEF l
      <4>2. SUFFICES ASSUME Len(l) = 0 PROVE FALSE
        OBVIOUS
      <4>3. Positions(l, "M") = {} /\ Positions(l, "CT") = {}
        BY <4>1, <4>2 DEF Positions, Texts
      <4>4. Cardinality({}) = 0
        BY FS_EmptySet
      <4>5. Bytes(l) = 0 + 3 * 0 + 12 * 0
        BY <4>2, <4>3, <4>4 DEF Bytes
      <4>6. QED
        BY <3>1, <4>5
    <3>3. 1 \in 1..(k - 1 - j) /\ j < Len(recvbuf)
      BY <1>3, <1>5, <3>2
    <3>4. recvbuf[j + 1] = "CT"
      BY <1>3, <3>1, <3>3
    <3>5. OneLine(SubSeq(l, 3, Len(l)))
      BY <1>1, <1>2, <1>3, <3>3, <3>4, TakenOneLine
    <3>6. http' = [http EXCEPT !.type = SubSeq(l, 3, Len(l))]
      BY <2>3, Zenon DEF TakeLine
    <3>7. DOMAIN http = {"method", "header", "type"}
      BY <1>1 DEF PieceInv, Fields
    <3> HIDE DEF l
    <3>8. http'.header = http.header /\ http'.type = SubSeq(l, 3, Len(l))
      BY <3>6, <3>7
    <3>9. QED
      BY <1>6, <3>5, <3>8
  <2>4. QED
    BY <1>4, <2>1, <2>2, <2>3
<1>8. QED
  BY <1>1, <1>2, <1>7 DEF FramedInv

\* The reply of set_output_http_info is laid out with the fields of the request.
LEMMA FramedFinish == PieceInv /\ FramedInv /\ Finish => FramedInv'
<1>1. SUFFICES ASSUME PieceInv, FramedInv, Finish PROVE FramedInv'
  OBVIOUS
<1> DEFINE right == JsonLengths(SubSeq(recvbuf, j + 1, Len(recvbuf))) # {}
<1>2. /\ http' = http
      /\ replies' = replies \/ replies' = Append(replies, Reply(right))
  BY <1>1, Zenon DEF Finish, Reply
<1>3. OneLine(http.header) /\ OneLine(http.type)
  BY <1>1 DEF FramedInv
<1>4. right \in BOOLEAN
  OBVIOUS
<1> HIDE DEF right
<1>5. Reply(right).length = 3 /\ Reply(right).text = ReplyText(right, http.header, http.type)
  BY <1>3, <1>4, Replied DEF OneLine
<1>6. replies \in Seq([length : Nat, text : Texts]) /\ Reply(right) \in [length : Nat, text : Texts]
  BY <1>1, <1>3, <1>4, Replied DEF PieceInv, OneLine
<1>7. CASE replies' = replies
  BY <1>1, <1>2, <1>7 DEF FramedInv
<1>8. CASE replies' = Append(replies, Reply(right))
  <2> DEFINE q == Reply(right)
             Good(x) == \E y \in BOOLEAN : \E h, t :
                         OneLine(h) /\ OneLine(t) /\ x.length = 3 /\ x.text = ReplyText(y, h, t)
  <2>1. Good(q)
    BY <1>3, <1>4, <1>5
  <2>2. \A r \in DOMAIN replies : Good(replies[r])
    BY <1>1 DEF FramedInv
  <2> HIDE DEF Good, q
  <2>3. \A r \in DOMAIN replies' : replies'[r] = q \/ (r \in DOMAIN replies /\ replies'[r] = replies[r])
    BY <1>6, <1>8 DEF q
  <2>4. \A r \in DOMAIN replies' : Good(replies'[r])
    BY <2>1, <2>2, <2>3
  <2>5. QED
    BY <1>2, <1>3, <2>4 DEF FramedInv, Good
<1>9. QED
  BY <1>2, <1>7, <1>8

\* Every step keeps the layout of the replies.
LEMMA FramedStep == PieceInv /\ FramedInv /\ [Next]_vars => FramedInv'
<1>1. ASSUME FramedInv, Read
      PROVE  FramedInv'
  <2>1. http' = NoFields /\ replies' = replies
    BY <1>1, Zenon DEF Read
  <2>2. OneLine(<< >>)
    BY DEF OneLine, Texts, Has
  <2>3. QED
    BY <1>1, <2>1, <2>2 DEF FramedInv, NoFields
<1>2. ASSUME FramedInv, UNCHANGED vars
      PROVE  FramedInv'
  BY <1>2 DEF FramedInv, vars
<1>3. QED
  BY <1>1, <1>2, FramedLine, FramedFinish DEF Next

\* Where the line feeds of a reply are.
LEMMA ReplyLayout ==
  ASSUME NEW h, OneLine(h), NEW t, OneLine(t), NEW right \in BOOLEAN
  PROVE  LET s == ReplyText(right, h, t)
             n == Len(h) + Len(t) + 18
         IN  /\ s \in Texts /\ Len(s) = n + 4 /\ n \in Nat /\ n >= 18
             /\ s[n] = "LF" /\ s[n - 1] = "CR" /\ s[n - 2] = "LF"
             /\ \A k \in 3..(n - 1) : s[k] = "LF" => s[k - 1] # "LF" /\ ~(s[k - 1] = "CR" /\ s[k - 2] = "LF")
             /\ \A k \in 1..3 : s[n + k] = ResultText(right)[k]
             /\ s[n + 4] = "NUL"
<1> DEFINE a == Len(h)
           b == Len(t)
           r == IF right THEN "0" ELSE "1"
           s1 == h \o <<"SP", "S">>
           s2 == s1 \o CRLF
           s3 == s2 \o <<"CT", "SP">>
           s4 == s3 \o t
           s5 == s4 \o CRLF
           s6 == s5 \o <<"L">>
           s7 == s6 \o CRLF
           s8 == s7 \o <<"N">>
           s9 == s8 \o CRLF
           d  == <<"D", "LF">> \o CRLF
           s10 == s9 \o d
           s11 == s10 \o ResultText(right)
           s12 == s11 \o <<"NUL">>
<1>1. ReplyText(right, h, t) = s12
  BY DEF ReplyText, set_output_http_info, DateLine
<1>2. /\ h \in Texts /\ t \in Texts /\ a \in Nat /\ b \in Nat
      /\ \A i \in 1..a : h[i] # "LF"
      /\ \A i \in 1..b : t[i] # "LF"
  BY DEF OneLine, Has, Texts
<1>3. ASSUME NEW u \in Texts, NEW x \in Symbols
      PROVE  /\ u \o <<x>> \in Texts /\ Len(u \o <<x>>) = Len(u) + 1
             /\ (u \o <<x>>)[Len(u) + 1] = x
             /\ \A i \in 1..Len(u) : (u \o <<x>>)[i] = u[i]
  <2>1. <<x>> \in Texts /\ Len(<<x>>) = 1 /\ <<x>>[1] = x /\ 1 \in 1..1
    BY DEF Texts
  <2>2. u \o <<x>> \in Texts
    BY <2>1, ConcatText
  <2>3. /\ Len(u \o <<x>>) = Len(u) + Len(<<x>>)
        /\ \A i \in 1..Len(u) : (u \o <<x>>)[i] = u[i]
        /\ \A i \in 1..Len(<<x>>) : (u \o <<x>>)[Len(u) + i] = <<x>>[i]
    BY <2>1, ConcatAt, Zenon
  <2>4. QED
    BY <2>1, <2>2, <2>3
<1>4. ASSUME NEW u \in Texts, NEW x \in Symbols, NEW y \in Symbols
      PROVE  /\ u \o <<x, y>> \in Texts /\ Len(u \o <<x, y>>) = Len(u) + 2
             /\ (u \o <<x, y>>)[Len(u) + 1] = x /\ (u \o <<x, y>>)[Len(u) + 2] = y
             /\ \A i \in 1..Len(u) : (u \o <<x, y>>)[i] = u[i]
  <2>1. <<x, y>> \in Texts /\ Len(<<x, y>>) = 2 /\ <<x, y>>[1] = x /\ <<x, y>>[2] = y /\ 1 \in 1..2 /\ 2 \in 1..2
    BY ShortSeq DEF Texts
  <2>2. u \o <<x, y>> \in Texts
    BY <2>1, ConcatText
  <2>3. /\ Len(u \o <<x, y>>) = Len(u) + Len(<<x, y>>)
        /\ \A i \in 1..Len(u) : (u \o <<x, y>>)[i] = u[i]
        /\ \A i \in 1..Len(<<x, y>>) : (u \o <<x, y>>)[Len(u) + i] = <<x, y>>[i]
    BY <2>1, ConcatAt, Zenon
  <2>4. QED
    BY <2>1, <2>2, <2>3
<1>5. ASSUME NEW u \in Texts
      PROVE  /\ u \o CRLF \in Texts /\ Len(u \o CRLF) = Len(u) + 2
             /\ (u \o CRLF)[Len(u) + 1] = "CR" /\ (u \o CRLF)[Len(u) + 2] = "LF"
             /\ \A i \in 1..Len(u) : (u \o CRLF)[i] = u[i]
  <2>1. "CR" \in Symbols /\ "LF" \in Symbols
    BY KnownSymbols
  <2>2. QED
    BY <1>4, <2>1 DEF CRLF
<1>s. /\ "SP" \in Symbols /\ "S" \in Symbols /\ "CT" \in Symbols /\ "L" \in Symbols /\ "N" \in Symbols
      /\ "D" \in Symbols /\ "LF" \in Symbols /\ "CR" \in Symbols /\ "NUL" \in Symbols /\ "{" \in Symbols
      /\ "}" \in Symbols /\ r \in Symbols
  BY SymbolsAssumption, Zenon
<1> HIDE DEF a, b, r, s1, s2, s3, s4, s5, s6, s7, s8, s9, s10, s11, s12, d
<1>6. /\ s1 \in Texts /\ Len(s1) = a + 2 /\ s1[a + 1] = "SP" /\ s1[a + 2] = "S"
      /\ \A i \in 1..a : s1[i] = h[i]
  <2>1. PICK x \in Symbols, y \in Symbols : x = "SP" /\ y = "S"
    BY <1>s
  <2>2. s1 = h \o <<x, y>>
    BY <2>1 DEF s1
  <2>2a. /\ h \o <<x, y>> \in Texts /\ Len(h \o <<x, y>>) = Len(h) + 2
         /\ (h \o <<x, y>>)[Len(h) + 1] = x /\ (h \o <<x, y>>)[Len(h) + 2] = y
         /\ \A i \in 1..Len(h) : (h \o <<x, y>>)[i] = h[i]
    <3>1. x \in Symbols /\ y \in Symbols /\ h \in Texts
      BY <1>2, <2>1
    <3>2. QED
      BY <1>4, <3>1
  <2>3. /\ s1 \in Texts /\ Len(s1) = a + 2 /\ s1[a + 1] = x /\ s1[a + 2] = y
        /\ \A i \in 1..a : s1[i] = h[i]
    BY <2>2, <2>2a DEF a
  <2>4. QED
    BY <2>1, <2>3
<1>7. /\ s2 \in Texts /\ Len(s2) = Len(s1) + 2 /\ s2[Len(s1) + 1] = "CR" /\ s2[Len(s1) + 2] = "LF"
      /\ \A i \in 1..Len(s1) : s2[i] = s1[i]
  BY <1>5, <1>6, Zenon DEF s2
<1>8. /\ s3 \in Texts /\ Len(s3) = Len(s2) + 2 /\ s3[Len(s2) + 1] = "CT" /\ s3[Len(s2) + 2] = "SP"
      /\ \A i \in 1..Len(s2) : s3[i] = s2[i]
  <2>1. PICK x \in Symbols, y \in Symbols : x = "CT" /\ y = "SP"
    BY <1>s
  <2>2. s3 = s2 \o <<x, y>>
    BY <2>1 DEF s3
  <2>2a. /\ s2 \o <<x, y>> \in Texts /\ Len(s2 \o <<x, y>>) = Len(s2) + 2
         /\ (s2 \o <<x, y>>)[Len(s2) + 1] = x /\ (s2 \o <<x, y>>)[Len(s2) + 2] = y
         /\ \A i \in 1..Len(s2) : (s2 \o <<x, y>>)[i] = s2[i]
    <3>1. x \in Symbols /\ y \in Symbols /\ s2 \in Texts
      BY <1>7, <2>1
    <3>2. QED
      BY <1>4, <3>1
  <2>3. /\ s3 \in Texts /\ Len(s3) = Len(s2) + 2 /\ s3[Len(s2) + 1] = x /\ s3[Len(s2) + 2] = y
        /\ \A i \in 1..Len(s2) : s3[i] = s2[i]
    BY <2>2, <2>2a
  <2>4. QED
    BY <2>1, <2>3
<1>9. /\ s4 \in Texts /\ Len(s4) = Len(s3) + b /\ \A i \in 1..b : s4[Len(s3) + i] = t[i]
      /\ \A i \in 1..Len(s3) : s4[i] = s3[i]
  <2>1. s4 \in Texts
    BY <1>2, <1>8, ConcatText, Zenon DEF s4
  <2>2. QED
    BY <1>2, <1>8, <2>1, ConcatAt, Zenon DEF s4, b
<1>10. /\ s5 \in Texts /\ Len(s5) = Len(s4) + 2 /\ s5[Len(s4) + 1] = "CR" /\ s5[Len(s4) + 2] = "LF"
       /\ \A i \in 1..Len(s4) : s5[i] = s4[i]
  BY <1>5, <1>9, Zenon DEF s5
<1>11. /\ s6 \in Texts /\ Len(s6) = Len(s5) + 1 /\ s6[Len(s5) + 1] = "L"
       /\ \A i \in 1..Len(s5) : s6[i] = s5[i]
  BY <1>3, <1>10, <1>s, Zenon DEF s6
<1>12. /\ s7 \in Texts /\ Len(s7) = Len(s6) + 2 /\ s7[Len(s6) + 1] = "CR" /\ s7[Len(s6) + 2] = "LF"
       /\ \A i \in 1..Len(s6) : s7[i] = s6[i]
  BY <1>5, <1>11, Zenon DEF s7
<1>13. /\ s8 \in Texts /\ Len(s8) = Len(s7) + 1 /\ s8[Len(s7) + 1] = "N"
       /\ \A i \in 1..Len(s7) : s8[i] = s7[i]
  BY <1>3, <1>12, <1>s, Zenon DEF s8
<1>14. /\ s9 \in Texts /\ Len(s9) = Len(s8) + 2 /\ s9[Len(s8) + 1] = "CR" /\ s9[Len(s8) + 2] = "LF"
       /\ \A i \in 1..Len(s8) : s9[i] = s8[i]
  BY <1>5, <1>13, Zenon DEF s9
<1>15. d \in Texts /\ Len(d) = 4 /\ d[1] = "D" /\ d[2] = "LF" /\ d[3] = "CR" /\ d[4] = "LF"
  <2> DEFINE x == <<"D", "LF">>
  <2>1. x \in Texts /\ Len(x) = 2 /\ x[1] = "D" /\ x[2] = "LF"
    BY <1>s, ShortSeq DEF Texts
  <2> HIDE DEF x
  <2>2. /\ x \o CRLF \in Texts /\ Len(x \o CRLF) = Len(x) + 2
        /\ (x \o CRLF)[Len(x) + 1] = "CR" /\ (x \o CRLF)[Len(x) + 2] = "LF"
        /\ \A i \in 1..Len(x) : (x \o CRLF)[i] = x[i]
    BY <1>5, <2>1, Zenon
  <2>3. d = x \o CRLF
    BY DEF d, x
  <2>4. 1 \in 1..Len(x) /\ 2 \in 1..Len(x) /\ Len(x) + 1 = 3 /\ Len(x) + 2 = 4
    BY <2>1
  <2>5. QED
    BY <2>1, <2>2, <2>3, <2>4
<1>16. /\ s10 \in Texts /\ Len(s10) = Len(s9) + 4 /\ s10[Len(s9) + 1] = "D" /\ s10[Len(s9) + 2] = "LF"
       /\ s10[Len(s9) + 3] = "CR" /\ s10[Len(s9) + 4] = "LF"
       /\ \A i \in 1..Len(s9) : s10[i] = s9[i]
  <2>1. s10 \in Texts
    BY <1>14, <1>15, ConcatText, Zenon DEF s10
  <2>2. /\ Len(s10) = Len(s9) + Len(d) /\ \A i \in 1..Len(d) : s10[Len(s9) + i] = d[i]
        /\ \A i \in 1..Len(s9) : s10[i] = s9[i]
    BY <1>14, <1>15, ConcatAt, Zenon DEF s10
  <2>3. 1 \in 1..Len(d) /\ 2 \in 1..Len(d) /\ 3 \in 1..Len(d) /\ 4 \in 1..Len(d)
    BY <1>15
  <2>4. QED
    BY <1>15, <2>1, <2>2, <2>3
<1>17. ResultText(right) \in Texts /\ Len(ResultText(right)) = 3
  BY <1>s, ThreeSeq DEF ResultText, Texts, r
<1>18. /\ s11 \in Texts /\ Len(s11) = Len(s10) + 3
       /\ \A i \in 1..3 : s11[Len(s10) + i] = ResultText(right)[i]
       /\ \A i \in 1..Len(s10) : s11[i] = s10[i]
  <2>1. s11 \in Texts
    BY <1>16, <1>17, ConcatText, Zenon DEF s11
  <2>2. /\ Len(s11) = Len(s10) + Len(ResultText(right))
        /\ \A i \in 1..Len(ResultText(right)) : s11[Len(s10) + i] = ResultText(right)[i]
        /\ \A i \in 1..Len(s10) : s11[i] = s10[i]
    BY <1>16, <1>17, ConcatAt, Zenon DEF s11
  <2>3. QED
    BY <1>17, <2>1, <2>2
<1>19. /\ s12 \in Texts /\ Len(s12) = Len(s11) + 1 /\ s12[Len(s11) + 1] = "NUL"
       /\ \A i \in 1..Len(s11) : s12[i] = s11[i]
  BY <1>3, <1>18, <1>s, Zenon DEF s12
<1> DEFINE n == a + b + 18
<1> HIDE DEF n
<1>20. /\ Len(s1) = a + 2 /\ Len(s2) = a + 4 /\ Len(s3) = a + 6 /\ Len(s4) = a + b + 6 /\ Len(s5) = a + b + 8
       /\ Len(s6) = a + b + 9 /\ Len(s7) = a + b + 11 /\ Len(s8) = a + b + 12 /\ Len(s9) = a + b + 14
       /\ Len(s10) = a + b + 18 /\ Len(s11) = a + b + 21 /\ Len(s12) = a + b + 22
  BY <1>2, <1>6, <1>7, <1>8, <1>9, <1>10, <1>11, <1>12, <1>13, <1>14, <1>16, <1>18, <1>19
\* What is in s12 at each place.
<1>21. /\ \A i \in 1..(a + b + 18) : s12[i] = s10[i]
       /\ \A i \in 1..(a + b + 14) : s12[i] = s9[i]
       /\ \A i \in 1..(a + b + 11) : s12[i] = s7[i]
       /\ \A i \in 1..(a + b + 8) : s12[i] = s5[i]
       /\ \A i \in 1..(a + b + 6) : s12[i] = s4[i]
       /\ \A i \in 1..(a + 6) : s12[i] = s3[i]
       /\ \A i \in 1..(a + 4) : s12[i] = s2[i]
       /\ \A i \in 1..(a + 2) : s12[i] = s1[i]
  <2>1. \A i \in 1..(a + b + 18) : s12[i] = s10[i]
    BY <1>2, <1>18, <1>19, <1>20
  <2>2. \A i \in 1..(a + b + 14) : s12[i] = s9[i]
    BY <1>2, <1>16, <1>20, <2>1
  <2>3. \A i \in 1..(a + b + 11) : s12[i] = s7[i]
    BY <1>2, <1>13, <1>14, <1>20, <2>2
  <2>4. \A i \in 1..(a + b + 8) : s12[i] = s5[i]
    BY <1>2, <1>11, <1>12, <1>20, <2>3
  <2>5. \A i \in 1..(a + b + 6) : s12[i] = s4[i]
    BY <1>2, <1>10, <1>20, <2>4
  <2>6. \A i \in 1..(a + 6) : s12[i] = s3[i]
    BY <1>2, <1>9, <1>20, <2>5
  <2>7. \A i \in 1..(a + 4) : s12[i] = s2[i]
    BY <1>2, <1>8, <1>20, <2>6
  <2>8. \A i \in 1..(a + 2) : s12[i] = s1[i]
    BY <1>2, <1>7, <1>20, <2>7
  <2>9. QED
    BY <2>1, <2>2, <2>3, <2>4, <2>5, <2>6, <2>7, <2>8
<1>22. \A i \in 1..a : s12[i] # "LF"
  BY <1>2, <1>6, <1>21
<1>23. \A i \in 1..b : s12[a + 6 + i] # "LF"
  <2>1. ASSUME NEW i \in 1..b
        PROVE  s12[a + 6 + i] # "LF"
    <3>1. a + 6 + i \in 1..(a + b + 6)
      BY <1>2
    <3>2. s12[a + 6 + i] = s4[a + 6 + i] /\ s4[a + 6 + i] = t[i]
      BY <1>9, <1>20, <1>21, <3>1
    <3>3. QED
      BY <1>2, <3>2
  <2>2. QED
    BY <2>1
<1>24. /\ s12[a + 1] = "SP" /\ s12[a + 2] = "S" /\ s12[a + 3] = "CR" /\ s12[a + 4] = "LF"
       /\ s12[a + 5] = "CT" /\ s12[a + 6] = "SP"
  BY <1>2, <1>6, <1>7, <1>8, <1>20, <1>21
<1>25. /\ s12[a + b + 7] = "CR" /\ s12[a + b + 8] = "LF" /\ s12[a + b + 9] = "L" /\ s12[a + b + 10] = "CR"
       /\ s12[a + b + 11] = "LF"
  <2>1. s12[a + b + 7] = s5[a + b + 7] /\ s12[a + b + 8] = s5[a + b + 8]
    BY <1>2, <1>21
  <2>2. s5[a + b + 7] = "CR" /\ s5[a + b + 8] = "LF"
    BY <1>2, <1>10, <1>20
  <2>3. s12[a + b + 9] = s7[a + b + 9] /\ s12[a + b + 10] = s7[a + b + 10] /\ s12[a + b + 11] = s7[a + b + 11]
    BY <1>2, <1>21
  <2>4. s7[a + b + 9] = "L" /\ s7[a + b + 10] = "CR" /\ s7[a + b + 11] = "LF"
    BY <1>2, <1>11, <1>12, <1>20
  <2>5. QED
    BY <2>1, <2>2, <2>3, <2>4
<1>26. /\ s12[a + b + 12] = "N" /\ s12[a + b + 13] = "CR" /\ s12[a + b + 14] = "LF"
       /\ s12[a + b + 15] = "D" /\ s12[a + b + 16] = "LF" /\ s12[a + b + 17] = "CR" /\ s12[a + b + 18] = "LF"
  <2>1. s12[a + b + 12] = s9[a + b + 12] /\ s12[a + b + 13] = s9[a + b + 13] /\ s12[a + b + 14] = s9[a + b + 14]
    BY <1>2, <1>21
  <2>2. s9[a + b + 12] = "N" /\ s9[a + b + 13] = "CR" /\ s9[a + b + 14] = "LF"
    BY <1>2, <1>13, <1>14, <1>20
  <2>3. /\ s12[a + b + 15] = s10[a + b + 15] /\ s12[a + b + 16] = s10[a + b + 16]
        /\ s12[a + b + 17] = s10[a + b + 17] /\ s12[a + b + 18] = s10[a + b + 18]
    BY <1>2, <1>21
  <2>4. /\ s10[a + b + 15] = "D" /\ s10[a + b + 16] = "LF" /\ s10[a + b + 17] = "CR" /\ s10[a + b + 18] = "LF"
    BY <1>2, <1>16, <1>20
  <2>5. QED
    BY <2>1, <2>2, <2>3, <2>4
<1>27. ASSUME NEW k \in 3..(n - 1), s12[k] = "LF"
       PROVE  s12[k - 1] # "LF" /\ ~(s12[k - 1] = "CR" /\ s12[k - 2] = "LF")
  <2>1. k \in Int /\ k >= 3 /\ k <= a + b + 17
    BY <1>2 DEF n
  <2>2. ~(k \in 1..a) /\ ~(k - (a + 6) \in 1..b)
    <3>1. ASSUME k - (a + 6) \in 1..b PROVE FALSE
      <4>1. a + 6 + (k - (a + 6)) = k
        BY <1>2, <2>1
      <4>2. s12[k] # "LF"
        BY <1>23, <3>1, <4>1
      <4>3. QED
        BY <1>27, <4>2
    <3>2. QED
      BY <1>22, <1>27, <3>1
  <2>3. \/ k = a + 1 \/ k = a + 2 \/ k = a + 3 \/ k = a + 4 \/ k = a + 5 \/ k = a + 6
        \/ k = a + b + 7 \/ k = a + b + 8 \/ k = a + b + 9 \/ k = a + b + 10 \/ k = a + b + 11
        \/ k = a + b + 12 \/ k = a + b + 13 \/ k = a + b + 14 \/ k = a + b + 15 \/ k = a + b + 16
        \/ k = a + b + 17
    BY <1>2, <2>1, <2>2
  <2>4. k = a + 4 \/ k = a + b + 8 \/ k = a + b + 11 \/ k = a + b + 14 \/ k = a + b + 16
    BY <1>24, <1>25, <1>26, <1>27, <2>3
  <2>5. CASE k = a + 4
    <3>1. k - 1 = a + 3 /\ k - 2 = a + 2
      BY <1>2, <2>5
    <3>2. QED
      BY <1>24, <3>1
  <2>6. CASE k = a + b + 8
    <3>1. k - 1 = a + b + 7 /\ k - 2 = a + b + 6
      BY <1>2, <2>6
    <3>2. s12[a + b + 6] # "LF"
      <4>1. CASE b = 0
        <5>1. a + b + 6 = a + 6
          BY <1>2, <4>1
        <5>2. QED
          BY <1>24, <5>1
      <4>2. CASE b # 0
        <5>1. b \in 1..b /\ a + 6 + b = a + b + 6
          BY <1>2, <4>2
        <5>2. QED
          BY <1>23, <5>1
      <4>3. QED
        BY <4>1, <4>2
    <3>3. QED
      BY <1>25, <3>1, <3>2
  <2>7. CASE k = a + b + 11
    <3>1. k - 1 = a + b + 10 /\ k - 2 = a + b + 9
      BY <1>2, <2>7
    <3>2. QED
      BY <1>25, <3>1
  <2>8. CASE k = a + b + 14
    <3>1. k - 1 = a + b + 13 /\ k - 2 = a + b + 12
      BY <1>2, <2>8
    <3>2. QED
      BY <1>26, <3>1
  <2>9. CASE k = a + b + 16
    <3>1. k - 1 = a + b + 15
      BY <1>2, <2>9
    <3>2. QED
      BY <1>26, <3>1
  <2>10. QED
    BY <2>4, <2>5, <2>6, <2>7, <2>8, <2>9
<1>28. n \in Nat /\ n >= 18 /\ Len(s12) = n + 4 /\ n - 1 = a + b + 17 /\ n - 2 = a + b + 16
  BY <1>2, <1>20 DEF n
<1>29. s12[n + 4] = "NUL" /\ \A k \in 1..3 : s12[n + k] = ResultText(right)[k]
  <2>1. Len(s10) = n /\ Len(s11) = n + 3
    BY <1>2, <1>20 DEF n
  <2>2. (n + 3) + 1 = n + 4 /\ \A k \in 1..3 : n + k \in 1..(n + 3)
    BY <1>28
  <2>3. QED
    BY <1>18, <1>19, <2>1, <2>2
<1>30. s12[n] = "LF" /\ s12[n - 1] = "CR" /\ s12[n - 2] = "LF"
  BY <1>26, <1>28 DEF n
<1>31. ReplyText(right, h, t) = s12 /\ Len(h) + Len(t) + 18 = n
  BY <1>1 DEF n, a, b, s1, s2, s3, s4, s5, s6, s7, s8, s9, s10, s11, s12, d
<1>32. QED
  BY <1>19, <1>27, <1>28, <1>29, <1>30, <1>31

\* Every reply has one header, and Content-Length is the length of its content.
LEMMA FramedInvReplies == FramedInv => RepliesFramed
<1>1. SUFFICES ASSUME FramedInv, NEW q \in DOMAIN replies
      PROVE  LET t == replies[q].text
             IN  \E end \in HeaderEnds(t) :
                   /\ HeaderEnds(t) \cap 1..(end - 1) = {}
                   /\ SubSeq(t, end + 1, end + replies[q].length) \in {ResultText(TRUE), ResultText(FALSE)}
                   /\ SubSeq(t, end + replies[q].length + 1, Len(t)) = <<"NUL">>
  BY DEF RepliesFramed
<1>2. PICK right \in BOOLEAN : \E h, t :
        /\ OneLine(h) /\ OneLine(t)
        /\ replies[q].length = 3 /\ replies[q].text = ReplyText(right, h, t)
  BY <1>1 DEF FramedInv
<1>2a. PICK h, t :
        /\ OneLine(h) /\ OneLine(t)
        /\ replies[q].length = 3 /\ replies[q].text = ReplyText(right, h, t)
  BY <1>2
<1> DEFINE s == replies[q].text
           n == Len(h) + Len(t) + 18
           c == ResultText(right)
<1>3. /\ s \in Texts /\ Len(s) = n + 4 /\ n \in Nat /\ n >= 18
      /\ s[n] = "LF" /\ s[n - 1] = "CR" /\ s[n - 2] = "LF"
      /\ \A k \in 3..(n - 1) : s[k] = "LF" => s[k - 1] # "LF" /\ ~(s[k - 1] = "CR" /\ s[k - 2] = "LF")
      /\ \A k \in 1..3 : s[n + k] = c[k]
      /\ s[n + 4] = "NUL"
  BY <1>2, <1>2a, ReplyLayout
<1> HIDE DEF s, n, c
<1>4. n \in HeaderEnds(s)
  BY <1>3 DEF HeaderEnds
<1>5. HeaderEnds(s) \cap 1..(n - 1) = {}
  BY <1>3 DEF HeaderEnds
<1>6. c \in Texts /\ Len(c) = 3 /\ c \in {ResultText(TRUE), ResultText(FALSE)}
  <2>1. (IF right THEN "0" ELSE "1") \in Symbols /\ "{" \in Symbols /\ "}" \in Symbols
    BY SymbolsAssumption, Zenon
  <2>2. c \in Texts /\ Len(c) = 3
    BY <2>1, ThreeSeq DEF c, ResultText, Texts
  <2>3. c \in {ResultText(TRUE), ResultText(FALSE)}
    BY DEF c
  <2>4. QED
    BY <2>2, <2>3
<1>7. SubSeq(s, n + 1, n + 3) = c
  <2> DEFINE p == SubSeq(s, n + 1, n + 3)
  <2>1. s \in Seq(Symbols) /\ n + 1 \in 1..(Len(s) + 1) /\ n + 3 \in Int /\ (n + 1) - 1 <= n + 3 /\ n + 3 <= Len(s)
    BY <1>3 DEF Texts
  <2>2. /\ p \in Seq(Symbols) /\ Len(p) = (n + 3) - (n + 1) + 1
        /\ \A k \in 1..((n + 3) - (n + 1) + 1) : p[k] = s[(n + 1) + k - 1]
    BY <2>1, PartOf, Zenon
  <2> HIDE DEF p
  <2>3. ASSUME NEW k \in 1..3
        PROVE  p[k] = c[k]
    <3>1. k \in 1..((n + 3) - (n + 1) + 1) /\ (n + 1) + k - 1 = n + k
      BY <1>3
    <3>2. QED
      BY <1>3, <2>2, <3>1
  <2>4. Len(p) = 3
    BY <1>3, <2>2
  <2>5. c \in Seq(Symbols) /\ Len(c) = 3
    BY <1>6 DEF Texts
  <2>6. p = c
    BY <2>2, <2>3, <2>4, <2>5
  <2>7. QED
    BY <2>6 DEF p
<1>8. SubSeq(s, n + 3 + 1, Len(s)) = <<"NUL">>
  <2> DEFINE p == SubSeq(s, n + 3 + 1, Len(s))
  <2>1. s \in Seq(Symbols) /\ n + 3 + 1 \in 1..(Len(s) + 1) /\ Len(s) \in Int /\ (n + 3 + 1) - 1 <= Len(s) /\ Len(s) <= Len(s)
    BY <1>3 DEF Texts
  <2>2. /\ p \in Seq(Symbols) /\ Len(p) = Len(s) - (n + 3 + 1) + 1
        /\ \A k \in 1..(Len(s) - (n + 3 + 1) + 1) : p[k] = s[(n + 3 + 1) + k - 1]
    BY <2>1, PartOf, Zenon
  <2> HIDE DEF p
  <2>3. Len(p) = 1 /\ p[1] = "NUL"
    <3>1. Len(s) - (n + 3 + 1) + 1 = 1 /\ (n + 3 + 1) + 1 - 1 = n + 4
      BY <1>3
    <3>2. QED
      BY <1>3, <2>2, <3>1
  <2>4. p = <<"NUL">>
    <3> DEFINE e == <<"NUL">>
    <3>1. e \in Seq(Symbols) /\ Len(e) = 1 /\ e[1] = "NUL"
      BY KnownSymbols, ShortSeq
    <3> HIDE DEF e
    <3>2. p = e
      BY <2>2, <2>3, <3>1
    <3>3. QED
      BY <3>2 DEF e
  <2>5. QED
    BY <2>4 DEF p
<1>9. replies[q].length = 3
  BY <1>2a
<1>10. QED
  BY <1>4, <1>5, <1>6, <1>7, <1>8, <1>9 DEF s

\* For any conversations, cut into pieces in any way: every reply of
\* set_output_http_info has exactly one header, Content-Length is the length of what
\* follows it, and the NUL of write_buf comes after that.
THEOREM RepliesFramedAlways == Spec => []RepliesFramed
<1>1. Spec => [](PieceInv /\ FramedInv)
  BY PieceInvInit, PieceInvStep, FramedInit, FramedStep, PTL DEF Spec
<1>2. QED
  BY <1>1, FramedInvReplies, PTL

-----------------------------------------------------------------------------
(* Where the messages are in the stream, and the lines in a message.       *)

\* The line i of a message begins after the first i - 1 lines.
Begin(m, i) == Off(Ended(m), i - 1)

\* A message begins after all those before it.
LEMMA StartOff ==
  ASSUME conv \in Conversations, NEW c \in 1..Len(conv)
  PROVE  Start(c) = Off(Sent, c - 1)
<1>1. Sent \in Seq(Texts) /\ Len(Sent) = Len(conv) /\ \A d \in 1..Len(conv) : Sent[d] = Text(conv[d])
  BY SentTypes
<1> DEFINE n == c - 1
           s == SubSeq(Sent, 1, n)
           t == [d \in 1..n |-> Text(conv[d])]
<1>2. n \in Nat /\ n <= Len(conv) /\ Len(conv) \in Nat /\ conv \in Seq(Messages)
  BY SentTypes
<1>3. s \in Seq(Texts) /\ Len(s) = n /\ \A d \in 1..n : s[d] = Sent[d]
  <2>1. 1 \in Int /\ n \in Int /\ \A d \in 1..n : Sent[d] \in Texts
    BY <1>1, <1>2
  <2>2. /\ s \in Seq(Texts) /\ Len(s) = IF 1 <= n THEN n - 1 + 1 ELSE 0
        /\ \A d \in 1..(n - 1 + 1) : s[d] = Sent[1 + d - 1]
    BY <2>1, SubSeqProperties
  <2> HIDE DEF s, n
  <2>3. QED
    BY <1>2, <2>2
<1>4. s = t
  <2>1. DOMAIN s = 1..n
    BY <1>3
  <2>2. \A d \in 1..n : s[d] = t[d]
    BY <1>1, <1>2, <1>3
  <2>3. s = [d \in 1..n |-> s[d]]
    BY <1>3, <2>1
  <2> HIDE DEF s, n
  <2>4. QED
    BY <2>2, <2>3
<1>5. QED
  BY <1>4 DEF Off, Joined, Start

\* The text of a message in the stream, before those that follow.
LEMMA StartFacts ==
  ASSUME conv \in Conversations, NEW c \in 1..Len(conv)
  PROVE  /\ conv[c] \in Messages /\ WellFormed(conv[c]) /\ Fits(conv[c])
         /\ Text(conv[c]) \in Texts /\ Len(Text(conv[c])) \in Nat
         /\ Start(c) \in Nat /\ Start(c) + Len(Text(conv[c])) <= Len(Stream)
         /\ \A o \in 1..Len(Text(conv[c])) : Stream[Start(c) + o] = Text(conv[c])[o]
         /\ \A d \in 1..Len(conv) : c < d => Start(c) + Len(Text(conv[c])) <= Start(d)
<1>1. /\ Sent \in Seq(Texts) /\ Len(Sent) = Len(conv) /\ \A d \in 1..Len(conv) : Sent[d] = Text(conv[d])
      /\ conv \in Seq(Messages) /\ \A d \in 1..Len(conv) : WellFormed(conv[d]) /\ Fits(conv[d])
      /\ Stream = FlattenSeq(Sent)
  BY SentTypes
<1>2. conv[c] \in Messages /\ Len(conv) \in Nat
  BY <1>1
<1>3. Text(conv[c]) \in Texts /\ Len(Text(conv[c])) \in Nat
  BY <1>2, MessageTypes DEF Texts
<1>4. /\ Off(Sent, Len(Sent)) = Len(FlattenSeq(Sent))
      /\ \A n \in 0..Len(Sent) : Off(Sent, n) \in Nat
      /\ \A n \in 1..Len(Sent) : Off(Sent, n) = Off(Sent, n - 1) + Len(Sent[n])
      /\ \A m, n \in 0..Len(Sent) : m <= n => Off(Sent, m) <= Off(Sent, n)
  BY <1>1, OffFacts DEF Texts
<1>5. Start(c) = Off(Sent, c - 1) /\ Start(c) \in Nat /\ Start(c) + Len(Text(conv[c])) = Off(Sent, c)
  <2>1. c - 1 \in 0..Len(Sent) /\ c \in 1..Len(Sent)
    BY <1>1, <1>2
  <2>2. QED
    BY <1>1, <1>4, <2>1, StartOff
<1>6. Off(Sent, c) <= Len(Stream)
  <2>1. c \in 0..Len(Sent) /\ Len(Sent) \in 0..Len(Sent) /\ c <= Len(Sent)
    BY <1>1, <1>2
  <2>2. QED
    BY <1>1, <1>4, <2>1
<1>7. ASSUME NEW o \in 1..Len(Text(conv[c]))
      PROVE  Stream[Start(c) + o] = Text(conv[c])[o]
  <2>1. Sent \in Seq(Seq(Symbols)) /\ c \in 1..Len(Sent) /\ o \in 1..Len(Sent[c]) /\ Sent[c] = Text(conv[c])
    BY <1>1 DEF Texts
  <2>2. FlattenSeq(Sent)[Off(Sent, c - 1) + o] = Sent[c][o]
    BY <2>1, PartAt, Zenon
  <2>3. QED
    BY <1>1, <1>5, <2>1, <2>2
<1>8. ASSUME NEW d \in 1..Len(conv), c < d
      PROVE  Off(Sent, c) <= Start(d)
  <2>1. c \in 0..Len(Sent) /\ d - 1 \in 0..Len(Sent) /\ c <= d - 1
    BY <1>1, <1>2, <1>8
  <2>2. Off(Sent, c) <= Off(Sent, d - 1)
    BY <1>4, <2>1
  <2>3. QED
    BY <2>2, StartOff
<1>9. QED
  BY <1>1, <1>2, <1>3, <1>5, <1>6, <1>7, <1>8

\* Every place of the stream is in a message.
LEMMA InSomeMessage ==
  ASSUME conv \in Conversations, NEW x \in 1..Len(Stream)
  PROVE  \E c \in 1..Len(conv) : Start(c) < x /\ x <= Start(c) + Len(Text(conv[c]))
<1>1. /\ Sent \in Seq(Seq(Symbols)) /\ Len(Sent) = Len(conv) /\ \A d \in 1..Len(conv) : Sent[d] = Text(conv[d])
      /\ Stream = FlattenSeq(Sent)
  BY SentTypes DEF Texts
<1>2. PICK c \in 1..Len(Sent) : Off(Sent, c - 1) < x /\ x <= Off(Sent, c)
  <2>1. x \in 1..Len(FlattenSeq(Sent))
    BY <1>1
  <2>2. QED
    BY <1>1, <2>1, InSomePart, Zenon
<1>3. Off(Sent, c) = Off(Sent, c - 1) + Len(Sent[c])
  BY <1>1, OffFacts
<1>4. c \in 1..Len(conv) /\ Start(c) = Off(Sent, c - 1)
  BY <1>1, <1>2, StartOff
<1>5. QED
  BY <1>1, <1>2, <1>3, <1>4

\* The lines of a message, with their ends, and its body.
LEMMA Layout ==
  ASSUME NEW m \in Messages, WellFormed(m)
  PROVE  /\ Len(Lines(m)) \in Nat /\ Len(Lines(m)) >= 2 /\ Len(m.body) \in Nat
         /\ Begin(m, 1) = 0 /\ Begin(m, Len(Lines(m)) + 1) = Len(Header(m))
         /\ \A i \in 1..(Len(Lines(m)) + 1) : Begin(m, i) \in Nat /\ Begin(m, i) <= Len(Header(m))
         /\ \A i \in 1..Len(Lines(m)) :
              /\ Begin(m, i + 1) = Begin(m, i) + Len(Lines(m)[i]) + 2 /\ Len(Lines(m)[i]) \in Nat
              /\ Lines(m)[i] \in Texts
              /\ \A o \in 1..Len(Lines(m)[i]) : /\ Text(m)[Begin(m, i) + o] = Lines(m)[i][o]
                                                /\ Lines(m)[i][o] # "CR" /\ Lines(m)[i][o] # "LF"
              /\ Text(m)[Begin(m, i) + Len(Lines(m)[i]) + 1] = "CR"
              /\ Text(m)[Begin(m, i) + Len(Lines(m)[i]) + 2] = "LF"
         /\ Text(m) \in Texts /\ Len(Text(m)) = Len(Header(m)) + Len(m.body) /\ Len(Header(m)) \in Nat
         /\ \A o \in 1..Len(m.body) : Text(m)[Len(Header(m)) + o] = m.body[o]
         /\ \A o \in 1..Len(Text(m)) : Text(m)[o] = "M" <=> o = 1
<1> DEFINE e == Ended(m)
           l == Lines(m)
           N == Len(l)
           h == Header(m)
           b == m.body
           t == Text(m)
<1>1. /\ l \in Seq(Texts) /\ N = Len(m.head) + 2 /\ Len(m.head) \in Nat /\ e \in Seq(Texts) /\ Len(e) = N
      /\ h = FlattenSeq(e) /\ h \in Texts /\ t \in Texts /\ b \in Texts /\ t = h \o b
  BY MessageTypes DEF Text
<1>2. /\ Off(e, 0) = 0 /\ Off(e, Len(e)) = Len(FlattenSeq(e))
      /\ \A n \in 0..Len(e) : Off(e, n) \in Nat
      /\ \A n \in 1..Len(e) : Off(e, n) = Off(e, n - 1) + Len(e[n])
      /\ \A x, y \in 0..Len(e) : x <= y => Off(e, x) <= Off(e, y)
  BY <1>1, OffFacts DEF Texts
<1>3. \A i \in 1..N : /\ l[i] \in Texts /\ e[i] \in Texts
                      /\ Len(e[i]) = Len(l[i]) + 2 /\ Len(l[i]) \in Nat
                      /\ \A o \in 1..Len(l[i]) : e[i][o] = l[i][o]
                      /\ e[i][Len(l[i]) + 1] = "CR" /\ e[i][Len(l[i]) + 2] = "LF"
  BY EndedLine
<1>4. \A i \in 1..N : ~Has(l[i], "CR") /\ ~Has(l[i], "LF")
  <2>1. DOMAIN l = 1..N
    BY <1>1
  <2>2. QED
    BY <2>1, WellFormedParts
<1>5. /\ Len(t) = Len(h) + Len(b) /\ Len(h) \in Nat /\ Len(b) \in Nat
      /\ \A o \in 1..Len(h) : t[o] = h[o]
      /\ \A o \in 1..Len(b) : t[Len(h) + o] = b[o]
  <2>1. h \in Texts /\ b \in Texts /\ t = h \o b
    BY <1>1
  <2> HIDE DEF h, b, t
  <2>2. /\ Len(h \o b) = Len(h) + Len(b) /\ Len(h) \in Nat /\ Len(b) \in Nat
        /\ \A o \in 1..Len(h) : (h \o b)[o] = h[o]
        /\ \A o \in 1..Len(b) : (h \o b)[Len(h) + o] = b[o]
    BY <2>1, ConcatAt, Zenon
  <2>3. QED
    BY <2>1, <2>2
<1>6. ASSUME NEW i \in 1..N, NEW o \in 1..(Len(l[i]) + 2)
      PROVE  t[Off(e, i - 1) + o] = e[i][o]
  <2>1. o \in 1..Len(e[i]) /\ i \in 1..Len(e) /\ e \in Seq(Seq(Symbols))
    BY <1>1, <1>3 DEF Texts
  <2>2. /\ Off(e, i - 1) + o \in 1..Len(FlattenSeq(e))
        /\ FlattenSeq(e)[Off(e, i - 1) + o] = e[i][o]
    <3> HIDE DEF e
    <3>1. QED
      BY <2>1, PartAt, Zenon
  <2> HIDE DEF e, t, h
  <2>3. QED
    BY <1>1, <1>5, <2>2
<1>7. \A o \in 1..Len(t) : t[o] = "M" <=> o = 1
  <2>1. ~Has(Tail(t), "M") /\ t[1] = "M" /\ Len(h) >= 7
    BY MessageStarts, WellFormedParts
  <2> HIDE DEF t, h, b
  <2>2. \A o \in 1..(Len(t) - 1) : Tail(t)[o] = t[o + 1] /\ o \in DOMAIN Tail(t)
    BY <1>1, <1>5, <2>1 DEF Texts
  <2>3. ASSUME NEW o \in 1..Len(t), o # 1
        PROVE  t[o] # "M"
    <3>1. o - 1 \in 1..(Len(t) - 1) /\ (o - 1) + 1 = o
      BY <1>5, <2>3
    <3>2. Tail(t)[o - 1] = t[o] /\ o - 1 \in DOMAIN Tail(t)
      BY <2>2, <3>1
    <3>3. QED
      BY <2>1, <3>2 DEF Has
  <2>4. QED
    BY <2>1, <2>3
<1>8. \A i \in 1..N : \A o \in 1..Len(l[i]) : l[i][o] # "CR" /\ l[i][o] # "LF"
  <2>1. ASSUME NEW i \in 1..N, NEW o \in 1..Len(l[i])
        PROVE  l[i][o] # "CR" /\ l[i][o] # "LF"
    <3>1. o \in DOMAIN l[i]
      BY <1>3 DEF Texts
    <3>2. QED
      BY <1>4, <3>1 DEF Has
  <2>2. QED
    BY <2>1
<1>9. /\ Begin(m, 1) = 0 /\ Begin(m, N + 1) = Len(h) /\ N >= 2 /\ N \in Nat
      /\ \A i \in 1..(N + 1) : Begin(m, i) = Off(e, i - 1) /\ Begin(m, i) \in Nat /\ Begin(m, i) <= Len(h)
      /\ \A i \in 1..N : Begin(m, i + 1) = Begin(m, i) + Len(l[i]) + 2
  <2>1. \A i : Begin(m, i) = Off(e, i - 1)
    BY DEF Begin
  <2>2. N \in Nat /\ N >= 2 /\ Len(e) = N /\ Off(e, N) = Len(h)
    BY <1>1, <1>2
  <2> HIDE DEF e, l, N, h
  <2>3. \A i \in 1..(N + 1) : i - 1 \in 0..N /\ i - 1 <= N /\ N \in 0..N
    BY <2>2
  <2>4. \A i \in 1..(N + 1) : Begin(m, i) \in Nat /\ Begin(m, i) <= Len(h)
    BY <1>2, <2>1, <2>2, <2>3
  <2>5. ASSUME NEW i \in 1..N
        PROVE  Begin(m, i + 1) = Begin(m, i) + Len(l[i]) + 2
    <3>1. (i + 1) - 1 = i /\ i \in Nat
      BY <2>2
    <3>2. Off(e, i) = Off(e, i - 1) + Len(e[i]) /\ Len(e[i]) = Len(l[i]) + 2 /\ Len(l[i]) \in Nat
      BY <1>2, <1>3, <2>2
    <3>3. Begin(m, i + 1) = Off(e, i) /\ Begin(m, i) = Off(e, i - 1)
      BY <2>1, <3>1
    <3>4. Off(e, i - 1) \in Nat
      BY <1>2, <2>2
    <3>5. QED
      BY <3>2, <3>3, <3>4
  <2>6. Begin(m, 1) = 0 /\ Begin(m, N + 1) = Len(h)
    <3>1. 1 - 1 = 0 /\ (N + 1) - 1 = N
      BY <2>2
    <3>2. QED
      BY <1>2, <2>1, <2>2, <3>1
  <2>7. QED
    BY <2>1, <2>2, <2>4, <2>5, <2>6
<1>10. \A i \in 1..N :
         /\ \A o \in 1..Len(l[i]) : t[Begin(m, i) + o] = l[i][o]
         /\ t[Begin(m, i) + Len(l[i]) + 1] = "CR" /\ t[Begin(m, i) + Len(l[i]) + 2] = "LF"
  <2>1. ASSUME NEW i \in 1..N
        PROVE  /\ \A o \in 1..Len(l[i]) : t[Begin(m, i) + o] = l[i][o]
               /\ t[Begin(m, i) + Len(l[i]) + 1] = "CR" /\ t[Begin(m, i) + Len(l[i]) + 2] = "LF"
    <3> DEFINE n == Len(l[i])
    <3>1. n \in Nat /\ \A o \in 1..(n + 2) : t[Begin(m, i) + o] = e[i][o]
      <4>1. n \in Nat /\ i \in 1..(N + 1)
        BY <1>3, <1>9
      <4>2. Begin(m, i) = Off(e, i - 1)
        BY <1>9, <4>1
      <4>3. QED
        BY <1>6, <4>1, <4>2
    <3>2. \A o \in 1..n : e[i][o] = l[i][o] /\ o \in 1..(n + 2)
      BY <1>3, <3>1
    <3>3. e[i][n + 1] = "CR" /\ e[i][n + 2] = "LF" /\ n + 1 \in 1..(n + 2) /\ n + 2 \in 1..(n + 2)
      BY <1>3, <3>1
    <3>4. Begin(m, i) + (n + 1) = Begin(m, i) + n + 1 /\ Begin(m, i) + (n + 2) = Begin(m, i) + n + 2
      <4>1. Begin(m, i) \in Nat
        BY <1>9
      <4>2. QED
        BY <3>1, <4>1
    <3> HIDE DEF t, e, n, l
    <3>5. QED
      BY <3>1, <3>2, <3>3, <3>4 DEF n
  <2>2. QED
    BY <2>1
<1>11. QED
  BY <1>1, <1>3, <1>5, <1>7, <1>8, <1>9, <1>10

\* A line in the text of its message, and the '\r' that ends it.
LEMMA LineAt ==
  ASSUME NEW m \in Messages, WellFormed(m), NEW i \in 1..Len(Lines(m))
  PROVE  LET b == Begin(m, i)
             l == Lines(m)[i]
             t == Text(m)
         IN  /\ b \in Nat /\ Len(l) \in Nat /\ l \in Texts /\ Begin(m, i + 1) = b + Len(l) + 2
             /\ \A o \in 1..Len(l) : t[b + o] = l[o] /\ l[o] # "CR"
             /\ t[b + Len(l) + 1] = "CR" /\ Begin(m, i + 1) <= Len(t) /\ Len(t) \in Nat
             /\ i + 1 \in 1..(Len(Lines(m)) + 1)
<1>1. /\ Len(Lines(m)) \in Nat /\ Len(m.body) \in Nat /\ Len(Header(m)) \in Nat
      /\ Len(Text(m)) = Len(Header(m)) + Len(m.body)
      /\ \A x \in 1..(Len(Lines(m)) + 1) : Begin(m, x) \in Nat /\ Begin(m, x) <= Len(Header(m))
  BY Layout
<1>2. /\ Begin(m, i + 1) = Begin(m, i) + Len(Lines(m)[i]) + 2 /\ Len(Lines(m)[i]) \in Nat
      /\ Lines(m)[i] \in Texts
      /\ \A o \in 1..Len(Lines(m)[i]) : /\ Text(m)[Begin(m, i) + o] = Lines(m)[i][o]
                                        /\ Lines(m)[i][o] # "CR"
      /\ Text(m)[Begin(m, i) + Len(Lines(m)[i]) + 1] = "CR"
  BY Layout
<1>3. i \in 1..(Len(Lines(m)) + 1) /\ i + 1 \in 1..(Len(Lines(m)) + 1)
  BY <1>1
<1>4. Begin(m, i) \in Nat /\ Begin(m, i + 1) <= Len(Header(m))
  BY <1>1, <1>3
<1>5. Len(Header(m)) <= Len(Text(m)) /\ Len(Text(m)) \in Nat /\ Begin(m, i + 1) \in Nat
  BY <1>1, <1>3
<1>6. Begin(m, i + 1) <= Len(Text(m))
  BY <1>1, <1>4, <1>5
<1>7. QED
  BY <1>2, <1>3, <1>4, <1>5, <1>6

-----------------------------------------------------------------------------
(* get_input_http_info in the header of a message.                         *)

\* The read piece is the beginning of message c, or all of it and more.
FromMessage(c) == c \in 1..Len(conv) /\ Start(c) = at - Len(recvbuf)

\* What is read next is line i of message c.
AtLine(c, i) == FromMessage(c) /\ i \in 1..Len(Lines(conv[c])) /\ j = Begin(conv[c], i)

\* What begins with the name of a method is the beginning of a message.
LEMMA ReadFromMessage ==
  ASSUME PieceInv, recvbuf # << >>, recvbuf[1] = "M"
  PROVE  \E c : FromMessage(c)
<1>1. /\ conv \in Conversations /\ at \in 0..Len(Stream) /\ Len(recvbuf) <= at /\ recvbuf \in Texts
      /\ \A i \in 1..Len(recvbuf) : recvbuf[i] = Stream[at - Len(recvbuf) + i]
  BY DEF PieceInv
<1>2. Len(Stream) \in Nat /\ Len(recvbuf) \in Nat /\ Len(recvbuf) # 0
  BY <1>1, SentTypes DEF Texts
<1> DEFINE x == at - Len(recvbuf) + 1
<1>3. x \in 1..Len(Stream) /\ Stream[x] = "M"
  BY <1>1, <1>2
<1>4. PICK c \in 1..Len(conv) : Start(c) < x /\ x <= Start(c) + Len(Text(conv[c]))
  BY <1>1, <1>3, InSomeMessage
<1> HIDE DEF x
<1>5. /\ Start(c) \in Nat /\ Len(Text(conv[c])) \in Nat /\ conv[c] \in Messages /\ WellFormed(conv[c])
      /\ \A o \in 1..Len(Text(conv[c])) : Stream[Start(c) + o] = Text(conv[c])[o]
  BY <1>1, StartFacts
<1>6. \A o \in 1..Len(Text(conv[c])) : Text(conv[c])[o] = "M" <=> o = 1
  BY <1>5, Layout
<1>7. x - Start(c) \in 1..Len(Text(conv[c])) /\ Start(c) + (x - Start(c)) = x
  BY <1>2, <1>3, <1>4, <1>5
<1>8. x - Start(c) = 1
  BY <1>3, <1>5, <1>6, <1>7
<1>9. Start(c) = at - Len(recvbuf)
  BY <1>1, <1>2, <1>5, <1>8 DEF x
<1>10. QED
  BY <1>9 DEF FromMessage

\* What was read from the begin of a message on has its text.
LEMMA PieceOfMessage ==
  ASSUME PieceInv, NEW c, FromMessage(c)
  PROVE  /\ conv[c] \in Messages /\ WellFormed(conv[c]) /\ Fits(conv[c])
         /\ Len(recvbuf) \in Nat
         /\ \A o \in 1..Len(Text(conv[c])) : o <= Len(recvbuf) => recvbuf[o] = Text(conv[c])[o]
<1>1. /\ conv \in Conversations /\ at \in 0..Len(Stream) /\ Len(recvbuf) <= at /\ recvbuf \in Texts
      /\ \A i \in 1..Len(recvbuf) : recvbuf[i] = Stream[at - Len(recvbuf) + i]
      /\ c \in 1..Len(conv) /\ Start(c) = at - Len(recvbuf)
  BY DEF PieceInv, FromMessage
<1>2. Len(recvbuf) \in Nat
  BY <1>1 DEF Texts
<1>3. /\ conv[c] \in Messages /\ WellFormed(conv[c]) /\ Fits(conv[c]) /\ Len(Text(conv[c])) \in Nat
      /\ \A o \in 1..Len(Text(conv[c])) : Stream[Start(c) + o] = Text(conv[c])[o]
  BY <1>1, StartFacts
<1>4. QED
  BY <1>1, <1>2, <1>3

\* The loop takes the lines of the header one by one.
LEMMA LineTaken ==
  ASSUME PieceInv, NEW c, NEW i, AtLine(c, i), Returns # {}
  PROVE  /\ TheLine(Min(Returns)) = Lines(conv[c])[i]
         /\ Min(Returns) + 1 = Begin(conv[c], i + 1)
         /\ Min(Returns) \in 1..Len(recvbuf)
<1> DEFINE m == conv[c]
           l == Lines(m)[i]
           t == Text(m)
           b == Begin(m, i)
           n == Len(l)
<1>1. /\ FromMessage(c) /\ i \in 1..Len(Lines(m)) /\ j = b
  BY DEF AtLine
<1>2. /\ m \in Messages /\ WellFormed(m) /\ Len(recvbuf) \in Nat
      /\ \A o \in 1..Len(t) : o <= Len(recvbuf) => recvbuf[o] = t[o]
  BY <1>1, PieceOfMessage
<1>3. /\ b \in Nat /\ n \in Nat /\ l \in Texts /\ Begin(m, i + 1) = b + n + 2
      /\ \A o \in 1..n : t[b + o] = l[o] /\ l[o] # "CR"
      /\ t[b + n + 1] = "CR" /\ Begin(m, i + 1) <= Len(t) /\ Len(t) \in Nat
  BY <1>1, <1>2, LineAt
<1>4. PICK k \in 1..Len(recvbuf) :
        /\ k = Min(Returns) /\ j < k /\ recvbuf[k] = "CR"
        /\ \A o \in (j + 1)..(k - 1) : recvbuf[o] # "CR"
        /\ TheLine(k) \in Texts /\ Len(TheLine(k)) = k - 1 - j
        /\ \A o \in 1..(k - 1 - j) : TheLine(k)[o] = recvbuf[j + o]
  BY NextReturn
<1> HIDE DEF m, l, t, b, n
<1>5. \A o \in 1..n : b + o <= Len(recvbuf) => recvbuf[b + o] = l[o]
  <2>1. \A o \in 1..n : b + o \in 1..Len(t)
    BY <1>3
  <2>2. QED
    BY <1>2, <1>3, <2>1
<1>6. ~(k - b \in 1..n)
  <2>1. SUFFICES ASSUME k - b \in 1..n PROVE FALSE
    OBVIOUS
  <2>2. b + (k - b) = k /\ k <= Len(recvbuf)
    BY <1>2, <1>3
  <2>3. recvbuf[k] = l[k - b]
    BY <1>5, <2>1, <2>2
  <2>4. QED
    BY <1>3, <1>4, <2>1, <2>3
<1>7. k = b + n + 1
  <2>1. k >= b + n + 1
    BY <1>1, <1>3, <1>4, <1>6
  <2>2. b + n + 1 <= Len(recvbuf) /\ b + n + 1 \in 1..Len(t)
    BY <1>2, <1>3, <2>1
  <2>3. recvbuf[b + n + 1] = "CR"
    BY <1>2, <1>3, <2>2
  <2>4. ~(k > b + n + 1)
    <3>1. SUFFICES ASSUME k > b + n + 1 PROVE FALSE
      OBVIOUS
    <3>2. b + n + 1 \in (j + 1)..(k - 1)
      BY <1>1, <1>3, <3>1
    <3>3. QED
      BY <1>4, <2>3, <3>2
  <2>5. QED
    BY <1>3, <2>1, <2>4
<1>8. TheLine(k) = l
  <2> DEFINE q == TheLine(k)
  <2>1. Len(q) = n /\ q \in Seq(Symbols) /\ l \in Seq(Symbols) /\ Len(l) = n
    BY <1>1, <1>3, <1>4, <1>7 DEF Texts, n
  <2>2. ASSUME NEW o \in 1..n
        PROVE  q[o] = l[o]
    <3>1. o \in 1..(k - 1 - j) /\ b + o <= Len(recvbuf)
      BY <1>1, <1>2, <1>3, <1>7
    <3>2. QED
      BY <1>1, <1>4, <1>5, <3>1
  <2> HIDE DEF q
  <2>3. q = l
    BY <2>1, <2>2
  <2>4. QED
    BY <2>3 DEF q
<1>9. k + 1 = Begin(m, i + 1)
  BY <1>3, <1>7
<1>10. QED
  BY <1>4, <1>8, <1>9 DEF m, l

\* If there is no other line, what is left is the beginning of a line.
LEMMA LineLeft ==
  ASSUME PieceInv, NEW c, NEW i, AtLine(c, i), Returns = {}
  PROVE  /\ Len(recvbuf) - j <= Len(Lines(conv[c])[i])
         /\ \A o \in 1..(Len(recvbuf) - j) : recvbuf[j + o] = Lines(conv[c])[i][o]
<1> DEFINE m == conv[c]
           l == Lines(m)[i]
           t == Text(m)
           b == Begin(m, i)
           n == Len(l)
<1>1. /\ FromMessage(c) /\ i \in 1..Len(Lines(m)) /\ j = b
  BY DEF AtLine
<1>2. /\ m \in Messages /\ WellFormed(m) /\ Len(recvbuf) \in Nat
      /\ \A o \in 1..Len(t) : o <= Len(recvbuf) => recvbuf[o] = t[o]
  BY <1>1, PieceOfMessage
<1>3. /\ b \in Nat /\ n \in Nat /\ l \in Texts /\ Begin(m, i + 1) = b + n + 2
      /\ \A o \in 1..n : t[b + o] = l[o] /\ l[o] # "CR"
      /\ t[b + n + 1] = "CR" /\ Begin(m, i + 1) <= Len(t) /\ Len(t) \in Nat
  BY <1>1, <1>2, LineAt
<1> HIDE DEF m, l, t, b, n
<1>4. ~(b + n + 1 <= Len(recvbuf))
  <2>1. SUFFICES ASSUME b + n + 1 <= Len(recvbuf) PROVE FALSE
    OBVIOUS
  <2>2. b + n + 1 \in 1..Len(t)
    BY <1>3
  <2>3. recvbuf[b + n + 1] = "CR"
    BY <1>2, <1>3, <2>1, <2>2
  <2>4. b + n + 1 \in (j + 1)..Len(recvbuf)
    BY <1>1, <1>2, <1>3, <2>1
  <2>5. QED
    BY <2>3, <2>4 DEF Returns
<1>5. Len(recvbuf) - j <= n
  BY <1>1, <1>2, <1>3, <1>4
<1>6. ASSUME NEW o \in 1..(Len(recvbuf) - j)
      PROVE  recvbuf[j + o] = l[o]
  <2>1. o \in 1..n /\ b + o \in 1..Len(t) /\ b + o <= Len(recvbuf)
    BY <1>1, <1>2, <1>3, <1>5
  <2>2. QED
    BY <1>1, <1>2, <1>3, <2>1
<1>7. QED
  BY <1>5, <1>6 DEF l, m, n

-----------------------------------------------------------------------------
(* How long the parts of a text are.                                       *)

\* A text that holds another one holds at least as many of a symbol.
LEMMA CountShift ==
  ASSUME NEW u \in Texts, NEW v \in Texts, NEW x, NEW d \in Int,
         \A k \in Positions(u, x) : k + d \in Positions(v, x)
  PROVE  Cardinality(Positions(u, x)) <= Cardinality(Positions(v, x))
<1> DEFINE U == Positions(u, x)
           V == Positions(v, x)
           f == [k \in U |-> k + d]
<1>1. IsFiniteSet(V)
  BY CountPositions
<1>2. f \in [U -> V]
  OBVIOUS
<1>3. \A a, b \in U : f[a] = f[b] => a = b
  <2>1. \A a \in U : a \in Int /\ f[a] = a + d
    <3>1. 1..Len(u) \subseteq Int /\ U \subseteq 1..Len(u)
      BY CountPositions
    <3> HIDE DEF U
    <3>2. QED
      BY <3>1
  <2> HIDE DEF f, U
  <2>2. ASSUME NEW a \in U, NEW b \in U, f[a] = f[b]
        PROVE  a = b
    <3>1. a \in Int /\ b \in Int /\ a + d = b + d
      BY <2>1, <2>2
    <3>2. QED
      BY <3>1
  <2>3. QED
    BY <2>2
<1> HIDE DEF U, V, f
<1>4. f \in Injection(U, V)
  BY <1>2, <1>3 DEF Injection, IsInjective
<1>5. Cardinality(U) <= Cardinality(V)
  BY <1>1, <1>4, FS_Injection
<1>6. QED
  BY <1>5 DEF U, V

\* A part of a text is not longer than the text.
LEMMA BytesPart ==
  ASSUME NEW u \in Texts, NEW v \in Texts, NEW d \in Nat,
         \A k \in 1..Len(u) : k + d \in 1..Len(v) /\ u[k] = v[k + d]
  PROVE  Bytes(u) <= Bytes(v)
<1>1. Len(u) \in Nat /\ Len(v) \in Nat /\ DOMAIN u = 1..Len(u) /\ DOMAIN v = 1..Len(v)
  BY DEF Texts
<1>2. Len(u) <= Len(v)
  <2>1. CASE Len(u) = 0
    BY <1>1, <2>1
  <2>2. CASE Len(u) # 0
    <3>1. Len(u) \in 1..Len(u)
      BY <1>1, <2>2
    <3>2. Len(u) + d <= Len(v)
      BY <1>1, <3>1
    <3>3. QED
      BY <1>1, <3>2
  <2>3. QED
    BY <2>1, <2>2
<1>3. ASSUME NEW x
      PROVE  Cardinality(Positions(u, x)) <= Cardinality(Positions(v, x))
  <2>1. \A k \in Positions(u, x) : k + d \in Positions(v, x)
    BY <1>1 DEF Positions
  <2>2. QED
    BY <2>1, CountShift
<1>4. /\ Cardinality(Positions(u, "M")) <= Cardinality(Positions(v, "M"))
      /\ Cardinality(Positions(u, "CT")) <= Cardinality(Positions(v, "CT"))
  BY <1>3
<1>5. /\ Cardinality(Positions(u, "M")) \in Nat /\ Cardinality(Positions(v, "M")) \in Nat
      /\ Cardinality(Positions(u, "CT")) \in Nat /\ Cardinality(Positions(v, "CT")) \in Nat
  BY CountPositions
<1>6. QED
  BY <1>1, <1>2, <1>4, <1>5 DEF Bytes

\* The first line: the method, a space, the path, a space and the protocol.
LEMMA FirstLineParts ==
  ASSUME NEW m \in Messages
  PROVE  LET p == m.path
             r == m.protocol
             l == FirstLine(m)
             n == Len(p)
         IN  /\ Len(l) = n + 3 + Len(r) /\ l[1] = "M" /\ l[2] = "SP" /\ l[n + 3] = "SP"
             /\ \A k \in 1..n : l[2 + k] = p[k]
             /\ \A k \in 1..Len(r) : l[n + 3 + k] = r[k]
<1> DEFINE p == m.path
           r == m.protocol
           l == FirstLine(m)
           n == Len(p)
           N == Len(l)
<1>1. p \in Texts /\ r \in Texts /\ l \in Texts /\ n \in Nat /\ Len(r) \in Nat /\ N \in Nat
  BY MessageTypes DEF Texts
<1>3. /\ N = n + 3 + Len(r) /\ l[1] = "M" /\ l[2] = "SP" /\ l[n + 3] = "SP"
      /\ \A k \in 1..n : l[2 + k] = p[k]
      /\ \A k \in 1..Len(r) : l[n + 3 + k] = r[k]
  <2> DEFINE x == <<"M", "SP">>
             y == <<"SP">>
             a == x \o p
             b == a \o y
             c == b \o r
  <2>1. x \in Texts /\ y \in Texts /\ Len(x) = 2 /\ x[1] = "M" /\ x[2] = "SP" /\ Len(y) = 1 /\ y[1] = "SP"
    BY KnownSymbols, ShortSeq DEF Texts
  <2>2. l = c
    BY DEF FirstLine
  <2> HIDE DEF x, y, p, r, n, N, l
  <2>3. a \in Texts /\ Len(a) = 2 + n /\ a[1] = "M" /\ a[2] = "SP" /\ \A k \in 1..n : a[2 + k] = p[k]
    <3>1. a \in Texts
      BY <1>1, <2>1, ConcatText
    <3>2. Len(a) = Len(x) + Len(p) /\ (\A k \in 1..Len(x) : a[k] = x[k]) /\ \A k \in 1..Len(p) : a[Len(x) + k] = p[k]
      BY <1>1, <2>1, ConcatAt, Zenon
    <3>3. Len(p) = n
      BY DEF n
    <3>4. 1 \in 1..Len(x) /\ 2 \in 1..Len(x)
      BY <2>1
    <3> HIDE DEF a
    <3>5. QED
      BY <2>1, <3>1, <3>2, <3>3, <3>4
  <2> HIDE DEF a
  <2>4. /\ b \in Texts /\ Len(b) = n + 3 /\ b[1] = "M" /\ b[2] = "SP" /\ b[n + 3] = "SP"
        /\ \A k \in 1..n : b[2 + k] = p[k]
    <3>1. b \in Texts
      BY <2>1, <2>3, ConcatText
    <3>2. Len(b) = Len(a) + Len(y) /\ (\A k \in 1..Len(a) : b[k] = a[k]) /\ \A k \in 1..Len(y) : b[Len(a) + k] = y[k]
      BY <2>1, <2>3, ConcatAt, Zenon
    <3>3. 1 \in 1..Len(y) /\ 1 \in 1..Len(a) /\ 2 \in 1..Len(a) /\ Len(a) + 1 = n + 3 /\ Len(a) + Len(y) = n + 3
          /\ \A k \in 1..n : 2 + k \in 1..Len(a)
      BY <1>1, <2>1, <2>3
    <3> HIDE DEF b
    <3>4. QED
      BY <2>1, <2>3, <3>1, <3>2, <3>3
  <2> HIDE DEF b
  <2>5. /\ c \in Texts /\ Len(c) = n + 3 + Len(r) /\ c[1] = "M" /\ c[2] = "SP" /\ c[n + 3] = "SP"
        /\ \A k \in 1..n : c[2 + k] = p[k]
        /\ \A k \in 1..Len(r) : c[n + 3 + k] = r[k]
    <3>1. c \in Texts
      BY <1>1, <2>4, ConcatText
    <3>2. Len(c) = Len(b) + Len(r) /\ (\A k \in 1..Len(b) : c[k] = b[k]) /\ \A k \in 1..Len(r) : c[Len(b) + k] = r[k]
      BY <1>1, <2>4, ConcatAt, Zenon
    <3>3. 1 \in 1..Len(b) /\ 2 \in 1..Len(b) /\ n + 3 \in 1..Len(b) /\ \A k \in 1..n : 2 + k \in 1..Len(b)
      BY <1>1, <2>4
    <3> HIDE DEF c
    <3>4. QED
      BY <2>4, <3>1, <3>2, <3>3
  <2>6. QED
    BY <2>2, <2>5 DEF N
<1>4. QED
  BY <1>3

\* The first line of a message gives the protocol and the path without its
\* first character.
LEMMA FirstLineTaken ==
  ASSUME NEW m \in Messages, WellFormed(m), Fits(m)
  PROVE  TakeFirstLine(FirstLine(m)) =
           (pc' = "scan" /\ http' = [http EXCEPT !.header = m.protocol, !.method = Tail(m.path)])
<1> DEFINE p == m.path
           r == m.protocol
           l == FirstLine(m)
           n == Len(p)
           N == Len(l)
<1>1. p \in Texts /\ r \in Texts /\ l \in Texts /\ n \in Nat /\ Len(r) \in Nat /\ N \in Nat
  BY MessageTypes DEF Texts
<1>2. /\ p # << >> /\ ~Has(p, "SP") /\ ~Has(r, "SP") /\ Bytes(p) < FieldMax /\ Bytes(r) < FieldMax
  BY WellFormedParts DEF Fits
<1>3. /\ N = n + 3 + Len(r) /\ l[1] = "M" /\ l[2] = "SP" /\ l[n + 3] = "SP"
      /\ \A k \in 1..n : l[2 + k] = p[k]
      /\ \A k \in 1..Len(r) : l[n + 3 + k] = r[k]
  BY FirstLineParts
<1> HIDE DEF p, r, l, n, N
<1>4. /\ \A k \in 1..n : p[k] # "SP"
      /\ \A k \in 1..Len(r) : r[k] # "SP"
  <2>1. DOMAIN p = 1..n /\ DOMAIN r = 1..Len(r)
    BY <1>1 DEF n, Texts
  <2>2. QED
    BY <1>2, <2>1 DEF Has
<1> DEFINE spaces == {k \in DOMAIN l : l[k] = "SP"}
<1>5. spaces = {2, n + 3}
  <2>1. DOMAIN l = 1..N
    BY <1>1 DEF N, Texts
  <2>2. 2 \in spaces /\ n + 3 \in spaces
    BY <1>1, <1>3, <2>1
  <2>3. ASSUME NEW k \in 1..N, l[k] = "SP", k # 2, k # n + 3
        PROVE  FALSE
    <3>1. k # 1
      BY <1>3, <2>3
    <3>2. ~(k - 2 \in 1..n)
      <4>1. 2 + (k - 2) = k
        BY <1>1
      <4>2. k - 2 \in 1..n => l[k] = p[k - 2]
        BY <1>3, <4>1
      <4>3. QED
        BY <1>4, <2>3, <4>2
    <3>3. ~(k - (n + 3) \in 1..Len(r))
      <4>1. n + 3 + (k - (n + 3)) = k
        BY <1>1
      <4>2. k - (n + 3) \in 1..Len(r) => l[k] = r[k - (n + 3)]
        BY <1>3, <4>1
      <4>3. QED
        BY <1>4, <2>3, <4>2
    <3>4. QED
      BY <1>1, <1>3, <2>3, <3>1, <3>2, <3>3
  <2>4. \A k \in spaces : k \in {2, n + 3}
    BY <2>1, <2>3
  <2> HIDE DEF spaces
  <2>5. QED
    BY <2>2, <2>4
<1>6. spaces # {} /\ Min(spaces) = 2 /\ Max(spaces) = n + 3
  <2>1. spaces \in SUBSET Nat /\ spaces # {} /\ spaces \in SUBSET (1..N) /\ N \in Nat
    BY <1>1, <1>3, <1>5
  <2> HIDE DEF spaces
  <2>2. Min(spaces) \in spaces /\ \A y \in spaces : Min(spaces) <= y
    BY <2>1, LeastNumber
  <2>3. Max(spaces) \in spaces /\ \A y \in spaces : Max(spaces) >= y
    BY <2>1, MostNumber
  <2>4. QED
    BY <1>1, <1>5, <2>1, <2>2, <2>3
<1>7. SubSeq(l, n + 3 + 1, N) = r
  <2> DEFINE q == SubSeq(l, n + 3 + 1, N)
  <2>1. l \in Seq(Symbols) /\ n + 3 + 1 \in 1..(Len(l) + 1) /\ N \in Int /\ (n + 3 + 1) - 1 <= N /\ N <= Len(l)
    BY <1>1, <1>3 DEF N, Texts
  <2>2. /\ q \in Seq(Symbols) /\ Len(q) = N - (n + 3 + 1) + 1
        /\ \A k \in 1..(N - (n + 3 + 1) + 1) : q[k] = l[(n + 3 + 1) + k - 1]
    BY <2>1, PartOf, Zenon
  <2> HIDE DEF q
  <2>3. Len(q) = Len(r) /\ r \in Seq(Symbols)
    BY <1>1, <1>3, <2>2 DEF Texts
  <2>4. ASSUME NEW k \in 1..Len(r)
        PROVE  q[k] = r[k]
    <3>1. k \in 1..(N - (n + 3 + 1) + 1) /\ (n + 3 + 1) + k - 1 = n + 3 + k
      BY <1>1, <1>3
    <3>2. QED
      BY <1>3, <2>2, <3>1
  <2>5. q = r
    BY <2>2, <2>3, <2>4
  <2>6. QED
    BY <2>5 DEF q
<1>8. n >= 1
  BY <1>1, <1>2 DEF n, Texts
<1>9. SubSeq(l, 4, n + 2) = Tail(p)
  <2> DEFINE q == SubSeq(l, 4, n + 2)
             w == Tail(p)
  <2>1. l \in Seq(Symbols) /\ 4 \in 1..(Len(l) + 1) /\ n + 2 \in Int /\ 4 - 1 <= n + 2 /\ n + 2 <= Len(l)
    BY <1>1, <1>3, <1>8 DEF N, Texts
  <2>2. /\ q \in Seq(Symbols) /\ Len(q) = (n + 2) - 4 + 1
        /\ \A k \in 1..((n + 2) - 4 + 1) : q[k] = l[4 + k - 1]
    BY <2>1, PartOf, Zenon
  <2>3. w \in Seq(Symbols) /\ Len(w) = n - 1 /\ \A k \in 1..(n - 1) : w[k] = p[k + 1]
    BY <1>1, <1>2, HeadTailProperties DEF Texts, n
  <2> HIDE DEF q, w
  <2>4. Len(q) = n - 1
    BY <1>1, <2>2
  <2>5. ASSUME NEW k \in 1..(n - 1)
        PROVE  q[k] = w[k]
    <3>1. k \in 1..((n + 2) - 4 + 1) /\ 4 + k - 1 = 2 + (k + 1) /\ k + 1 \in 1..n
      BY <1>1
    <3>2. QED
      BY <1>3, <2>2, <2>3, <3>1
  <2>6. q = w
    BY <2>2, <2>3, <2>4, <2>5
  <2>7. QED
    BY <2>6 DEF q, w
<1>10. MethodLength(SubSeq(l, 2, n + 2)) \in 0..(FieldMax - 1)
  <2> DEFINE q == SubSeq(l, 2, n + 2)
  <2>1. l \in Seq(Symbols) /\ 2 \in 1..(Len(l) + 1) /\ n + 2 \in Int /\ 2 - 1 <= n + 2 /\ n + 2 <= Len(l)
    BY <1>1, <1>3, <1>8 DEF N, Texts
  <2>2. /\ q \in Seq(Symbols) /\ Len(q) = (n + 2) - 2 + 1
        /\ \A k \in 1..((n + 2) - 2 + 1) : q[k] = l[2 + k - 1]
    BY <2>1, PartOf, Zenon
  <2> HIDE DEF q
  <2>3. Len(q) = n + 1 /\ q \in Texts /\ DOMAIN q = 1..(n + 1) /\ DOMAIN p = 1..n
    BY <1>1, <2>2 DEF Texts, n
  <2>4. ASSUME NEW k \in 1..(n + 1)
        PROVE  q[k] = l[k + 1]
    <3>1. k \in 1..((n + 2) - 2 + 1) /\ 2 + k - 1 = k + 1
      BY <1>1
    <3>2. QED
      BY <2>2, <3>1
  <2>5. ASSUME NEW x \in {"M", "CT"}
        PROVE  Cardinality(Positions(q, x)) <= Cardinality(Positions(p, x))
    <3>1. ASSUME NEW k \in Positions(q, x)
          PROVE  k + (-1) \in Positions(p, x)
      <4>1. k \in 1..(n + 1) /\ q[k] = x /\ 1 \in 1..(n + 1) /\ 1 + 1 = 2
        BY <1>1, <2>3 DEF Positions
      <4>2. k # 1
        BY <1>3, <2>4, <2>5, <4>1
      <4>3. k - 1 \in 1..n /\ 2 + (k - 1) = k + 1 /\ k + (-1) = k - 1
        BY <1>1, <4>1, <4>2
      <4>4. p[k - 1] = x
        BY <1>3, <2>4, <4>1, <4>3
      <4>5. QED
        BY <2>3, <4>3, <4>4 DEF Positions
    <3>2. QED
      BY <1>1, <2>3, <3>1, CountShift
  <2>6. /\ Cardinality(Positions(q, "M")) <= Cardinality(Positions(p, "M"))
        /\ Cardinality(Positions(q, "CT")) <= Cardinality(Positions(p, "CT"))
    BY <2>5
  <2>7. /\ Cardinality(Positions(q, "M")) \in Nat /\ Cardinality(Positions(q, "CT")) \in Nat
        /\ Cardinality(Positions(p, "M")) \in Nat /\ Cardinality(Positions(p, "CT")) \in Nat
    BY <1>1, <2>3, CountPositions
  <2>8. Bytes(q) <= Bytes(p) + 1 /\ Bytes(q) >= 2 /\ Bytes(q) \in Nat /\ Bytes(p) \in Nat
    <3>1. Len(p) = n
      BY DEF n
    <3> DEFINE cm == Cardinality(Positions(q, "M"))
               cc == Cardinality(Positions(q, "CT"))
               dm == Cardinality(Positions(p, "M"))
               dc == Cardinality(Positions(p, "CT"))
    <3>2. Bytes(q) = n + 1 + 3 * cm + 12 * cc /\ Bytes(p) = n + 3 * dm + 12 * dc
      BY <2>3, <3>1 DEF Bytes
    <3>3. cm \in Nat /\ cc \in Nat /\ dm \in Nat /\ dc \in Nat /\ cm <= dm /\ cc <= dc
      BY <2>6, <2>7
    <3> HIDE DEF cm, cc, dm, dc
    <3>4. QED
      BY <1>1, <1>8, <3>2, <3>3
  <2>9. MethodLength(q) = Bytes(q) - 2 /\ FieldMax \in Nat
    BY MessagesAssumption DEF MethodLength
  <2>10. MethodLength(q) \in 0..(FieldMax - 1)
    BY <1>2, <2>8, <2>9
  <2>11. QED
    BY <2>10 DEF q
<1>11. Bytes(r) < FieldMax /\ ~(Bytes(r) >= FieldMax)
  <2>1. Bytes(r) \in Nat /\ FieldMax \in Nat
    BY <1>1, BytesFacts, MessagesAssumption
  <2>2. QED
    BY <1>2, <2>1
<1>12. (n + 3) - 1 = n + 2 /\ 2 + 2 = 4
  BY <1>1
<1> DEFINE G == pc' = "scan" /\ http' = [http EXCEPT !.header = r, !.method = Tail(p)]
<1>13. TakeFirstLine(l) = G
  <2> HIDE DEF spaces
  <2>1. TakeFirstLine(l) =
          LET buf2 == Min(spaces)
              buf1 == Max(spaces)
              value  == SubSeq(l, buf1 + 1, Len(l))
              length == MethodLength(SubSeq(l, buf2, buf1 - 1))
          IN  IF spaces = {} THEN pc' = "scan" /\ UNCHANGED http
              ELSE IF Bytes(value) >= FieldMax \/ length \notin 0..(FieldMax - 1)
              THEN pc' = "fault" /\ UNCHANGED http
              ELSE pc' = "scan" /\ http' = [http EXCEPT !.header = value, !.method = SubSeq(l, buf2 + 2, buf1 - 1)]
    BY DEF TakeFirstLine, spaces
  <2>2. QED
    BY <1>6, <1>7, <1>9, <1>10, <1>11, <1>12, <2>1 DEF N
<1>14. QED
  BY <1>13 DEF l, p, r

-----------------------------------------------------------------------------
(* One message is taken apart within the buffers.                          *)

\* The loop is at the beginning of a line of the header, or behind the header.
ScanInv ==
  pc = "scan" =>
    \A c : FromMessage(c) => j >= Len(Header(conv[c])) \/ \E i : AtLine(c, i)

\* From the begin of a message on the loop goes from line to line.
LEMMA ScanInvStep == PieceInv /\ ScanInv /\ [Next]_vars => ScanInv'
<1>1. SUFFICES ASSUME PieceInv, ScanInv, [Next]_vars, pc' = "scan", NEW c, FromMessage(c)'
      PROVE  j' >= Len(Header(conv'[c])) \/ (\E i : AtLine(c, i))'
  BY DEF ScanInv
<1>2. CASE Read
  <2>1. j' = 0 /\ conv' = conv /\ conv \in Conversations
    BY <1>1, <1>2 DEF Read, PieceInv
  <2>2. c \in 1..Len(conv)
    BY <1>1, <2>1 DEF FromMessage
  <2>3. conv[c] \in Messages /\ WellFormed(conv[c])
    BY <2>1, <2>2, StartFacts
  <2>4. Begin(conv[c], 1) = 0 /\ 1 \in 1..Len(Lines(conv[c]))
    BY <2>3, Layout
  <2>5. AtLine(c, 1)'
    BY <1>1, <2>1, <2>4 DEF AtLine
  <2>6. QED
    BY <2>5
<1>3. CASE Line
  <2>1. /\ pc = "scan" /\ Returns # {} /\ j' = Min(Returns) + 1
        /\ conv' = conv /\ at' = at /\ recvbuf' = recvbuf
    BY <1>3, Zenon DEF Line, AfterReturn
  <2>2. FromMessage(c)
    BY <1>1, <2>1 DEF FromMessage, Start
  <2>3. conv[c] \in Messages /\ WellFormed(conv[c])
    BY <1>1, <2>2, PieceOfMessage
  <2>4. CASE j >= Len(Header(conv[c]))
    <3>1. j < Min(Returns) /\ Min(Returns) \in Int /\ j \in Int
      <4>1. PICK k \in 1..Len(recvbuf) : k = Min(Returns) /\ j < k
        BY <1>1, <2>1, NextReturn
      <4>2. j \in Int /\ Len(recvbuf) \in Int
        BY <1>1 DEF PieceInv, Texts
      <4>3. QED
        BY <4>1, <4>2
    <3>2. Len(Header(conv[c])) \in Nat
      BY <2>3, Layout
    <3>3. QED
      BY <2>1, <2>4, <3>1, <3>2
  <2>5. ASSUME NEW i, AtLine(c, i)
        PROVE  j' >= Len(Header(conv'[c])) \/ (\E k : AtLine(c, k))'
    <3>1. j' = Begin(conv[c], i + 1)
      BY <1>1, <2>1, <2>5, LineTaken
    <3>2. i \in 1..Len(Lines(conv[c])) /\ Len(Lines(conv[c])) \in Nat
      BY <2>3, <2>5, Layout DEF AtLine
    <3>3. CASE i = Len(Lines(conv[c]))
      <4>1. j' = Len(Header(conv[c])) /\ Len(Header(conv[c])) \in Nat
        BY <2>3, <3>1, <3>3, Layout
      <4>2. QED
        BY <2>1, <4>1
    <3>4. CASE i # Len(Lines(conv[c]))
      <4>1. i + 1 \in 1..Len(Lines(conv[c]))
        BY <3>2, <3>4
      <4>2. AtLine(c, i + 1)'
        BY <1>1, <2>1, <3>1, <4>1 DEF AtLine
      <4>3. QED
        BY <4>2
    <3>5. QED
      BY <3>3, <3>4
  <2>6. QED
    BY <1>1, <2>1, <2>2, <2>4, <2>5 DEF ScanInv
<1>4. CASE Finish
  <2>1. pc' # "scan"
    BY <1>4, Zenon DEF Finish
  <2>2. QED
    BY <1>1, <2>1
<1>5. CASE UNCHANGED vars
  <2>1. /\ pc = "scan" /\ j' = j /\ conv' = conv /\ at' = at /\ recvbuf' = recvbuf
    BY <1>1, <1>5 DEF vars
  <2>2. FromMessage(c)
    BY <1>1, <2>1 DEF FromMessage, Start
  <2>3. ASSUME NEW i, AtLine(c, i)
        PROVE  AtLine(c, i)'
    BY <1>1, <2>1, <2>3 DEF AtLine
  <2>4. QED
    BY <1>1, <2>1, <2>2, <2>3 DEF ScanInv
<1>6. QED
  BY <1>1, <1>2, <1>3, <1>4, <1>5 DEF Next

\* What get_input_http_info leaves to cJSON_Parse.
Content == SubSeq(recvbuf, j + 1, Len(recvbuf))

\* The content is what is left after the last line end.
LEMMA ContentFacts ==
  ASSUME PieceInv
  PROVE  /\ Content \in Texts /\ Len(recvbuf) \in Nat /\ j \in Nat
         /\ Len(Content) = IF j < Len(recvbuf) THEN Len(recvbuf) - j ELSE 0
         /\ \A o \in 1..Len(Content) : Content[o] = recvbuf[j + o]
<1>1. recvbuf \in Seq(Symbols) /\ Len(recvbuf) \in Nat /\ j \in Nat
  BY DEF PieceInv, Texts
<1>2. j + 1 \in Int /\ Len(recvbuf) \in Int /\ \A o \in (j + 1)..Len(recvbuf) : recvbuf[o] \in Symbols
  BY <1>1
<1>3. /\ Content \in Seq(Symbols)
      /\ Len(Content) = IF j + 1 <= Len(recvbuf) THEN Len(recvbuf) - (j + 1) + 1 ELSE 0
      /\ \A o \in 1..(Len(recvbuf) - (j + 1) + 1) : Content[o] = recvbuf[(j + 1) + o - 1]
  BY <1>2, SubSeqProperties DEF Content
<1> DEFINE n == Len(recvbuf)
           q == Content
<1> HIDE DEF n, q
<1>4. Len(q) = IF j < n THEN n - j ELSE 0
  BY <1>1, <1>3 DEF n, q
<1>5. ASSUME NEW o \in 1..Len(q)
      PROVE  q[o] = recvbuf[j + o]
  <2>1. o \in 1..(n - (j + 1) + 1) /\ (j + 1) + o - 1 = j + o
    BY <1>1, <1>4 DEF n
  <2>2. QED
    BY <1>3, <2>1 DEF n, q
<1>6. QED
  BY <1>1, <1>3, <1>4, <1>5 DEF n, q, Texts

\* A piece of one message that begins like a message is its beginning.
LEMMA OneFromMessage ==
  ASSUME PieceInv, recvbuf # << >>, recvbuf[1] = "M", NEW c \in DOMAIN conv,
         Start(c) <= at - Len(recvbuf), at <= Start(c) + Len(Text(conv[c]))
  PROVE  FromMessage(c)
<1>1. /\ conv \in Conversations /\ at \in Nat /\ Len(recvbuf) <= at /\ Len(recvbuf) \in Nat /\ Len(recvbuf) # 0
  BY SentTypes DEF PieceInv, Texts
<1>2. PICK d : FromMessage(d)
  BY ReadFromMessage
<1>3. c \in 1..Len(conv) /\ d \in 1..Len(conv) /\ Start(d) = at - Len(recvbuf) /\ Len(conv) \in Nat
  BY <1>1, <1>2, SentTypes DEF FromMessage
<1>4. /\ Start(c) \in Nat /\ Start(d) \in Nat /\ Len(Text(conv[c])) \in Nat /\ Len(Text(conv[d])) \in Nat
      /\ conv[d] \in Messages
      /\ c < d => Start(c) + Len(Text(conv[c])) <= Start(d)
      /\ d < c => Start(d) + Len(Text(conv[d])) <= Start(c)
  BY <1>1, <1>3, StartFacts
<1>5. Len(Text(conv[d])) >= 7
  <2>1. Len(Text(conv[d])) = Len(Header(conv[d])) + Len(conv[d].body) /\ Len(conv[d].body) \in Nat
    <3>1. Len(Text(conv[d])) = Len(Header(conv[d])) + Len(conv[d].body) /\ conv[d].body \in Texts
      BY <1>4, MessageTypes
    <3>2. QED
      BY <3>1 DEF Texts
  <2>2. Len(Header(conv[d])) >= 7 /\ Len(Header(conv[d])) \in Nat
    BY <1>4, MessageStarts
  <2> DEFINE x == Len(Header(conv[d]))
             y == Len(conv[d].body)
             z == Len(Text(conv[d]))
  <2>3. z = x + y /\ y \in Nat /\ x >= 7 /\ x \in Nat
    BY <2>1, <2>2
  <2> HIDE DEF x, y, z
  <2>4. z >= 7
    BY <2>3
  <2>5. QED
    BY <2>4 DEF z
<1>6. c = d
  BY <1>1, <1>3, <1>4, <1>5
<1>7. QED
  BY <1>2, <1>6

\* What follows the header is a part of the body.
LEMMA PartOfBody ==
  ASSUME PieceInv, NEW c, FromMessage(c), at <= Start(c) + Len(Text(conv[c])),
         j >= Len(Header(conv[c])), NEW u \in Texts,
         \A o \in 1..Len(u) : j + o <= Len(recvbuf) /\ u[o] = recvbuf[j + o]
  PROVE  /\ Bytes(u) <= Bytes(conv[c].body)
         /\ \A o \in 1..Len(u) : u[o] # "CT"
<1> DEFINE m == conv[c]
           h == Len(Header(m))
           b == m.body
           t == Text(m)
<1>1. /\ m \in Messages /\ WellFormed(m) /\ Len(recvbuf) \in Nat
      /\ \A o \in 1..Len(t) : o <= Len(recvbuf) => recvbuf[o] = t[o]
  BY PieceOfMessage
<1>2. /\ h \in Nat /\ Len(t) = h + Len(b) /\ Len(b) \in Nat /\ b \in Texts
      /\ \A o \in 1..Len(b) : t[h + o] = b[o]
  BY <1>1, Layout, MessageTypes
<1>3. Len(recvbuf) <= Len(t) /\ j \in Nat /\ j >= h
  <2>1. Start(c) = at - Len(recvbuf) /\ Start(c) \in Nat /\ at \in Nat /\ j \in Nat
    BY StartFacts, SentTypes DEF FromMessage, PieceInv
  <2>2. at <= Start(c) + Len(t) /\ j >= h
    OBVIOUS
  <2> HIDE DEF t, h
  <2>3. Len(t) \in Nat
    BY <1>2
  <2>4. QED
    BY <1>1, <1>2, <2>1, <2>2, <2>3
<1>4. ~Has(b, "CT")
  BY <1>1, WellFormedParts
<1> HIDE DEF m, h, b, t
<1>5. ASSUME NEW o \in 1..Len(u)
      PROVE  o + (j - h) \in 1..Len(b) /\ u[o] = b[o + (j - h)]
  <2>1. Len(u) \in Nat
    BY DEF Texts
  <2>2. j + o \in 1..Len(t) /\ j + o <= Len(recvbuf) /\ h + (o + (j - h)) = j + o
    BY <1>1, <1>2, <1>3, <2>1
  <2>3. o + (j - h) \in 1..Len(b)
    BY <1>2, <1>3, <2>1, <2>2
  <2>4. QED
    BY <1>1, <1>2, <2>2, <2>3
<1>6. j - h \in Nat
  BY <1>2, <1>3
<1>7. Bytes(u) <= Bytes(b)
  BY <1>2, <1>5, <1>6, BytesPart
<1>8. ASSUME NEW o \in 1..Len(u)
      PROVE  u[o] # "CT"
  <2>1. o + (j - h) \in DOMAIN b
    BY <1>2, <1>5 DEF Texts
  <2>2. QED
    BY <1>4, <1>5, <2>1 DEF Has
<1>9. QED
  BY <1>7, <1>8 DEF b, m

\* The lines of a message fit into the local arrays.
LEMMA LineFits ==
  ASSUME NEW m \in Messages, WellFormed(m), Fits(m), NEW i \in 1..Len(Lines(m))
  PROVE  /\ Bytes(Lines(m)[i]) \in Nat /\ Bytes(Lines(m)[i]) < TextMax
         /\ (i = 1) <=> (Begin(m, i) = 0)
         /\ i # 1 /\ Bytes(Lines(m)[i]) > 14 /\ Lines(m)[i][1] = "CT" => Bytes(Lines(m)[i]) - 14 < FieldMax
<1>1. /\ Lines(m) \in Seq(Texts) /\ Len(Lines(m)) = Len(m.head) + 2 /\ Len(m.head) \in Nat
      /\ Lines(m)[1] = FirstLine(m) /\ Lines(m)[Len(m.head) + 2] = << >>
      /\ \A k \in 1..Len(m.head) : Lines(m)[k + 1] = m.head[k]
      /\ m.head \in Seq(Texts)
  BY MessageTypes
<1>2. Bytes(Lines(m)[i]) \in Nat /\ Bytes(Lines(m)[i]) < TextMax
  <2>1. i \in DOMAIN Lines(m) /\ Lines(m)[i] \in Texts
    BY <1>1
  <2>2. QED
    BY <2>1, BytesFacts DEF Fits
<1>3. (i = 1) <=> (Begin(m, i) = 0)
  <2>1. CASE i = 1
    BY <2>1, Layout
  <2>2. CASE i # 1
    <3>1. i - 1 \in 1..Len(Lines(m)) /\ (i - 1) + 1 = i
      BY <1>1, <2>2
    <3>2. Begin(m, i) = Begin(m, i - 1) + Len(Lines(m)[i - 1]) + 2 /\ Begin(m, i - 1) \in Nat
          /\ Len(Lines(m)[i - 1]) \in Nat
      <4>1. Begin(m, (i - 1) + 1) = Begin(m, i - 1) + Len(Lines(m)[i - 1]) + 2
            /\ Begin(m, i - 1) \in Nat /\ Len(Lines(m)[i - 1]) \in Nat
        BY <3>1, LineAt, Zenon
      <4>2. QED
        BY <3>1, <4>1
    <3>3. QED
      BY <2>2, <3>2
  <2>3. QED
    BY <2>1, <2>2
<1>4. ASSUME i # 1, Bytes(Lines(m)[i]) > 14, Lines(m)[i][1] = "CT"
      PROVE  Bytes(Lines(m)[i]) - 14 < FieldMax
  <2>1. CASE i = Len(m.head) + 2
    <3>1. Bytes(<< >>) = 0
      <4> DEFINE w == << >>
      <4>1. w \in Texts /\ Len(w) = 0
        BY DEF Texts
      <4> HIDE DEF w
      <4>2. Positions(w, "M") = {} /\ Positions(w, "CT") = {}
        BY <4>1 DEF Positions, Texts
      <4>3. Cardinality({}) = 0
        BY FS_EmptySet
      <4>4. Bytes(w) = 0 + 3 * 0 + 12 * 0
        BY <4>1, <4>2, <4>3 DEF Bytes
      <4>5. QED
        BY <4>4 DEF w
    <3>2. Bytes(Lines(m)[i]) = 0
      BY <1>1, <2>1, <3>1
    <3>3. QED
      BY <1>4, <3>2
  <2>2. CASE i # Len(m.head) + 2
    <3>1. i - 1 \in 1..Len(m.head) /\ (i - 1) + 1 = i
      BY <1>1, <1>4, <2>2
    <3>2. Lines(m)[i] = m.head[i - 1] /\ i - 1 \in DOMAIN m.head
      BY <1>1, <3>1
    <3>3. QED
      BY <1>4, <3>2 DEF Fits
  <2>3. QED
    BY <2>1, <2>2
<1>5. QED
  BY <1>2, <1>3, <1>4

\* A line of one message fits into buf and its fields into their arrays.
LEMMA BoundsLine ==
  ASSUME PieceInv, ScanInv, Line, NEW c, FromMessage(c), at <= Start(c) + Len(Text(conv[c])),
         ~(Bytes(recvbuf) >= BufMax - 1)
  PROVE  pc' # "fault"
<1> DEFINE k == Min(Returns)
           l == TheLine(k)
           m == conv[c]
<1>1. /\ pc = "scan" /\ Returns # {}
      /\ IF Bytes(l) >= TextMax \/ Beyond(k + 1) THEN pc' = "fault" /\ UNCHANGED http
         ELSE IF j = 0 THEN TakeFirstLine(l) ELSE TakeLine(l)
  BY Zenon DEF Line, AfterReturn, TheLine
<1>2. /\ k \in 1..Len(recvbuf) /\ j < k
      /\ l \in Texts /\ Len(l) = k - 1 - j
      /\ \A o \in 1..(k - 1 - j) : l[o] = recvbuf[j + o]
  BY <1>1, NextReturn
<1>3. /\ m \in Messages /\ WellFormed(m) /\ Fits(m) /\ Len(recvbuf) \in Nat /\ j \in Nat
      /\ recvbuf \in Texts /\ Bytes(recvbuf) \in Nat /\ BufMax \in Nat /\ TextMax \in Nat /\ FieldMax \in Nat
  BY PieceOfMessage, BytesFacts, MessagesAssumption DEF PieceInv
<1> HIDE DEF k, m
<1>4. ~Beyond(k + 1)
  <2>1. ASSUME Beyond(k + 1) PROVE FALSE
    <3> DEFINE x == Bytes(recvbuf)
               n == Len(recvbuf)
    <3>1. x \in Nat /\ n \in Nat /\ k \in 1..n /\ BufMax \in Nat /\ ~(x >= BufMax - 1)
      BY <1>2, <1>3
    <3>2. x + ((k + 1) - n) >= BufMax
      BY <1>2, <1>3, <2>1 DEF Beyond
    <3> HIDE DEF x, n
    <3>3. QED
      BY <3>1, <3>2
  <2>2. QED
    BY <2>1
<1>5. \/ \E i : AtLine(c, i)
      \/ j >= Len(Header(m))
  BY <1>1 DEF ScanInv, m
<1>6. ASSUME TakeLine(l), pc' = "fault"
      PROVE  Bytes(l) > 14 /\ l[1] = "CT" /\ Bytes(l) - 14 >= FieldMax
  <2> HIDE DEF l
  <2>1. CASE Bytes(l) > 14 /\ l[1] = "CT"
    BY <1>6, <2>1 DEF TakeLine
  <2>2. CASE ~(Bytes(l) > 14 /\ l[1] = "CT")
    BY <1>6, <2>2 DEF TakeLine
  <2>3. QED
    BY <2>1, <2>2
<1>7. ASSUME NEW i, AtLine(c, i)
      PROVE  pc' # "fault"
  <2>1. l = Lines(m)[i] /\ i \in 1..Len(Lines(m)) /\ j = Begin(m, i)
    BY <1>1, <1>7, LineTaken DEF k, m, AtLine
  <2>2. /\ Bytes(l) \in Nat /\ Bytes(l) < TextMax
        /\ (i = 1) <=> (j = 0)
        /\ i # 1 /\ Bytes(l) > 14 /\ l[1] = "CT" => Bytes(l) - 14 < FieldMax
    <3> HIDE DEF l
    <3>1. QED
      BY <1>3, <2>1, LineFits
  <2>3. ~(Bytes(l) >= TextMax)
    BY <1>3, <2>2
  <2>4. CASE j = 0
    <3>1. TakeFirstLine(l)
      BY <1>1, <1>4, <2>3, <2>4
    <3>2. l = FirstLine(m)
      BY <1>3, <2>1, <2>2, <2>4, MessageTypes
    <3> HIDE DEF l
    <3>3. pc' = "scan"
      BY <1>3, <3>1, <3>2, FirstLineTaken
    <3>4. QED
      BY <3>3
  <2>5. CASE j # 0
    <3>1. TakeLine(l)
      BY <1>1, <1>4, <2>3, <2>5
    <3>2. QED
      <4> HIDE DEF l
      <4>1. QED
        BY <1>3, <1>6, <2>2, <2>5, <3>1
  <2>6. QED
    BY <2>4, <2>5
<1>8. CASE j >= Len(Header(m))
  <2>1. Len(Header(m)) >= 7 /\ Len(Header(m)) \in Nat
    BY <1>3, MessageStarts
  <2>2. j # 0
    BY <1>3, <1>8, <2>1
  <2> HIDE DEF l
  <2>3. \A o \in 1..Len(l) : j + o <= Len(recvbuf) /\ l[o] = recvbuf[j + o]
    BY <1>2, <1>3
  <2>4. Bytes(l) <= Bytes(m.body) /\ \A o \in 1..Len(l) : l[o] # "CT"
    BY <1>2, <1>8, <2>3, PartOfBody DEF m
  <2>5. Bytes(l) \in Nat /\ Bytes(m.body) \in Nat /\ Bytes(m.body) < TextMax /\ Len(l) \in Nat
    <3>1. Bytes(l) \in Nat /\ Len(l) \in Nat
      BY <1>2, BytesFacts DEF Texts
    <3>2. m.body \in Texts /\ Bytes(m.body) < TextMax
      BY <1>3, MessageTypes DEF Fits
    <3>3. QED
      BY <3>1, <3>2, BytesFacts
  <2>6. ~(Bytes(l) >= TextMax)
    BY <1>3, <2>4, <2>5
  <2>7. TakeLine(l)
    BY <1>1, <1>4, <2>2, <2>6 DEF l
  <2>8. ~(Bytes(l) > 14 /\ l[1] = "CT")
    <3>1. ASSUME Bytes(l) > 14, l[1] = "CT" PROVE FALSE
      <4>1. Len(l) = 0
        BY <2>4, <2>5, <3>1
      <4>2. Positions(l, "M") = {} /\ Positions(l, "CT") = {}
        BY <1>2, <4>1 DEF Positions, Texts
      <4>3. Cardinality({}) = 0
        BY FS_EmptySet
      <4>4. Bytes(l) = 0 + 3 * 0 + 12 * 0
        BY <4>1, <4>2, <4>3 DEF Bytes
      <4>5. QED
        BY <3>1, <4>4
    <3>2. QED
      BY <3>1
  <2>9. QED
    BY <1>6, <2>7, <2>8 DEF l
<1>9. QED
  BY <1>5, <1>7, <1>8

\* The content of one message fits into receive_http_content.
LEMMA BoundsFinish ==
  ASSUME PieceInv, ScanInv, Finish, NEW c, FromMessage(c), at <= Start(c) + Len(Text(conv[c])),
         ~(Bytes(recvbuf) >= BufMax - 1)
  PROVE  pc' # "fault"
<1> DEFINE m == conv[c]
           u == Content
<1>1. /\ pc = "scan" /\ Returns = {}
      /\ ~(Bytes(u) >= TextMax \/ Beyond(Len(recvbuf))) => pc' = "idle"
  BY Zenon DEF Finish, Content
<1>2. /\ m \in Messages /\ WellFormed(m) /\ Fits(m) /\ Len(recvbuf) \in Nat /\ j \in Nat
      /\ recvbuf \in Texts /\ Bytes(recvbuf) \in Nat /\ BufMax \in Nat /\ TextMax \in Nat
  BY PieceOfMessage, BytesFacts, MessagesAssumption, ContentFacts DEF PieceInv
<1>3. /\ u \in Texts /\ Len(u) = IF j < Len(recvbuf) THEN Len(recvbuf) - j ELSE 0
      /\ \A o \in 1..Len(u) : u[o] = recvbuf[j + o]
  BY ContentFacts
<1> HIDE DEF m, u
<1>4. ~Beyond(Len(recvbuf))
  BY <1>2 DEF Beyond
<1>5. \/ \E i : AtLine(c, i)
      \/ j >= Len(Header(m))
  BY <1>1 DEF ScanInv, m
<1>6. ASSUME NEW i, AtLine(c, i)
      PROVE  Bytes(u) < TextMax
  <2> DEFINE l == Lines(m)[i]
  <2>1. i \in 1..Len(Lines(m))
    BY <1>6 DEF AtLine, m
  <2>2. /\ Len(recvbuf) - j <= Len(l)
        /\ \A o \in 1..(Len(recvbuf) - j) : recvbuf[j + o] = l[o]
    BY <1>1, <1>6, LineLeft DEF m
  <2>3. l \in Texts /\ Len(l) \in Nat /\ Bytes(l) \in Nat /\ Bytes(l) < TextMax
    BY <1>2, <2>1, LineFits, LineAt
  <2> HIDE DEF l
  <2>4. ASSUME NEW o \in 1..Len(u)
        PROVE  o + 0 \in 1..Len(l) /\ u[o] = l[o + 0]
    <3>1. o \in 1..(Len(recvbuf) - j) /\ o + 0 = o /\ o \in 1..Len(l)
      BY <1>2, <1>3, <2>2, <2>3
    <3>2. QED
      BY <1>3, <2>2, <3>1
  <2>5. Bytes(u) <= Bytes(l)
    BY <1>3, <2>3, <2>4, BytesPart
  <2>6. Bytes(u) \in Nat
    BY <1>3, BytesFacts
  <2>7. QED
    BY <1>2, <2>3, <2>5, <2>6
<1>7. ASSUME j >= Len(Header(m))
      PROVE  Bytes(u) < TextMax
  <2>1. \A o \in 1..Len(u) : j + o <= Len(recvbuf) /\ u[o] = recvbuf[j + o]
    BY <1>2, <1>3
  <2>2. Bytes(u) <= Bytes(m.body)
    BY <1>3, <1>7, <2>1, PartOfBody DEF m
  <2>3. m.body \in Texts /\ Bytes(m.body) < TextMax
    BY <1>2, MessageTypes DEF Fits
  <2>4. Bytes(u) \in Nat /\ Bytes(m.body) \in Nat
    BY <1>3, <2>3, BytesFacts
  <2> DEFINE x == Bytes(m.body)
  <2> HIDE DEF x
  <2>5. QED
    BY <1>2, <2>2, <2>3, <2>4 DEF x
<1>8. Bytes(u) \in Nat /\ Bytes(u) < TextMax
  <2>1. Bytes(u) \in Nat
    BY <1>3, BytesFacts
  <2>2. QED
    BY <1>5, <1>6, <1>7, <2>1
<1>9. QED
  BY <1>1, <1>2, <1>4, <1>8

\* No step of the handler on one message leaves the buffers.
LEMMA BoundsStep == PieceInv /\ ScanInv /\ OneMessageInBounds /\ [Next]_vars => OneMessageInBounds'
<1> DEFINE One(c) == Start(c) <= at - Len(recvbuf) /\ at <= Start(c) + Len(Text(conv[c]))
<1>1. SUFFICES ASSUME PieceInv, ScanInv, OneMessageInBounds, [Next]_vars, pc' = "fault",
                      NEW c \in DOMAIN conv', One(c)'
               PROVE  Bytes(recvbuf') >= BufMax - 1
  BY DEF OneMessageInBounds
<1>2. /\ recvbuf' = recvbuf /\ at' = at /\ conv' = conv
      /\ Line \/ Finish \/ (pc = "fault")
  <2>1. CASE Read
    <3>1. pc' = "scan" \/ pc' = "idle"
      BY <2>1, Zenon DEF Read
    <3>2. QED
      BY <1>1, <3>1
  <2>2. CASE Line
    BY <2>2, Zenon DEF Line
  <2>3. CASE Finish
    BY <2>3, Zenon DEF Finish
  <2>4. CASE UNCHANGED vars
    BY <1>1, <2>4 DEF vars
  <2>5. QED
    BY <1>1, <2>1, <2>2, <2>3, <2>4 DEF Next
<1>3. c \in DOMAIN conv /\ One(c)
  BY <1>1, <1>2 DEF Start
<1>4. CASE pc = "fault"
  BY <1>1, <1>2, <1>3, <1>4 DEF OneMessageInBounds
<1>5. CASE Line \/ Finish
  <2>1. pc = "scan"
    BY <1>5, Zenon DEF Line, Finish
  <2>2. recvbuf # << >> /\ recvbuf[1] = "M"
    BY <1>1, <2>1 DEF PieceInv
  <2>3. FromMessage(c) /\ at <= Start(c) + Len(Text(conv[c]))
    BY <1>1, <1>3, <2>2, OneFromMessage
  <2>4. Bytes(recvbuf) >= BufMax - 1
    BY <1>1, <1>5, <2>3, BoundsLine, BoundsFinish
  <2>5. QED
    BY <1>2, <2>4
<1>6. QED
  BY <1>2, <1>4, <1>5

\* Where the loop is, whatever is read.
LEMMA SpecScanInv == Spec => [](PieceInv /\ ScanInv)
<1>1. Init => ScanInv
  BY DEF Init, ScanInv
<1>2. QED
  BY <1>1, PieceInvInit, PieceInvStep, ScanInvStep, PTL DEF Spec

\* For any conversations whose messages fit into the buffers part by part:
\* get_input_http_info takes a piece of one message apart without touching anything
\* beyond its arrays, unless the piece fills recvbuf to its last two bytes.
THEOREM OneMessageInBoundsAlways == Spec => []OneMessageInBounds
<1>1. Init => OneMessageInBounds
  BY DEF Init, OneMessageInBounds
<1>2. QED
  BY <1>1, SpecScanInv, BoundsStep, PTL DEF Spec

-----------------------------------------------------------------------------
(* What is accepted.                                                       *)

\* The beginning of an object is not an object.
LEMMA JsonPrefix ==
  ASSUME NEW u \in Texts, NEW v \in Texts, IsJson(u), IsJson(v),
         \A o \in 1..Len(u) : o <= Len(v) => u[o] = v[o]
  PROVE  u = v
<1>1. ASSUME NEW a \in Texts, NEW b \in Texts, IsJson(a), IsJson(b), Len(a) < Len(b),
             \A o \in 1..Len(a) : a[o] = b[o]
      PROVE  FALSE
  <2>0. a # << >> /\ Depth(a) = 0 /\ \A k \in 1..(Len(b) - 1) : Depth(SubSeq(b, 1, k)) > 0
    BY <1>1, Zenon DEF IsJson
  <2>1. Len(a) \in Nat /\ Len(b) \in Nat
    BY <1>1 DEF Texts
  <2>2. Len(a) \in 1..(Len(b) - 1)
    <3>1. Len(a) # 0
      BY <1>1, <2>0 DEF Texts
    <3>2. QED
      BY <1>1, <2>1, <3>1
  <2>3. Depth(SubSeq(b, 1, Len(a))) > 0
    BY <2>0, <2>2
  <2>4. SubSeq(b, 1, Len(a)) = a
    <3> DEFINE q == SubSeq(b, 1, Len(a))
    <3>1. b \in Seq(Symbols) /\ 1 \in 1..(Len(b) + 1) /\ Len(a) \in Int /\ 1 - 1 <= Len(a) /\ Len(a) <= Len(b)
      BY <1>1, <2>1 DEF Texts
    <3>2. /\ q \in Seq(Symbols) /\ Len(q) = Len(a) - 1 + 1
          /\ \A o \in 1..(Len(a) - 1 + 1) : q[o] = b[1 + o - 1]
      BY <3>1, PartOf, Zenon
    <3> HIDE DEF q
    <3>3. Len(q) = Len(a) /\ a \in Seq(Symbols)
      BY <2>1, <3>2 DEF Texts
    <3>4. ASSUME NEW o \in 1..Len(a)
          PROVE  q[o] = a[o]
      <4>1. o \in 1..(Len(a) - 1 + 1) /\ 1 + o - 1 = o
        BY <2>1
      <4>2. QED
        BY <1>1, <3>2, <4>1
    <3>5. q = a
      BY <3>2, <3>3, <3>4
    <3>6. QED
      BY <3>5 DEF q
  <2>5. Depth(SubSeq(b, 1, Len(a))) = 0
    BY <2>0, <2>4, Zenon
  <2>6. QED
    BY <2>3, <2>5
<1>2. Len(u) \in Nat /\ Len(v) \in Nat
  BY DEF Texts
<1>3. ~(Len(u) < Len(v))
  <2>1. ASSUME Len(u) < Len(v) PROVE FALSE
    <3>1. \A o \in 1..Len(u) : u[o] = v[o]
      BY <1>2, <2>1
    <3>2. QED
      BY <1>1, <2>1, <3>1
  <2>2. QED
    BY <2>1
<1>4. ~(Len(v) < Len(u))
  <2>1. ASSUME Len(v) < Len(u) PROVE FALSE
    <3>1. \A o \in 1..Len(v) : v[o] = u[o]
      BY <1>2, <2>1
    <3>2. QED
      BY <1>1, <2>1, <3>1
  <2>2. QED
    BY <2>1
<1>5. Len(u) = Len(v)
  BY <1>2, <1>3, <1>4
<1>6. u \in Seq(Symbols) /\ v \in Seq(Symbols) /\ \A o \in 1..Len(u) : u[o] = v[o]
  BY <1>2, <1>5 DEF Texts
<1>7. QED
  BY <1>5, <1>6

\* In a message whose body has none, every '\r' ends a line of the header.
LEMMA ReturnEndsLine ==
  ASSUME NEW m \in Messages, WellFormed(m), ~Has(m.body, "CR"),
         NEW o \in 1..Len(Text(m)), Text(m)[o] = "CR"
  PROVE  \E i \in 1..Len(Lines(m)) : o + 1 = Begin(m, i + 1)
<1> DEFINE N == Len(Lines(m))
           h == Len(Header(m))
           b == m.body
           t == Text(m)
           e == Ended(m)
<1>1. /\ N \in Nat /\ h \in Nat /\ Len(t) = h + Len(b) /\ Len(b) \in Nat
      /\ \A x \in 1..Len(b) : t[h + x] = b[x]
      /\ Begin(m, N + 1) = h
  BY Layout
<1>2. b \in Texts /\ e \in Seq(Texts) /\ Len(e) = N /\ h = Len(FlattenSeq(e))
  BY MessageTypes
<1>3. o <= h
  <2>1. ASSUME o > h PROVE FALSE
    <3>1. o - h \in 1..Len(b) /\ h + (o - h) = o
      BY <1>1, <2>1
    <3>2. b[o - h] = "CR" /\ o - h \in DOMAIN b
      BY <1>1, <1>2, <3>1 DEF Texts
    <3>3. QED
      BY <3>2 DEF Has
  <2>2. QED
    BY <1>1, <2>1
<1>4. PICK i \in 1..N : Off(e, i - 1) < o /\ o <= Off(e, i)
  <2>1. o \in 1..Len(FlattenSeq(e)) /\ e \in Seq(Seq(Symbols))
    BY <1>1, <1>2, <1>3 DEF Texts
  <2> HIDE DEF e
  <2>2. \E i \in 1..Len(e) : Off(e, i - 1) < o /\ o <= Off(e, i)
    BY <2>1, InSomePart, Zenon
  <2>3. QED
    BY <1>2, <2>2
<1> DEFINE l == Lines(m)[i]
           a == Begin(m, i)
<1>5. a = Off(e, i - 1) /\ Begin(m, i + 1) = Off(e, i)
  <2>1. (i + 1) - 1 = i
    BY <1>1
  <2>2. QED
    BY <2>1 DEF Begin
<1>6. /\ a \in Nat /\ Len(l) \in Nat /\ Begin(m, i + 1) = a + Len(l) + 2
      /\ \A x \in 1..Len(l) : t[a + x] = l[x] /\ l[x] # "CR"
  BY LineAt
<1>7. t[a + Len(l) + 2] = "LF"
  BY Layout
<1> HIDE DEF t, l, a, e, h, b
<1>8. o > a /\ o <= a + Len(l) + 2 /\ o \in Int
  BY <1>4, <1>5, <1>6
<1>9. ~(o - a \in 1..Len(l))
  <2>1. ASSUME o - a \in 1..Len(l) PROVE FALSE
    <3>1. a + (o - a) = o
      BY <1>6, <1>8
    <3>2. t[o] = l[o - a] /\ l[o - a] # "CR"
      BY <1>6, <2>1, <3>1
    <3>3. QED
      BY <3>2 DEF t
  <2>2. QED
    BY <2>1
<1>10. o # a + Len(l) + 2
  BY <1>7 DEF t
<1>11. o = a + Len(l) + 1
  BY <1>6, <1>8, <1>9, <1>10
<1>12. o + 1 = Begin(m, i + 1)
  BY <1>6, <1>11
<1>13. QED
  BY <1>12

\* No body has a '\r' or begins like an object without being one.
AllPlain == \A d \in DOMAIN conv : PlainBody(conv[d].body)

\* The begin of an object.
Brace == "{"

\* After a '\r' and one more symbol something begins like an object.
OpensAfter(x) == Stream[x] = "CR" /\ x + 2 <= Len(Stream) /\ Stream[x + 2] = Brace

\* After the last '\r' of a line of the header there is another line, which is no
\* object, or the body, or the next message.
LEMMA AfterReturnObject ==
  ASSUME conv \in Conversations, AllPlain, NEW x \in 1..Len(Stream), OpensAfter(x)
  PROVE  \E c \in 1..Len(conv) : /\ x + 1 = Start(c) + Len(Header(conv[c]))
                                 /\ conv[c].body # << >> /\ IsJson(conv[c].body)
<1>1. /\ Len(Stream) \in Nat /\ conv \in Seq(Messages) /\ Len(conv) \in Nat /\ DOMAIN conv = 1..Len(conv)
      /\ Stream[x] = "CR" /\ x + 2 <= Len(Stream) /\ Stream[x + 2] = Brace
      /\ x \in 1..Len(Stream)
  BY SentTypes DEF OpensAfter
<1>2. PICK c \in 1..Len(conv) : Start(c) < x /\ x <= Start(c) + Len(Text(conv[c]))
  BY InSomeMessage
<1> DEFINE m == conv[c]
           s == Start(c)
           t == Text(m)
           h == Len(Header(m))
           b == m.body
           N == Len(Lines(m))
<1>3. /\ m \in Messages /\ WellFormed(m) /\ Len(t) \in Nat /\ s \in Nat
      /\ s + Len(t) <= Len(Stream)
      /\ \A o \in 1..Len(t) : Stream[s + o] = t[o]
      /\ \A d \in 1..Len(conv) : c < d => s + Len(t) <= Start(d)
  BY StartFacts
<1>4. PlainBody(b)
  <2>1. c \in DOMAIN conv
    BY <1>1, <1>2
  <2>2. QED
    BY <2>1, Zenon DEF AllPlain
<1>5. /\ N \in Nat /\ h \in Nat /\ Len(t) = h + Len(b) /\ Len(b) \in Nat /\ b \in Texts
      /\ \A o \in 1..Len(b) : t[h + o] = b[o]
      /\ Begin(m, N + 1) = h
  BY <1>3, Layout, MessageTypes
<1>6. x - s \in 1..Len(t) /\ s + (x - s) = x /\ x \in Nat
  <2>1. s < x /\ x <= s + Len(t)
    BY <1>2
  <2> HIDE DEF s, t
  <2>2. QED
    BY <1>1, <1>3, <2>1
<1>7. PICK i \in 1..N : (x - s) + 1 = Begin(m, i + 1)
  <2>1. t[x - s] = "CR"
    BY <1>1, <1>3, <1>6
  <2>2. ~Has(b, "CR")
    BY <1>4, Zenon DEF PlainBody
  <2>3. QED
    BY <1>3, <1>6, <2>1, <2>2, ReturnEndsLine
<1>8. i = N
  <2>1. SUFFICES ASSUME i # N PROVE FALSE
    OBVIOUS
  <2>2. i + 1 \in 1..N /\ i + 1 >= 2
    BY <1>5, <2>1
  <2> DEFINE l == Lines(m)[i + 1]
             a == Begin(m, i + 1)
  <2>3. /\ a \in Nat /\ Len(l) \in Nat /\ Begin(m, i + 1 + 1) = a + Len(l) + 2
        /\ \A o \in 1..Len(l) : t[a + o] = l[o]
        /\ t[a + Len(l) + 1] = "CR" /\ Begin(m, i + 1 + 1) <= Len(t)
    BY <1>3, <2>2, LineAt
  <2>3a. (x - s) + 1 = a
    BY <1>7
  <2>4. x + 2 = s + (a + 1) /\ a + 1 \in 1..Len(t)
    <3> HIDE DEF t, l, s, a
    <3>1. QED
      BY <1>3, <1>6, <2>3, <2>3a
  <2>5. t[a + 1] = Brace
    <3> HIDE DEF t, l, s, a
    <3>1. Stream[x + 2] = Stream[s + (a + 1)]
      BY <2>4
    <3>2. QED
      BY <1>1, <1>3, <2>4, <3>1
  <2>6. Len(l) # 0
    <3> HIDE DEF t, l, s, a
    <3>1. ASSUME Len(l) = 0 PROVE FALSE
      <4>1. a + Len(l) + 1 = a + 1
        BY <2>3, <3>1
      <4>2. Brace = "CR"
        BY <2>3, <2>5, <4>1
      <4>3. QED
        BY <4>2 DEF Brace
    <3>2. QED
      BY <3>1
  <2>7. l[1] = Brace
    <3>1. 1 \in 1..Len(l)
      BY <2>3, <2>6
    <3>2. QED
      BY <2>3, <2>5, <3>1
  <2>8. /\ Len(m.head) \in Nat /\ N = Len(m.head) + 2 /\ Lines(m)[Len(m.head) + 2] = << >>
        /\ \A k \in 1..Len(m.head) : Lines(m)[k + 1] = m.head[k]
        /\ DOMAIN m.head = 1..Len(m.head)
    <3>1. /\ m.head \in Seq(Texts) /\ Lines(m) \in Seq(Texts)
          /\ Len(Lines(m)) = Len(m.head) + 2 /\ Lines(m)[Len(m.head) + 2] = << >>
          /\ \A k \in 1..Len(m.head) : Lines(m)[k + 1] = m.head[k]
      BY <1>3, MessageTypes, Zenon
    <3>2. Len(m.head) \in Nat /\ DOMAIN m.head = 1..Len(m.head)
      BY <3>1
    <3>3. QED
      BY <3>1, <3>2
  <2>9. CASE i = Len(m.head) + 1
    <3>1. l = << >>
      BY <2>8, <2>9
    <3>2. QED
      BY <2>6, <3>1
  <2>10. CASE i # Len(m.head) + 1
    <3>0. i \in Nat /\ i + 1 <= N /\ i >= 1
      <4> HIDE DEF N
      <4>1. QED
        BY <1>5, <1>7, <2>2
    <3>1. i \in 1..Len(m.head)
      BY <2>8, <2>10, <3>0
    <3>2. l = m.head[i] /\ i \in DOMAIN m.head
      BY <2>8, <3>1
    <3>3. m.head[i][1] # Brace
      BY <1>3, <3>2, Zenon DEF WellFormed, Brace
    <3>4. QED
      BY <2>7, <3>2, <3>3, Zenon
  <2>11. QED
    BY <2>9, <2>10
<1>9. x + 1 = s + h
  <2>1. (x - s) + 1 = h
    BY <1>5, <1>7, <1>8
  <2> HIDE DEF s, h
  <2>2. QED
    BY <1>3, <1>5, <1>6, <2>1
<1>10. Len(b) # 0
  <2>1. SUFFICES ASSUME Len(b) = 0 PROVE FALSE
    OBVIOUS
  <2>2. x + 2 = s + Len(t) + 1 /\ x + 2 \in 1..Len(Stream)
    <3> HIDE DEF m, s, t, h, b, N
    <3>1. QED
      BY <1>1, <1>3, <1>5, <1>6, <1>9, <2>1
  <2>3. PICK d \in 1..Len(conv) : Start(d) < x + 2 /\ x + 2 <= Start(d) + Len(Text(conv[d]))
    BY <2>2, InSomeMessage
  <2>4. /\ Start(d) \in Nat /\ Len(Text(conv[d])) \in Nat /\ conv[d] \in Messages /\ WellFormed(conv[d])
        /\ \A o \in 1..Len(Text(conv[d])) : Stream[Start(d) + o] = Text(conv[d])[o]
        /\ d < c => Start(d) + Len(Text(conv[d])) <= s
    BY <1>2, <2>3, StartFacts
  <2> DEFINE sd == Start(d)
             td == Text(conv[d])
  <2>5. d # c
    <3>1. ASSUME d = c PROVE FALSE
      <4>1. x + 2 <= s + Len(t)
        BY <2>3, <3>1
      <4> HIDE DEF m, s, t, h, b, N
      <4>2. QED
        BY <1>3, <2>2, <4>1
    <3>2. QED
      BY <3>1
  <2>6. sd < x + 2 /\ x + 2 <= sd + Len(td)
    BY <2>3
  <2>7. c \in Int /\ d \in Int
    BY <1>1, <1>2, <2>3
  <2> HIDE DEF m, s, t, h, b, N
  <2>8. ~(d < c)
    <3>1. ASSUME d < c PROVE FALSE
      <4>1. sd + Len(td) <= s
        BY <2>4, <3>1 DEF s
      <4>2. sd \in Nat /\ Len(td) \in Nat
        BY <2>4
      <4> HIDE DEF sd, td
      <4>3. QED
        BY <1>3, <1>6, <2>2, <2>6, <4>1, <4>2
    <3>2. QED
      BY <3>1
  <2>9. s + Len(t) <= sd
    BY <1>3, <2>3, <2>5, <2>7, <2>8
  <2>10. sd \in Nat /\ Len(td) \in Nat /\ \A o \in 1..Len(td) : Stream[sd + o] = td[o]
    BY <2>4
  <2>11. td[1] = "M"
    BY <2>4, MessageStarts
  <2> HIDE DEF sd, td
  <2>12. x + 2 = sd + 1 /\ 1 \in 1..Len(td)
    <3>1. s \in Nat /\ Len(t) \in Nat /\ sd \in Nat /\ Len(td) \in Nat /\ x \in Nat
      BY <1>3, <1>6, <2>10
    <3>2. x + 2 = s + Len(t) + 1
      BY <2>2
    <3>3. sd = s + Len(t)
      <4>1. \A p, q, r \in Int : p < q /\ q = r + 1 /\ r <= p => p = r
        OBVIOUS
      <4>2. s + Len(t) \in Int /\ x + 2 \in Int /\ sd \in Int
        BY <3>1
      <4>3. sd < x + 2 /\ x + 2 = (s + Len(t)) + 1 /\ s + Len(t) <= sd
        BY <2>6, <2>9, <3>2
      <4>4. QED
        BY <4>1, <4>2, <4>3
    <3>4. 1 <= Len(td)
      BY <2>6, <3>1, <3>2, <3>3
    <3>5. QED
      BY <3>1, <3>2, <3>3, <3>4
  <2>13. Stream[x + 2] = "M"
    BY <2>10, <2>11, <2>12
  <2>14. Brace = "M"
    BY <1>1, <2>13
  <2>15. QED
    BY <2>14 DEF Brace
<1>11. b[1] = Brace /\ b # << >>
  <2>1. x + 2 = s + (h + 1) /\ h + 1 \in 1..Len(t) /\ 1 \in 1..Len(b)
    <3> HIDE DEF s, h, t, b
    <3>1. QED
      BY <1>1, <1>3, <1>5, <1>6, <1>9, <1>10
  <2>2. b # << >>
    BY <1>10
  <2> HIDE DEF s, h, t, b
  <2>3. Stream[x + 2] = t[h + 1] /\ t[h + 1] = b[1]
    BY <1>3, <1>5, <2>1
  <2>4. QED
    BY <1>1, <2>2, <2>3
<1>12. IsJson(b)
  BY <1>4, <1>11, Zenon DEF PlainBody, Brace
<1>13. QED
  <2>1. c \in 1..Len(conv) /\ x + 1 = Start(c) + Len(Header(conv[c])) /\ conv[c].body # << >> /\ IsJson(conv[c].body)
    BY <1>2, <1>9, <1>11, <1>12
  <2>2. QED
    BY <2>1

\* What cJSON_Parse takes of the content.
Taken == SubSeq(Content, 1, Min(JsonLengths(Content)))
Place == at - Len(recvbuf) + j

\* cJSON_Parse takes an object from the begin of the content.
LEMMA TakenFacts ==
  ASSUME PieceInv, JsonLengths(Content) # {}
  PROVE  /\ Taken \in Texts /\ Len(Taken) \in 1..Len(Content) /\ IsJson(Taken) /\ Taken # << >>
         /\ \A o \in 1..Len(Taken) : Taken[o] = recvbuf[j + o]
         /\ j < Len(recvbuf) /\ recvbuf[j + 1] = Brace
<1> DEFINE C == Content
           k == Min(JsonLengths(C))
           q == SubSeq(C, 1, k)
<1>1. /\ C \in Texts /\ Len(recvbuf) \in Nat /\ j \in Nat
      /\ Len(C) = IF j < Len(recvbuf) THEN Len(recvbuf) - j ELSE 0
      /\ \A o \in 1..Len(C) : C[o] = recvbuf[j + o]
  BY ContentFacts
<1>2. Len(C) \in Nat /\ C \in Seq(Symbols)
  BY <1>1 DEF Texts
<1>3. k \in 1..Len(C) /\ IsJson(q)
  <2> DEFINE S == JsonLengths(C)
  <2>1. S \in SUBSET Nat
    BY <1>2 DEF JsonLengths
  <2> HIDE DEF S
  <2>2. S # {}
    BY DEF S
  <2>3. Min(S) \in S
    BY <2>1, <2>2, LeastNumber
  <2>4. k \in JsonLengths(C)
    BY <2>3 DEF S
  <2> HIDE DEF C, k
  <2>5. QED
    BY <2>4, Zenon DEF JsonLengths
<1> HIDE DEF C, k
<1>4. /\ q \in Seq(Symbols) /\ Len(q) = k - 1 + 1
      /\ \A o \in 1..(k - 1 + 1) : q[o] = C[1 + o - 1]
  <2>1. C \in Seq(Symbols) /\ 1 \in 1..(Len(C) + 1) /\ k \in Int /\ 1 - 1 <= k /\ k <= Len(C)
    BY <1>2, <1>3
  <2>2. QED
    BY <2>1, PartOf, Zenon
<1>5. q # << >> /\ q[1] = Brace
  BY <1>3, Zenon DEF IsJson, Brace
<1> HIDE DEF q
<1>6. Len(q) = k /\ k \in Nat
  BY <1>2, <1>3, <1>4
<1>7. ASSUME NEW o \in 1..k
      PROVE  q[o] = recvbuf[j + o]
  <2>1. o \in 1..(k - 1 + 1) /\ 1 + o - 1 = o /\ o \in 1..Len(C)
    BY <1>2, <1>3, <1>6
  <2>2. q[o] = C[o]
    BY <1>4, <2>1
  <2>3. QED
    BY <1>1, <2>1, <2>2
<1>8. 1 \in 1..k /\ j < Len(recvbuf)
  BY <1>1, <1>2, <1>3
<1>9. q[1] = recvbuf[j + 1]
  BY <1>7, <1>8
<1>10. Taken = q
  BY DEF Taken, q, k, C
<1>11. q \in Texts /\ IsJson(q) /\ Len(q) \in 1..Len(C)
  BY <1>3, <1>4, <1>6 DEF Texts
<1>12. QED
  BY <1>5, <1>6, <1>7, <1>8, <1>9, <1>10, <1>11 DEF C

\* Nothing is accepted but an object after the '\r' of the last line, which is a
\* body: the text of a message begins with no object.
LEMMA TakenIsBody ==
  ASSUME PieceInv, AllPlain, JsonLengths(Content) # {}, pc = "scan",
         j # 0 => j - 1 \in 1..Len(recvbuf) /\ recvbuf[j - 1] = "CR"
  PROVE  \E c \in DOMAIN conv : [place |-> Place, text |-> Taken] = Whole(c)
<1> DEFINE o == at - Len(recvbuf)
           x == o + (j - 1)
<1>1. /\ Taken \in Texts /\ IsJson(Taken)
      /\ \A i \in 1..Len(Taken) : Taken[i] = recvbuf[j + i]
      /\ j < Len(recvbuf) /\ recvbuf[j + 1] = Brace /\ Len(Taken) \in 1..Len(Content)
  BY TakenFacts
<1>2. /\ conv \in Conversations /\ recvbuf \in Texts /\ Len(recvbuf) <= at
      /\ \A i \in 1..Len(recvbuf) : recvbuf[i] = Stream[at - Len(recvbuf) + i]
      /\ recvbuf[1] = "M"
  BY DEF PieceInv
<1>3. /\ Len(recvbuf) \in Nat /\ j \in Nat /\ at \in Nat /\ at <= Len(Stream) /\ Len(Stream) \in Nat
      /\ Len(Content) = Len(recvbuf) - j
  <2>1. at \in 0..Len(Stream) /\ Len(Stream) \in Nat
    BY <1>2, SentTypes DEF PieceInv
  <2>2. Len(recvbuf) \in Nat /\ j \in Nat /\ Len(Content) = Len(recvbuf) - j
    BY <1>1, ContentFacts
  <2>3. QED
    BY <2>1, <2>2
<1>4. j # 0
  <2>1. ASSUME j = 0 PROVE FALSE
    <3>1. recvbuf[1] = Brace
      BY <1>1, <2>1
    <3>2. Brace = "M"
      BY <1>2, <3>1
    <3>3. QED
      BY <3>2 DEF Brace
  <2>2. QED
    BY <2>1
<1>5. j - 1 \in 1..Len(recvbuf) /\ recvbuf[j - 1] = "CR"
  BY <1>4
<1>6. o \in Nat /\ o + Len(recvbuf) = at /\ x = o + (j - 1) /\ x + 2 = o + (j + 1) /\ x + 1 = o + j
  BY <1>2, <1>3
<1> HIDE DEF x
<1>7. Stream[x] = "CR"
  BY <1>2, <1>5, <1>6
<1>8. Stream[x + 2] = Brace
  <2>1. j + 1 \in 1..Len(recvbuf)
    BY <1>1, <1>3
  <2>2. QED
    BY <1>1, <1>2, <1>6, <2>1
<1> HIDE DEF o
<1>9. x \in 1..Len(Stream) /\ x + 2 <= Len(Stream)
  <2>1. j + 1 <= Len(recvbuf) /\ j - 1 >= 1
    BY <1>1, <1>3, <1>5
  <2>2. QED
    BY <1>3, <1>6, <2>1
<1>10. OpensAfter(x)
  BY <1>7, <1>8, <1>9 DEF OpensAfter
<1>11. PICK c \in 1..Len(conv) : /\ x + 1 = Start(c) + Len(Header(conv[c]))
                                 /\ conv[c].body # << >> /\ IsJson(conv[c].body)
  BY <1>2, <1>9, <1>10, AfterReturnObject
<1> DEFINE m == conv[c]
           s == Start(c)
           t == Text(m)
           h == Len(Header(m))
           b == m.body
<1>12. /\ m \in Messages /\ WellFormed(m) /\ Len(t) \in Nat /\ s \in Nat
       /\ \A i \in 1..Len(t) : Stream[s + i] = t[i]
  BY <1>2, <1>11, StartFacts
<1>13. /\ h \in Nat /\ Len(t) = h + Len(b) /\ Len(b) \in Nat /\ b \in Texts
       /\ \A i \in 1..Len(b) : t[h + i] = b[i]
  BY <1>12, Layout, MessageTypes
<1>14. o + j = s + h /\ IsJson(b)
  BY <1>6, <1>11
<1> HIDE DEF m, s, t, h, b
<1>15. ASSUME NEW i \in 1..Len(Taken), i <= Len(b)
       PROVE  Taken[i] = b[i]
  <2>1. i \in Nat /\ i \in 1..Len(b) /\ j + i \in 1..Len(recvbuf) /\ h + i \in 1..Len(t)
    <3>1. Len(Taken) <= Len(recvbuf) - j /\ Len(Taken) \in Nat
      BY <1>1, <1>3
    <3>2. i \in Nat /\ i >= 1 /\ i <= Len(recvbuf) - j /\ i <= Len(b)
      <4>1. i \in Nat /\ i >= 1 /\ i <= Len(Taken) /\ i <= Len(b)
        BY <1>15, <3>1
      <4>2. QED
        BY <1>3, <3>1, <4>1
    <3>3. Len(t) = h + Len(b) /\ h \in Nat /\ Len(b) \in Nat /\ Len(recvbuf) \in Nat /\ j \in Nat
      BY <1>3, <1>13
    <3>4. i \in 1..Len(b) /\ j + i \in 1..Len(recvbuf)
      BY <3>2, <3>3
    <3>5. h + i \in 1..Len(t)
      BY <3>2, <3>3
    <3>6. QED
      BY <3>2, <3>4, <3>5
  <2>2. o + (j + i) = s + (h + i)
    BY <1>3, <1>6, <1>12, <1>13, <1>14, <2>1
  <2>3. Taken[i] = recvbuf[j + i]
    BY <1>1
  <2>4. recvbuf[j + i] = Stream[o + (j + i)]
    BY <1>2, <2>1 DEF o
  <2>5. Stream[s + (h + i)] = t[h + i] /\ t[h + i] = b[i]
    BY <1>12, <1>13, <2>1
  <2>6. QED
    BY <2>2, <2>3, <2>4, <2>5
<1>16. Taken = b
  BY <1>1, <1>13, <1>14, <1>15, JsonPrefix
<1>17. Place = s + h
  BY <1>14 DEF Place, o
<1>18. [place |-> Place, text |-> Taken] = Whole(c)
  BY <1>16, <1>17 DEF Whole, s, h, b, m
<1>19. c \in DOMAIN conv
  BY <1>2, <1>11, SentTypes
<1>20. QED
  BY <1>18, <1>19

\* Accepted is what has been a body, each later than those before; and the loop
\* stands at the begin of what was read or two places after a '\r'.
AcceptInv ==
  /\ pc = "scan" /\ j # 0 => j - 1 \in 1..Len(recvbuf) /\ recvbuf[j - 1] = "CR"
  /\ \A a \in 1..Len(accepted) :
       /\ accepted[a].place < at
       /\ pc = "scan" => accepted[a].place < at - Len(recvbuf)
  /\ \A a, b \in 1..Len(accepted) : a < b => accepted[a].place < accepted[b].place
  /\ AllPlain => \A a \in 1..Len(accepted) : \E c \in DOMAIN conv : accepted[a] = Whole(c)

\* Whether all bodies are plain, and where they stand, depends on the conversation only.
LEMMA WholeKept ==
  ASSUME conv' = conv
  PROVE  (AllPlain' <=> AllPlain) /\ \A c : Whole(c)' = Whole(c)
  BY DEF AllPlain, Whole, Start

\* A read begins where the last one ended.
LEMMA AcceptRead == PieceInv /\ AcceptInv /\ Read => AcceptInv'
<1>1. SUFFICES ASSUME PieceInv, AcceptInv, Read PROVE AcceptInv'
  OBVIOUS
<1>2. PICK to \in (at + 1)..Len(Stream) : at' = to
  BY <1>1, Zenon DEF Read
<1>3. j' = 0 /\ conv' = conv /\ accepted' = accepted
  BY <1>1 DEF Read
<1>4. PieceInv'
  BY <1>1, PieceInvRead
<1>5. recvbuf' = SubSeq(Stream, at + 1, at')
  BY <1>1, <1>2, Zenon DEF Read, Received
<1>6. at \in Nat /\ at' \in Nat /\ at < at' /\ at' <= Len(Stream) /\ Len(recvbuf') = at' - at
  <2>1. at \in 0..Len(Stream) /\ Len(Stream) \in Nat /\ Stream \in Seq(Symbols)
    BY <1>1, SentTypes DEF PieceInv, Texts
  <2>2. at + 1 \in 1..(Len(Stream) + 1) /\ at' \in Int /\ (at + 1) - 1 <= at' /\ at' <= Len(Stream)
    BY <1>2, <2>1
  <2> DEFINE s == Stream
             p == SubSeq(s, at + 1, at')
  <2>3. s \in Seq(Symbols) /\ at + 1 \in 1..(Len(s) + 1) /\ at' <= Len(s)
    BY <2>1, <2>2
  <2> HIDE DEF s
  <2>4. Len(p) = at' - (at + 1) + 1
    BY <2>2, <2>3, PartOf, Zenon
  <2>5. recvbuf' = p
    BY <1>5 DEF s
  <2> HIDE DEF p
  <2>6. at \in Nat /\ at' \in Nat /\ at < at'
    BY <1>2, <2>1
  <2>7. QED
    <3>1. at' - (at + 1) + 1 = at' - at
      BY <2>6
    <3>2. Len(recvbuf') = at' - at
      BY <2>4, <2>5, <3>1
    <3>3. QED
      BY <2>2, <2>6, <3>2
<1>7. ASSUME NEW a \in 1..Len(accepted)
      PROVE  accepted[a].place < at' /\ accepted[a].place < at' - Len(recvbuf')
  <2>0. accepted[a] \in [place : Int, text : Texts]
    <3> DEFINE R == [place : Int, text : Texts]
    <3>1. accepted \in Seq(R)
      BY <1>1 DEF PieceInv
    <3> HIDE DEF R
    <3>2. accepted[a] \in R
      BY <3>1
    <3>3. QED
      BY <3>2 DEF R
  <2>1. accepted[a].place < at /\ accepted[a].place \in Int
    BY <1>1, <2>0 DEF AcceptInv
  <2> DEFINE y == accepted[a].place
  <2>2. y < at /\ y \in Int
    BY <2>1
  <2> HIDE DEF y
  <2> DEFINE p == at'
             l == Len(recvbuf')
  <2>2a. at \in Int /\ p \in Int /\ at < p /\ l = p - at
    BY <1>6
  <2> HIDE DEF p, l
  <2>2b. y < p /\ y < p - l
    BY <2>2, <2>2a
  <2>3. y < at' /\ y < at' - Len(recvbuf')
    BY <2>2b DEF p, l
  <2>4. QED
    BY <2>3 DEF y
<1>8. QED
  BY <1>1, <1>3, <1>7, WholeKept DEF AcceptInv

\* A line ends with a '\r', and nothing is accepted.
LEMMA AcceptLine == PieceInv /\ AcceptInv /\ Line => AcceptInv'
<1>1. SUFFICES ASSUME PieceInv, AcceptInv, Line PROVE AcceptInv'
  OBVIOUS
<1>2. /\ pc = "scan" /\ Returns # {} /\ j' = Min(Returns) + 1
      /\ conv' = conv /\ at' = at /\ recvbuf' = recvbuf /\ accepted' = accepted
  BY <1>1, Zenon DEF Line, AfterReturn
<1>3. PICK k \in 1..Len(recvbuf) : k = Min(Returns) /\ recvbuf[k] = "CR"
  BY <1>1, <1>2, NextReturn
<1>4. j' - 1 = k
  BY <1>2, <1>3
<1>5. QED
  BY <1>1, <1>2, <1>3, <1>4, WholeKept DEF AcceptInv

\* What is accepted is a body, which ends in the piece that was read.
LEMMA AcceptFinish == PieceInv /\ AcceptInv /\ Finish => AcceptInv'
<1>1. SUFFICES ASSUME PieceInv, AcceptInv, Finish PROVE AcceptInv'
  OBVIOUS
<1> DEFINE new == [place |-> Place, text |-> Taken]
<1>2. /\ pc = "scan" /\ pc' # "scan" /\ conv' = conv /\ at' = at
      /\ \/ accepted' = accepted
         \/ JsonLengths(Content) # {} /\ accepted' = Append(accepted, new)
  BY <1>1, Zenon DEF Finish, Content, Taken, Place
<1>3. CASE accepted' = accepted
  BY <1>1, <1>2, <1>3, WholeKept DEF AcceptInv
<1>4. CASE JsonLengths(Content) # {} /\ accepted' = Append(accepted, new)
  <2> DEFINE R == [place : Int, text : Texts]
             n == Len(accepted)
  <2>1. j < Len(recvbuf) /\ Taken \in Texts
    BY <1>1, <1>4, TakenFacts
  <2>2. Place \in Int /\ at - Len(recvbuf) <= Place /\ Place < at
    <3>1. j \in Nat /\ Len(recvbuf) \in Nat /\ at \in Nat
      BY <1>1, ContentFacts, SentTypes DEF PieceInv
    <3>2. QED
      BY <2>1, <3>1 DEF Place
  <2>3. new \in R /\ new.place = Place
    BY <2>1, <2>2
  <2>4. accepted \in Seq(R)
    BY <1>1 DEF PieceInv
  <2> HIDE DEF R
  <2>5. /\ n \in Nat /\ Len(accepted') = n + 1 /\ accepted'[n + 1] = new
        /\ \A a \in 1..n : accepted'[a] = accepted[a]
    <3> HIDE DEF new
    <3>1. QED
      BY <1>4, <2>3, <2>4
  <2>6. ASSUME NEW a \in 1..n
        PROVE  accepted[a].place < Place /\ accepted[a].place < at
    <3>0. accepted[a] \in R
      BY <2>4
    <3>0a. accepted[a].place \in Int
      BY <3>0 DEF R
    <3>1. accepted[a].place < at - Len(recvbuf) /\ accepted[a].place \in Int
      BY <1>1, <1>2, <3>0a DEF AcceptInv
    <3> DEFINE y == accepted[a].place
    <3>2. y < at - Len(recvbuf) /\ y \in Int
      BY <3>1
    <3>3. at \in Int /\ Len(recvbuf) \in Int
      BY <1>1, ContentFacts, SentTypes DEF PieceInv
    <3> HIDE DEF y
    <3>4. y < Place /\ y < at
      BY <2>2, <3>2, <3>3
    <3>5. QED
      BY <3>4 DEF y
  <2>7. ASSUME NEW a \in 1..(n + 1)
        PROVE  a \in 1..n \/ a = n + 1
    BY <2>5
  <2>8. ASSUME NEW a \in 1..(n + 1)
        PROVE  accepted'[a].place < at
    BY <2>2, <2>3, <2>5, <2>6, <2>7
  <2>9. ASSUME NEW a \in 1..(n + 1), NEW b \in 1..(n + 1), a < b
        PROVE  accepted'[a].place < accepted'[b].place
    <3>1. a \in 1..n
      BY <2>5, <2>7, <2>9
    <3>2. CASE b \in 1..n
      BY <1>1, <2>5, <2>9, <3>1, <3>2 DEF AcceptInv
    <3>3. CASE b = n + 1
      BY <2>3, <2>5, <2>6, <3>1, <3>3
    <3>4. QED
      BY <2>7, <3>2, <3>3
  <2>10. ASSUME AllPlain, NEW a \in 1..(n + 1)
         PROVE  \E c \in DOMAIN conv : accepted'[a] = Whole(c)
    <3>1. CASE a \in 1..n
      BY <1>1, <2>5, <2>10, <3>1 DEF AcceptInv
    <3>2. CASE a = n + 1
      <4>1. \E c \in DOMAIN conv : new = Whole(c)
        BY <1>1, <1>2, <1>4, <2>10, TakenIsBody DEF AcceptInv
      <4>2. accepted'[a] = new
        BY <2>5, <3>2
      <4> HIDE DEF new
      <4>3. QED
        BY <4>1, <4>2
    <3>3. QED
      BY <2>7, <3>1, <3>2
  <2> HIDE DEF n
  <2>11. QED
    BY <1>2, <2>5, <2>8, <2>9, <2>10, WholeKept DEF AcceptInv
<1>5. QED
  BY <1>2, <1>3, <1>4

\* The invariant holds always.
LEMMA SpecAcceptInv == Spec => [](PieceInv /\ AcceptInv)
<1>1. Init => AcceptInv
  BY DEF Init, AcceptInv
<1>2. PieceInv /\ AcceptInv /\ UNCHANGED vars => AcceptInv'
  BY WholeKept DEF vars, AcceptInv
<1>3. PieceInv /\ AcceptInv /\ [Next]_vars => AcceptInv'
  BY <1>2, AcceptRead, AcceptLine, AcceptFinish DEF Next
<1>4. QED
  BY <1>1, <1>3, PieceInvInit, PieceInvStep, PTL DEF Spec

\* For any conversations and any cuts of the stream, if every body is plain: what
\* cJSON_Parse accepts is always the whole body of one message, never a part of
\* one or a mixture of two, and no message is accepted twice.
THEOREM AcceptedAreBodiesAlways == Spec => []AcceptedAreBodies
<1>1. PieceInv /\ AcceptInv => AcceptedAreBodies
  <2>1. SUFFICES ASSUME PieceInv, AcceptInv, AllPlain
                 PROVE  /\ \A a \in DOMAIN accepted : \E c \in DOMAIN conv : accepted[a] = Whole(c)
                        /\ \A a, b \in DOMAIN accepted : a < b => accepted[a].place < accepted[b].place
    BY Zenon DEF AcceptedAreBodies, AllPlain
  <2>2. DOMAIN accepted = 1..Len(accepted)
    BY <2>1 DEF PieceInv
  <2>3. QED
    BY <2>1, <2>2 DEF AcceptInv
<1>2. QED
  BY <1>1, SpecAcceptInv, PTL

-----------------------------------------------------------------------------
(* Messages that are read one by one.                                      *)

\* No message is too short for buffered_on_read to look at.
LEMMA TextIsHttp ==
  ASSUME NEW m \in Messages, WellFormed(m)
  PROVE  IsHttp(Text(m)) /\ Len(Text(m)) >= 9
<1> DEFINE t == Text(m)
           N == Len(Lines(m))
           e == Ended(m)
<1>1. /\ N \in Nat /\ N >= 2 /\ Len(m.body) \in Nat /\ Len(Header(m)) \in Nat /\ t \in Texts
      /\ Len(t) = Len(Header(m)) + Len(m.body)
      /\ Begin(m, 1) = 0 /\ Begin(m, N + 1) = Len(Header(m))
      /\ \A i \in 1..N : /\ Begin(m, i + 1) = Begin(m, i) + Len(Lines(m)[i]) + 2
                         /\ Len(Lines(m)[i]) \in Nat
      /\ \A i \in 1..(N + 1) : Begin(m, i) \in Nat
  <2>1. /\ N \in Nat /\ N >= 2 /\ Len(m.body) \in Nat /\ Len(Header(m)) \in Nat /\ t \in Texts
        /\ Len(t) = Len(Header(m)) + Len(m.body)
        /\ Begin(m, 1) = 0 /\ Begin(m, N + 1) = Len(Header(m))
    BY Layout, Zenon
  <2>2. \A i \in 1..N : /\ Begin(m, i + 1) = Begin(m, i) + Len(Lines(m)[i]) + 2
                        /\ Len(Lines(m)[i]) \in Nat
    BY Layout
  <2>3. \A i \in 1..(N + 1) : Begin(m, i) \in Nat
    BY Layout, Zenon
  <2>4. QED
    BY <2>1, <2>2, <2>3
<1>2. Lines(m)[1] = FirstLine(m) /\ e \in Seq(Texts) /\ Len(e) = N /\ m.path \in Texts /\ m.protocol \in Texts
  BY MessageTypes
<1>3. Len(FirstLine(m)) >= 5
  <2>1. Len(m.path) \in Nat /\ Len(m.path) # 0 /\ Len(m.protocol) \in Nat /\ Len(m.protocol) # 0
    BY <1>2, WellFormedParts DEF Texts
  <2>2. Len(FirstLine(m)) = Len(m.path) + 3 + Len(m.protocol)
    BY FirstLineParts
  <2>3. \A p, q, r \in Nat : p # 0 /\ q # 0 /\ r = p + 3 + q => r >= 5
    OBVIOUS
  <2>4. Len(FirstLine(m)) \in Nat
    BY MessageTypes DEF Texts
  <2>5. QED
    BY <2>1, <2>2, <2>3, <2>4
<1>4. Begin(m, 2) >= 7
  <2>1. 1 \in 1..N /\ 1 + 1 = 2
    BY <1>1
  <2>2. Begin(m, 2) = Begin(m, 1) + Len(FirstLine(m)) + 2 /\ Len(FirstLine(m)) \in Nat
    BY <1>1, <1>2, <2>1
  <2>3. QED
    BY <1>1, <1>3, <2>2
<1>5. Begin(m, 2) <= Begin(m, N)
  <2>1. e \in Seq(Seq(Symbols)) /\ 2 - 1 \in 0..Len(e) /\ N - 1 \in 0..Len(e) /\ 2 - 1 <= N - 1
    BY <1>1, <1>2 DEF Texts
  <2> HIDE DEF e, N
  <2>2. Off(e, 2 - 1) <= Off(e, N - 1)
    BY <2>1, OffFacts
  <2>3. QED
    BY <2>2 DEF Begin, e
<1>6. Len(t) >= 9
  <2>1. N \in 1..N /\ N \in 1..(N + 1) /\ 2 \in 1..(N + 1)
    BY <1>1
  <2>2. Begin(m, N + 1) = Begin(m, N) + Len(Lines(m)[N]) + 2 /\ Len(Lines(m)[N]) \in Nat
        /\ Begin(m, N) \in Nat /\ Begin(m, 2) \in Nat
    BY <1>1, <2>1
  <2> HIDE DEF t, N
  <2>3. QED
    BY <1>1, <1>4, <1>5, <2>2
<1>7. t[1] = "M"
  BY MessageStarts
<1> HIDE DEF t
<1>8. Cardinality(Positions(t, "M")) >= 1 /\ Cardinality(Positions(t, "CT")) \in Nat
  <2>1. IsFiniteSet(Positions(t, "M")) /\ Cardinality(Positions(t, "M")) \in Nat
        /\ Cardinality(Positions(t, "CT")) \in Nat
    BY <1>1, CountPositions
  <2>2. 1 \in Positions(t, "M")
    BY <1>1, <1>6, <1>7 DEF Positions, Texts
  <2>3. Cardinality(Positions(t, "M")) # 0
    BY <2>1, <2>2, FS_EmptySet
  <2>4. QED
    BY <2>1, <2>3
<1>9. Len(t) \in Nat
  BY <1>1 DEF Texts
<1>10. Bytes(t) > 10
  <2>1. \A n \in Nat : \A p, q \in Nat : n >= 9 /\ p >= 1 => n + 3 * p + 12 * q > 10
    OBVIOUS
  <2>2. Cardinality(Positions(t, "M")) \in Nat
    BY <1>1, CountPositions
  <2>3. QED
    BY <1>6, <1>8, <1>9, <2>1, <2>2 DEF Bytes
<1>11. QED
  BY <1>6, <1>7, <1>10 DEF IsHttp, t

\* The content type among the first n header lines.
TypeBefore(m, n) ==
  LET types == {k \in DOMAIN m.head : k <= n /\ m.head[k][1] = "CT"}
  IN  IF types = {} THEN << >> ELSE LET k == Max(types) IN SubSeq(m.head[k], 3, Len(m.head[k]))

\* The last Content-Type: line so far counts.
LEMMA TypeSteps ==
  ASSUME NEW m \in Messages
  PROVE  /\ TypeBefore(m, -1) = << >> /\ TypeBefore(m, 0) = << >>
         /\ TypeBefore(m, Len(m.head) + 1) = ContentType(m)
         /\ TypeBefore(m, Len(m.head) + 1) = TypeBefore(m, Len(m.head))
         /\ \A k \in 1..Len(m.head) :
              TypeBefore(m, k) = IF m.head[k][1] = "CT" THEN SubSeq(m.head[k], 3, Len(m.head[k]))
                                 ELSE TypeBefore(m, k - 1)
<1> DEFINE N == Len(m.head)
           Types(n) == {k \in DOMAIN m.head : k <= n /\ m.head[k][1] = "CT"}
<1>1. N \in Nat /\ DOMAIN m.head = 1..N
  BY MessageTypes
<1>2. Types(-1) = {} /\ Types(0) = {}
  BY <1>1
<1>3. Types(N + 1) = Types(N) /\ Types(N + 1) = {k \in DOMAIN m.head : m.head[k][1] = "CT"}
  BY <1>1
<1>4. ASSUME NEW k \in 1..N
      PROVE  /\ m.head[k][1] = "CT" => Types(k) # {} /\ Max(Types(k)) = k
             /\ m.head[k][1] # "CT" => Types(k) = Types(k - 1)
  <2>1. CASE m.head[k][1] = "CT"
    <3>1. k \in Types(k) /\ Types(k) \in SUBSET (1..N) /\ \A y \in Types(k) : y <= k
      BY <1>1, <2>1
    <3> DEFINE S == Types(k)
    <3> HIDE DEF S
    <3>2. S # {} /\ S \in SUBSET (1..N)
      BY <3>1 DEF S
    <3>3. Max(S) \in S /\ \A y \in S : Max(S) >= y
      BY <1>1, <3>2, MostNumber
    <3>4. Max(S) <= k /\ Max(S) >= k /\ Max(S) \in 1..N
      BY <3>1, <3>2, <3>3 DEF S
    <3>5. Max(S) = k
      BY <1>1, <3>4
    <3>6. QED
      BY <2>1, <3>2, <3>5 DEF S
  <2>2. CASE m.head[k][1] # "CT"
    <3>1. ASSUME NEW y \in 1..N, m.head[y][1] = "CT"
          PROVE  y <= k <=> y <= k - 1
      <4>1. y # k
        BY <2>2, <3>1
      <4>2. QED
        BY <1>1, <4>1
    <3>2. Types(k) = Types(k - 1)
      BY <1>1, <3>1
    <3>3. QED
      BY <2>2, <3>2
  <2>3. QED
    BY <2>1, <2>2
<1> HIDE DEF N
<1>5. \A n : TypeBefore(m, n) = IF Types(n) = {} THEN << >>
                                ELSE SubSeq(m.head[Max(Types(n))], 3, Len(m.head[Max(Types(n))]))
  BY DEF TypeBefore
<1>6. ContentType(m) = TypeBefore(m, N + 1)
  BY <1>3, <1>5, Zenon DEF ContentType
<1> HIDE DEF Types
<1>7. TypeBefore(m, -1) = << >> /\ TypeBefore(m, 0) = << >> /\ TypeBefore(m, N + 1) = TypeBefore(m, N)
  BY <1>2, <1>3, <1>5, Zenon
<1>8. ASSUME NEW k \in 1..N
      PROVE  TypeBefore(m, k) = IF m.head[k][1] = "CT" THEN SubSeq(m.head[k], 3, Len(m.head[k]))
                                ELSE TypeBefore(m, k - 1)
  BY <1>4, <1>5, Zenon
<1>9. QED
  BY <1>6, <1>7, <1>8 DEF N

\* get_input_http_info takes the content type of the line, if it has one.
LEMMA HeadLineTaken ==
  ASSUME NEW m \in Messages, WellFormed(m), NEW k \in 1..Len(m.head), TakeLine(m.head[k]), pc' # "fault"
  PROVE  IF m.head[k][1] = "CT"
         THEN http' = [http EXCEPT !.type = SubSeq(m.head[k], 3, Len(m.head[k]))]
         ELSE http' = http
<1> DEFINE l == m.head[k]
<1>1. m.head \in Seq(Texts) /\ DOMAIN m.head = 1..Len(m.head)
  BY MessageTypes
<1>2. l \in Texts /\ k \in DOMAIN m.head
  BY <1>1
<1>3. l[1] = "CT" => Len(l) > 2
  BY <1>2, Zenon DEF WellFormed
<1> HIDE DEF l
<1>4. CASE l[1] = "CT"
  <2>1. Len(l) \in Nat /\ Len(l) > 2 /\ DOMAIN l = 1..Len(l)
    BY <1>2, <1>3, <1>4 DEF Texts
  <2>2. IsFiniteSet(Positions(l, "CT")) /\ Cardinality(Positions(l, "CT")) \in Nat
        /\ Cardinality(Positions(l, "M")) \in Nat
    BY <1>2, CountPositions
  <2>3. 1 \in Positions(l, "CT")
    BY <1>4, <2>1 DEF Positions
  <2>4. Cardinality(Positions(l, "CT")) # 0
    BY <2>2, <2>3, FS_EmptySet
  <2>5. Bytes(l) > 14
    BY <2>1, <2>2, <2>4 DEF Bytes
  <2>6. TakeLine(l)
    BY DEF l
  <2>7. http' = [http EXCEPT !.type = SubSeq(l, 3, Len(l))]
    BY <1>4, <2>5, <2>6, Zenon DEF TakeLine
  <2>8. QED
    BY <1>4, <2>7 DEF l
<1>5. CASE l[1] # "CT"
  <2>1. TakeLine(l)
    BY DEF l
  <2>2. http' = http
    BY <1>5, <2>1, Zenon DEF TakeLine
  <2>3. QED
    BY <1>5, <2>2 DEF l
<1>6. QED
  BY <1>4, <1>5

\* The parser has taken the first i - 1 lines of m, and their fields.
InHeader(m, i) ==
  /\ j = Begin(m, i)
  /\ i > 1 => http.header = m.protocol /\ http.method = Tail(m.path)
  /\ http.type = TypeBefore(m, i - 2)

Known(c)      == \E a \in 1..Len(accepted) : accepted[a] = Whole(c)
RightReply(m) == ReplyText(IsJson(m.body), m.protocol, ContentType(m))

\* Message c has been answered, and accepted if it is JSON.
Served(c) ==
  PlainBody(conv[c].body) =>
    /\ Known(c) <=> IsJson(conv[c].body)
    /\ replies[c].text = RightReply(conv[c])

\* Every read has taken one message, and each has been served but for the one the
\* parser is at.
AlignedInv ==
  aligned /\ pc # "fault" =>
    /\ reads <= Len(conv)
    /\ reads = 0 => at = 0
    /\ reads > 0 => FromMessage(reads) /\ Len(recvbuf) = Len(Text(conv[reads]))
    /\ Len(replies) = IF pc = "scan" THEN reads - 1 ELSE reads
    /\ \A c \in 1..Len(replies) : Served(c)
    /\ reads > 0 /\ PlainBody(conv[reads].body) =>
         IF pc = "scan" THEN \E i \in 1..(Len(Lines(conv[reads])) + 1) : InHeader(conv[reads], i)
         ELSE http.method = Tail(conv[reads].path)

\* A read that takes a whole message takes the one after those already read.
LEMMA NextMessage ==
  ASSUME PieceInv, AlignedInv, aligned, pc = "idle", NEW c \in 1..Len(conv), at = Start(c)
  PROVE  c = reads + 1
<1>1. /\ conv \in Conversations /\ Len(conv) \in Nat /\ reads \in Nat /\ reads <= Len(conv)
      /\ reads = 0 => at = 0
      /\ reads > 0 => FromMessage(reads) /\ Len(recvbuf) = Len(Text(conv[reads]))
  <2>1. conv \in Conversations /\ reads \in 0..MaxReads
    BY DEF PieceInv
  <2>2. Len(conv) \in Nat
    BY <2>1, SentTypes
  <2>3. reads \in Nat
    BY <2>1
  <2>4. QED
    BY <2>1, <2>2, <2>3 DEF AlignedInv
<1> DEFINE S(d) == Start(d)
           T(d) == Len(Text(conv[d]))
<1>2. \A d \in 1..Len(conv) : /\ S(d) \in Nat /\ T(d) \in Nat /\ T(d) >= 9
                              /\ \A e \in 1..Len(conv) : d < e => S(d) + T(d) <= S(e)
  <2>1. SUFFICES ASSUME NEW d \in 1..Len(conv)
                 PROVE  /\ S(d) \in Nat /\ T(d) \in Nat /\ T(d) >= 9
                        /\ \A e \in 1..Len(conv) : d < e => S(d) + T(d) <= S(e)
    OBVIOUS
  <2>2. /\ conv[d] \in Messages /\ WellFormed(conv[d]) /\ Len(Text(conv[d])) \in Nat /\ Start(d) \in Nat
        /\ \A e \in 1..Len(conv) : d < e => Start(d) + Len(Text(conv[d])) <= Start(e)
    BY <1>1, StartFacts
  <2>3. Len(Text(conv[d])) >= 9
    BY <2>2, TextIsHttp
  <2>4. QED
    BY <2>2, <2>3
<1>3. at = S(c) /\ (reads > 0 => reads \in 1..Len(conv) /\ at = S(reads) + T(reads))
  <2>1. ASSUME reads > 0
        PROVE  reads \in 1..Len(conv) /\ at = S(reads) + T(reads)
    <3>1. Start(reads) = at - Len(recvbuf) /\ Len(recvbuf) = T(reads) /\ reads \in 1..Len(conv)
      BY <1>1, <2>1 DEF FromMessage
    <3>2. T(reads) \in Nat /\ S(reads) = at - T(reads) /\ S(reads) \in Nat
      BY <1>2, <3>1
    <3>3. at \in Int
      BY <1>1, SentTypes DEF PieceInv
    <3> HIDE DEF S, T
    <3>4. QED
      BY <3>1, <3>2, <3>3
  <2>2. QED
    BY <2>1
<1> HIDE DEF S, T
<1>4. c \in Nat /\ c >= 1 /\ c <= Len(conv)
  BY <1>1
<1>5. CASE reads = 0
  <2>1. ASSUME c > 1 PROVE FALSE
    <3>1. 1 \in 1..Len(conv) /\ 1 < c
      BY <1>1, <1>4, <2>1
    <3>2. S(1) + T(1) <= S(c) /\ S(1) \in Nat /\ T(1) \in Nat /\ T(1) >= 9
      BY <1>2, <3>1
    <3>3. S(c) = 0
      BY <1>1, <1>3, <1>5
    <3>4. QED
      BY <3>2, <3>3
  <2>2. QED
    BY <1>4, <1>5, <2>1
<1>6. CASE reads > 0
  <2>0. reads \in 1..Len(conv) /\ S(c) = S(reads) + T(reads) /\ S(reads) \in Nat /\ T(reads) \in Nat /\ T(reads) >= 9
        /\ S(c) \in Nat /\ T(c) \in Nat
    BY <1>2, <1>3, <1>6
  <2>1. ~(c <= reads)
    <3>1. c # reads
      BY <2>0
    <3>2. ~(c < reads)
      <4>1. ASSUME c < reads PROVE FALSE
        <5>1. S(c) + T(c) <= S(reads)
          BY <1>2, <2>0, <4>1
        <5>2. QED
          BY <2>0, <5>1
      <4>2. QED
        BY <4>1
    <3>3. QED
      BY <1>1, <1>4, <3>1, <3>2
  <2>2. ~(c > reads + 1)
    <3>1. ASSUME c > reads + 1 PROVE FALSE
      <4>1. reads + 1 \in 1..Len(conv) /\ reads < reads + 1 /\ reads + 1 < c
        BY <1>1, <1>4, <1>6, <3>1
      <4> DEFINE d == reads + 1
      <4>2. d \in 1..Len(conv) /\ reads < d /\ d < c
        BY <4>1
      <4> HIDE DEF d
      <4>3. S(reads) + T(reads) <= S(d) /\ S(d) + T(d) <= S(c) /\ S(d) \in Nat /\ T(d) \in Nat /\ T(d) >= 9
        BY <1>2, <2>0, <4>2
      <4>4. QED
        BY <2>0, <4>3
    <3>2. QED
      BY <3>1
  <2>3. QED
    BY <1>1, <1>4, <2>1, <2>2
<1>7. QED
  BY <1>1, <1>5, <1>6

\* A message once served stays served while nothing is accepted or answered.
LEMMA ServedKept ==
  ASSUME conv' = conv, accepted' = accepted, replies' = replies
  PROVE  \A c : Served(c)' <=> Served(c)
  BY WholeKept DEF Served, Known

\* The read of a whole message leaves the parser at its begin.
LEMMA AlignedRead == PieceInv /\ AlignedInv /\ Read => AlignedInv'
<1>1. SUFFICES ASSUME PieceInv, AlignedInv, Read, aligned', pc' # "fault"
               PROVE  AlignedInv'
  BY DEF AlignedInv
<1>2. PICK to \in (at + 1)..Len(Stream) :
        /\ recvbuf' = SubSeq(Stream, at + 1, to)
        /\ pc' = IF IsHttp(SubSeq(Stream, at + 1, to)) THEN "scan" ELSE "idle"
        /\ aligned' = (aligned /\ \E c \in DOMAIN conv : SubSeq(Stream, at + 1, to) = Text(conv[c]) /\ at = Start(c))
        /\ at' = to
  BY <1>1, Zenon DEF Read, Received
<1>3. /\ pc = "idle" /\ reads' = reads + 1 /\ j' = 0 /\ http' = NoFields
      /\ conv' = conv /\ accepted' = accepted /\ replies' = replies
  BY <1>1 DEF Read
<1>4. PICK c \in DOMAIN conv : recvbuf' = Text(conv[c]) /\ at = Start(c)
  BY <1>1, <1>2
<1>5. aligned
  BY <1>1, <1>2
<1>6. conv \in Conversations /\ Len(conv) \in Nat /\ c \in 1..Len(conv)
  BY <1>1, <1>4, SentTypes DEF PieceInv
<1>7. c = reads + 1
  BY <1>1, <1>3, <1>4, <1>5, <1>6, NextMessage
<1>8. conv[c] \in Messages /\ WellFormed(conv[c]) /\ Len(Text(conv[c])) \in Nat
  BY <1>6, StartFacts
<1>9. pc' = "scan"
  BY <1>2, <1>4, <1>8, TextIsHttp
<1>10. at' = at + Len(recvbuf')
  <2>1. at \in 0..Len(Stream) /\ Len(Stream) \in Nat /\ Stream \in Seq(Symbols)
    BY <1>1, SentTypes DEF PieceInv, Texts
  <2>2. at + 1 \in 1..(Len(Stream) + 1) /\ to \in Int /\ (at + 1) - 1 <= to /\ to <= Len(Stream) /\ at \in Int
    BY <1>2, <2>1
  <2> DEFINE s == Stream
             p == SubSeq(s, at + 1, to)
  <2>3. s \in Seq(Symbols) /\ at + 1 \in 1..(Len(s) + 1) /\ to <= Len(s)
    BY <2>1, <2>2
  <2> HIDE DEF s
  <2>4. Len(p) = to - (at + 1) + 1
    BY <2>2, <2>3, PartOf, Zenon
  <2>5. recvbuf' = p
    BY <1>2 DEF s
  <2> HIDE DEF p
  <2>6. Len(p) = to - at
    BY <2>2, <2>4
  <2>7. at + Len(p) = to
    BY <2>2, <2>6
  <2>8. QED
    BY <1>2, <2>5, <2>7
<1>11. FromMessage(c)' /\ Len(recvbuf') = Len(Text(conv[c]))
  <2>1. Len(recvbuf') = Len(Text(conv[c])) /\ Len(recvbuf') \in Nat /\ at \in Int
    BY <1>1, <1>4, <1>8, SentTypes DEF PieceInv
  <2>2. at' - Len(recvbuf') = at
    BY <1>10, <2>1
  <2>3. Start(c)' = Start(c)
    BY <1>3 DEF Start
  <2>4. QED
    BY <1>3, <1>4, <1>6, <2>1, <2>2, <2>3 DEF FromMessage
<1>12. InHeader(conv[c], 1)'
  <2>1. Begin(conv[c], 1) = 0 /\ TypeBefore(conv[c], -1) = << >>
    BY <1>8, Layout, TypeSteps
  <2>2. http'.type = << >> /\ 1 - 2 = -1
    BY <1>3 DEF NoFields
  <2>3. QED
    BY <1>3, <2>1, <2>2 DEF InHeader
<1>13. 1 \in 1..(Len(Lines(conv[c])) + 1)
  BY <1>8, Layout
<1>14. /\ Len(replies) = reads /\ \A d \in 1..Len(replies) : Served(d)'
       /\ reads \in Nat /\ reads' = c /\ reads = reads' - 1 /\ reads' <= Len(conv') /\ reads' > 0
  <2>1. reads \in Nat
    BY <1>1, MessagesAssumption DEF PieceInv
  <2>2. Len(replies) = reads /\ \A d \in 1..Len(replies) : Served(d)
    BY <1>1, <1>3, <1>5 DEF AlignedInv
  <2>3. \A d \in 1..Len(replies) : Served(d)'
    BY <1>3, <2>2, ServedKept
  <2>4. reads' = c /\ reads = reads' - 1 /\ reads' <= Len(conv') /\ reads' > 0
    BY <1>3, <1>6, <1>7, <2>1
  <2>5. QED
    BY <2>1, <2>2, <2>3, <2>4
<1>15. FromMessage(reads)' /\ Len(recvbuf') = Len(Text(conv'[reads'])) /\ InHeader(conv[reads], 1)'
       /\ 1 \in 1..(Len(Lines(conv'[reads'])) + 1)
  <2>1. conv'[reads'] = conv[c]
    BY <1>3, <1>14
  <2>2. FromMessage(reads)'
    BY <1>11, <1>14 DEF FromMessage, Start
  <2>3. InHeader(conv[reads], 1)'
    BY <1>12, <1>3, <1>14 DEF InHeader
  <2>4. QED
    BY <1>11, <1>13, <2>1, <2>2, <2>3
<1>16. QED
  BY <1>1, <1>3, <1>9, <1>14, <1>15 DEF AlignedInv

\* A line of the header is taken with its field.
LEMMA HeaderStep ==
  ASSUME PieceInv, Line, pc' # "fault", NEW c, NEW i, AtLine(c, i), InHeader(conv[c], i)
  PROVE  i + 1 \in 1..(Len(Lines(conv[c])) + 1) /\ InHeader(conv[c], i + 1)'
<1> DEFINE m == conv[c]
           N == Len(Lines(m))
           l == Lines(m)[i]
<1>1. /\ pc = "scan" /\ Returns # {} /\ j' = Min(Returns) + 1 /\ conv' = conv
      /\ IF j = 0 THEN TakeFirstLine(TheLine(Min(Returns))) ELSE TakeLine(TheLine(Min(Returns)))
  BY Zenon DEF Line, AfterReturn, TheLine
<1>2. FromMessage(c) /\ i \in 1..N /\ j = Begin(m, i)
  BY DEF AtLine
<1>3. m \in Messages /\ WellFormed(m) /\ Fits(m)
  BY <1>2, PieceOfMessage
<1>4. TheLine(Min(Returns)) = l /\ Min(Returns) + 1 = Begin(m, i + 1)
  BY <1>1, LineTaken
<1>5. j' = Begin(m, i + 1)
  BY <1>1, <1>4
<1>6. IF j = 0 THEN TakeFirstLine(l) ELSE TakeLine(l)
  BY <1>1, <1>4, Zenon
<1>7. /\ Len(m.head) \in Nat /\ N = Len(m.head) + 2
      /\ Lines(m)[1] = FirstLine(m) /\ Lines(m)[N] = << >>
      /\ \A k \in 1..Len(m.head) : Lines(m)[k + 1] = m.head[k]
  BY <1>3, MessageTypes
<1>8. i \in Nat /\ i + 1 \in 1..(N + 1) /\ i + 1 > 1 /\ N \in Nat
  BY <1>2, <1>7
<1>9. DOMAIN http = {"method", "header", "type"}
  BY DEF PieceInv, Fields
<1>10. http.type = TypeBefore(m, i - 2) /\ (i > 1 => http.header = m.protocol /\ http.method = Tail(m.path))
  BY DEF InHeader
<1> HIDE DEF m, N, l
<1>11. SUFFICES /\ http'.header = m.protocol /\ http'.method = Tail(m.path)
                /\ http'.type = TypeBefore(m, i - 1)
  <2>1. (i + 1) - 2 = i - 1
    BY <1>8
  <2>2. m = conv'[c]
    BY <1>1 DEF m
  <2>3. j' = Begin(conv'[c], i + 1) /\ TypeBefore(conv'[c], (i + 1) - 2) = TypeBefore(m, i - 1)
    BY <1>5, <2>1, <2>2, Zenon
  <2>4. InHeader(conv[c], i + 1)'
    BY <1>11, <2>2, <2>3 DEF InHeader
  <2>5. QED
    BY <1>8, <2>4 DEF m, N
<1>12. CASE i = 1
  <2>1. j = 0 /\ l = FirstLine(m)
    BY <1>2, <1>3, <1>7, <1>12, Layout DEF l
  <2>2. http' = [http EXCEPT !.header = m.protocol, !.method = Tail(m.path)]
    BY <1>3, <1>6, <2>1, FirstLineTaken
  <2>3. http'.header = m.protocol /\ http'.method = Tail(m.path) /\ http'.type = http.type
    BY <1>9, <2>2
  <2>4. i - 2 = -1 /\ i - 1 = 0
    BY <1>12
  <2>5. TypeBefore(m, -1) = TypeBefore(m, 0)
    BY <1>3, TypeSteps
  <2>6. QED
    BY <1>10, <2>3, <2>4, <2>5
<1>13. CASE i > 1
  <2>1. j # 0
    <3>1. i - 1 \in 1..N /\ (i - 1) + 1 = i /\ i - 1 \in 1..(N + 1)
      BY <1>2, <1>8, <1>13
    <3>2. Begin(m, (i - 1) + 1) = Begin(m, i - 1) + Len(Lines(m)[i - 1]) + 2
          /\ Len(Lines(m)[i - 1]) \in Nat /\ Begin(m, i - 1) \in Nat
      BY <1>3, <3>1, Layout DEF N
    <3>3. Begin(m, i) # 0
      BY <3>1, <3>2
    <3>4. QED
      BY <1>2, <3>3
  <2>2. TakeLine(l)
    BY <1>6, <2>1, Zenon
  <2>3. http.header = m.protocol /\ http.method = Tail(m.path)
    BY <1>10, <1>13
  <2>4. CASE i = N
    <3>1. l = << >>
      BY <1>7, <2>4 DEF l
    <3>2. ~(Bytes(l) > 14)
      <4>1. Positions(<< >>, "M") = {} /\ Positions(<< >>, "CT") = {} /\ Len(<< >>) = 0
        BY DEF Positions
      <4>2. Bytes(<< >>) = 0
        BY <4>1, FS_EmptySet DEF Bytes
      <4>3. QED
        BY <3>1, <4>2
    <3>3. http' = http
      BY <2>2, <3>2, Zenon DEF TakeLine
    <3>4. i - 2 = Len(m.head) /\ i - 1 = Len(m.head) + 1
      BY <1>7, <2>4
    <3>5. TypeBefore(m, Len(m.head) + 1) = TypeBefore(m, Len(m.head))
      BY <1>3, TypeSteps
    <3>6. QED
      BY <1>10, <2>3, <3>3, <3>4, <3>5
  <2>5. CASE i # N
    <3> DEFINE k == i - 1
    <3>1. k \in 1..Len(m.head) /\ k + 1 = i /\ i - 2 = k - 1
      BY <1>2, <1>7, <1>8, <1>13, <2>5
    <3>2. l = m.head[k]
      BY <1>7, <3>1 DEF l
    <3>3. TypeBefore(m, k) = IF m.head[k][1] = "CT" THEN SubSeq(m.head[k], 3, Len(m.head[k]))
                             ELSE TypeBefore(m, k - 1)
      BY <1>3, <3>1, TypeSteps
    <3> HIDE DEF k
    <3>4. IF m.head[k][1] = "CT"
          THEN http' = [http EXCEPT !.type = SubSeq(m.head[k], 3, Len(m.head[k]))]
          ELSE http' = http
      BY <1>3, <2>2, <3>1, <3>2, HeadLineTaken
    <3>5. http.type = TypeBefore(m, k - 1)
      BY <1>10, <3>1
    <3> DEFINE x == SubSeq(m.head[k], 3, Len(m.head[k]))
               q == m.head[k][1]
    <3>5a. /\ TypeBefore(m, k) = IF q = "CT" THEN x ELSE TypeBefore(m, k - 1)
           /\ IF q = "CT" THEN http' = [http EXCEPT !.type = x] ELSE http' = http
      BY <3>3, <3>4
    <3> HIDE DEF x, q
    <3>6. http'.type = TypeBefore(m, k) /\ http'.header = http.header /\ http'.method = http.method
      <4>1. CASE q = "CT"
        BY <1>9, <3>5a, <4>1
      <4>2. CASE q # "CT"
        BY <3>5, <3>5a, <4>2
      <4>3. QED
        BY <4>1, <4>2
    <3>7. QED
      BY <2>3, <3>6 DEF k
  <2>6. QED
    BY <2>4, <2>5
<1>14. QED
  BY <1>8, <1>12, <1>13

\* A plain body has no line end, so every line is one of the header.
LEMMA AlignedLine == PieceInv /\ AlignedInv /\ Line => AlignedInv'
<1>1. SUFFICES ASSUME PieceInv, AlignedInv, Line, aligned', pc' # "fault"
               PROVE  AlignedInv'
  BY DEF AlignedInv
<1>2. /\ pc = "scan" /\ Returns # {} /\ aligned' = aligned
      /\ conv' = conv /\ at' = at /\ reads' = reads /\ recvbuf' = recvbuf
      /\ accepted' = accepted /\ replies' = replies
  BY <1>1, Zenon DEF Line
<1>3. pc' = "scan"
  BY <1>1, Zenon DEF Line, TakeFirstLine, TakeLine
<1> DEFINE c == reads
           m == conv[c]
           N == Len(Lines(m))
<1>4. /\ reads <= Len(conv) /\ (reads = 0 => at = 0)
      /\ reads > 0 => FromMessage(c) /\ Len(recvbuf) = Len(Text(m))
      /\ Len(replies) = reads - 1 /\ \A d \in 1..Len(replies) : Served(d)
      /\ reads > 0 /\ PlainBody(m.body) => \E i \in 1..(N + 1) : InHeader(m, i)
  BY <1>1, <1>2 DEF AlignedInv
<1>5. ASSUME reads > 0, PlainBody(m.body)
      PROVE  \E i \in 1..(N + 1) : InHeader(conv[c], i)'
  <2>1. PICK i \in 1..(N + 1) : InHeader(m, i)
    BY <1>4, <1>5
  <2>2. FromMessage(c) /\ Len(recvbuf) = Len(Text(m))
    BY <1>4, <1>5
  <2>3. m \in Messages /\ WellFormed(m) /\ \A o \in 1..Len(Text(m)) : o <= Len(recvbuf) => recvbuf[o] = Text(m)[o]
    BY <1>1, <2>2, PieceOfMessage
  <2>4. /\ N \in Nat /\ Len(m.body) \in Nat /\ Len(Header(m)) \in Nat
        /\ Begin(m, N + 1) = Len(Header(m)) /\ Len(Text(m)) = Len(Header(m)) + Len(m.body)
        /\ \A o \in 1..Len(m.body) : Text(m)[Len(Header(m)) + o] = m.body[o]
    BY <2>3, Layout
  <2>5. CASE i = N + 1
    <3>1. PICK k \in 1..Len(recvbuf) : j < k /\ recvbuf[k] = "CR"
      BY <1>1, <1>2, NextReturn
    <3> DEFINE h == Len(Header(m))
               b == m.body
               t == Text(m)
    <3>2. j = h
      BY <2>1, <2>4, <2>5 DEF InHeader
    <3>3. b \in Texts
      BY <2>3, MessageTypes
    <3>4. recvbuf[k] = t[k] /\ Len(t) = h + Len(b) /\ Len(recvbuf) = Len(t) /\ h \in Nat /\ Len(b) \in Nat
          /\ \A o \in 1..Len(b) : t[h + o] = b[o]
      <4>1. Len(t) = h + Len(b) /\ Len(recvbuf) = Len(t) /\ h \in Nat /\ Len(b) \in Nat
            /\ \A o \in 1..Len(b) : t[h + o] = b[o]
        BY <2>2, <2>4
      <4> HIDE DEF h, b
      <4>2. k \in 1..Len(t) /\ k <= Len(recvbuf)
        BY <3>1, <4>1
      <4>3. recvbuf[k] = t[k]
        BY <2>3, <4>2
      <4> HIDE DEF t
      <4>4. QED
        BY <4>1, <4>3
    <3>5. ~Has(b, "CR")
      BY <1>5, Zenon DEF PlainBody
    <3> HIDE DEF h, b, t
    <3>6. k - h \in 1..Len(b) /\ h + (k - h) = k
      BY <3>1, <3>2, <3>4
    <3>7. b[k - h] = "CR" /\ k - h \in DOMAIN b
      BY <3>1, <3>3, <3>4, <3>6 DEF Texts
    <3>8. QED
      BY <3>5, <3>7 DEF Has
  <2>6. CASE i # N + 1
    <3>1. i \in 1..N
      BY <2>4, <2>6
    <3>2. AtLine(c, i)
      BY <2>1, <2>2, <3>1 DEF AtLine, InHeader
    <3>3. PICK d : d = reads
      OBVIOUS
    <3>4. AtLine(d, i) /\ InHeader(conv[d], i)
      BY <2>1, <3>2, <3>3
    <3>5. i + 1 \in 1..(Len(Lines(conv[d])) + 1) /\ InHeader(conv[d], i + 1)'
      BY <1>1, <3>4, HeaderStep
    <3>6. i + 1 \in 1..(N + 1) /\ InHeader(conv[c], i + 1)'
      BY <1>2, <3>3, <3>5 DEF InHeader
    <3>7. QED
      BY <3>6
  <2>7. QED
    BY <2>5, <2>6
<1>6. \A d \in 1..Len(replies) : Served(d)'
  BY <1>2, <1>4, ServedKept
<1>7. FromMessage(reads)' <=> FromMessage(reads)
  BY <1>2 DEF FromMessage, Start
<1>8. reads > 0 /\ PlainBody(m.body) => \E i \in 1..(N + 1) : InHeader(conv[reads], i)'
  BY <1>5, <1>2 DEF InHeader
<1>9. QED
  BY <1>2, <1>3, <1>4, <1>6, <1>7, <1>8 DEF AlignedInv

\* Of a plain content cJSON_Parse takes all or nothing.
LEMMA PlainTaken ==
  ASSUME PieceInv, PlainBody(Content)
  PROVE  /\ JsonLengths(Content) # {} <=> IsJson(Content)
         /\ JsonLengths(Content) # {} => Taken = Content
<1> DEFINE C == Content
           J == JsonLengths(Content)
<1>1. /\ C \in Texts /\ \A o \in 1..Len(C) : C[o] = recvbuf[j + o]
  BY ContentFacts
<1>2. Len(C) \in Nat /\ C \in Seq(Symbols)
  BY <1>1 DEF Texts
<1>3. ASSUME J # {}
      PROVE  IsJson(C) /\ Taken = C
  <2>1. /\ Taken \in Texts /\ Len(Taken) \in 1..Len(C) /\ IsJson(Taken)
        /\ \A o \in 1..Len(Taken) : Taken[o] = recvbuf[j + o]
        /\ recvbuf[j + 1] = Brace
    BY <1>3, TakenFacts
  <2> HIDE DEF C
  <2>2. 1 \in 1..Len(C)
    BY <1>2, <2>1
  <2>3. C # << >> /\ C[1] = Brace
    BY <1>1, <1>2, <2>1, <2>2
  <2>4. IsJson(C)
    BY <2>3, Zenon DEF PlainBody, Brace, C
  <2>5. ASSUME NEW o \in 1..Len(Taken), o <= Len(C)
        PROVE  Taken[o] = C[o]
    <3>1. o \in 1..Len(C)
      BY <1>2, <2>1, <2>5
    <3>2. QED
      BY <1>1, <2>1, <3>1
  <2>6. Taken = C
    BY <1>1, <2>1, <2>4, <2>5, JsonPrefix
  <2>7. QED
    BY <2>4, <2>6
<1>4. ASSUME IsJson(C)
      PROVE  J # {}
  <2> DEFINE n == Len(C)
             q == SubSeq(C, 1, n)
  <2>1. C # << >>
    BY <1>4, Zenon DEF IsJson
  <2> HIDE DEF C
  <2>2. n \in 1..n /\ n \in Nat
    BY <1>2, <2>1
  <2>3. C \in Seq(Symbols) /\ 1 \in 1..(Len(C) + 1) /\ n \in Int /\ 1 - 1 <= n /\ n <= Len(C)
    BY <1>2, <2>2
  <2>4. /\ q \in Seq(Symbols) /\ Len(q) = n - 1 + 1
        /\ \A o \in 1..(n - 1 + 1) : q[o] = C[1 + o - 1]
    BY <2>3, PartOf, Zenon
  <2> HIDE DEF q
  <2>5. ASSUME NEW o \in 1..Len(C)
        PROVE  q[o] = C[o]
    <3>1. o \in 1..(n - 1 + 1) /\ 1 + o - 1 = o
      BY <1>2
    <3>2. QED
      BY <2>4, <3>1
  <2>6. Len(q) = Len(C)
    BY <2>2, <2>4
  <2>7. q = C
    BY <1>2, <2>4, <2>5, <2>6
  <2>8. IsJson(SubSeq(C, 1, n))
    BY <1>4, <2>7, Zenon DEF q
  <2> HIDE DEF n
  <2>9. n \in JsonLengths(C)
    BY <2>2, <2>8, Zenon DEF JsonLengths, n
  <2>10. QED
    BY <2>9, Zenon DEF C
<1>5. QED
  BY <1>3, <1>4

\* When the whole header has been taken the content is the body.
LEMMA ContentIsBody ==
  ASSUME PieceInv, NEW c, FromMessage(c), Len(recvbuf) = Len(Text(conv[c])), j = Len(Header(conv[c]))
  PROVE  Content = conv[c].body
<1> DEFINE m == conv[c]
           t == Text(m)
           h == Len(Header(m))
           b == m.body
           C == Content
<1>1. m \in Messages /\ WellFormed(m) /\ \A o \in 1..Len(t) : o <= Len(recvbuf) => recvbuf[o] = t[o]
  BY PieceOfMessage
<1>2. /\ Len(b) \in Nat /\ h \in Nat /\ Len(t) = h + Len(b) /\ b \in Texts
      /\ \A o \in 1..Len(b) : t[h + o] = b[o]
  BY <1>1, Layout, MessageTypes
<1>3. /\ C \in Texts /\ Len(recvbuf) \in Nat
      /\ Len(C) = IF j < Len(recvbuf) THEN Len(recvbuf) - j ELSE 0
      /\ \A o \in 1..Len(C) : C[o] = recvbuf[j + o]
  BY ContentFacts
<1>4. j = h /\ Len(recvbuf) = Len(t)
  OBVIOUS
<1> HIDE DEF m, t, h, b, C
<1>5. Len(C) = Len(b)
  BY <1>2, <1>3, <1>4
<1>6. ASSUME NEW o \in 1..Len(b)
      PROVE  C[o] = b[o]
  <2>1. h + o \in 1..Len(t) /\ h + o <= Len(recvbuf)
    BY <1>2, <1>4
  <2>2. C[o] = recvbuf[h + o]
    BY <1>3, <1>4, <1>5
  <2>3. recvbuf[h + o] = t[h + o]
    BY <1>1, <2>1
  <2>4. QED
    BY <1>2, <2>2, <2>3
<1>7. C \in Seq(Symbols) /\ b \in Seq(Symbols)
  BY <1>2, <1>3 DEF Texts
<1>8. C = b
  BY <1>5, <1>6, <1>7
<1>9. QED
  BY <1>8 DEF C, b, m

\* At the end of a message with a plain body its header has been taken.
LEMMA HeaderTaken ==
  ASSUME PieceInv, NEW c, FromMessage(c), Len(recvbuf) = Len(Text(conv[c])), Returns = {},
         NEW i \in 1..(Len(Lines(conv[c])) + 1), InHeader(conv[c], i)
  PROVE  /\ j = Len(Header(conv[c])) /\ http.header = conv[c].protocol
         /\ http.method = Tail(conv[c].path) /\ http.type = ContentType(conv[c])
<1> DEFINE m == conv[c]
           N == Len(Lines(m))
           t == Text(m)
<1>1. m \in Messages /\ WellFormed(m) /\ \A o \in 1..Len(t) : o <= Len(recvbuf) => recvbuf[o] = t[o]
  BY PieceOfMessage
<1>2. /\ N \in Nat /\ N >= 2 /\ Begin(m, N + 1) = Len(Header(m)) /\ Len(t) \in Nat
      /\ N = Len(m.head) + 2 /\ Len(m.head) \in Nat
  <2>1. N \in Nat /\ N >= 2 /\ Begin(m, N + 1) = Len(Header(m)) /\ Text(m) \in Texts
    BY <1>1, Layout
  <2>2. N = Len(m.head) + 2 /\ Len(m.head) \in Nat
    BY <1>1, MessageTypes
  <2>3. Len(t) \in Nat
    BY <2>1 DEF Texts
  <2>4. QED
    BY <2>1, <2>2, <2>3
<1>3. i = N + 1
  <2>1. SUFFICES ASSUME i # N + 1 PROVE FALSE
    OBVIOUS
  <2>2. i \in 1..N
    BY <1>2, <2>1
  <2> DEFINE b == Begin(m, i)
             l == Lines(m)[i]
             k == b + Len(l) + 1
  <2>3. /\ b \in Nat /\ Len(l) \in Nat /\ t[k] = "CR" /\ Begin(m, i + 1) = b + Len(l) + 2
        /\ Begin(m, i + 1) <= Len(t)
    BY <1>1, <2>2, LineAt
  <2>4. j = b
    BY DEF InHeader
  <2>5. Len(recvbuf) = Len(t)
    OBVIOUS
  <2> HIDE DEF b, l, t
  <2>6. k \in (j + 1)..Len(recvbuf) /\ k \in 1..Len(t) /\ k <= Len(recvbuf)
    BY <1>2, <2>3, <2>4, <2>5
  <2> HIDE DEF k
  <2>7. recvbuf[k] = "CR"
    BY <1>1, <2>3, <2>6
  <2>8. k \in Returns
    BY <2>6, <2>7 DEF Returns
  <2>9. QED
    BY <2>8
<1>4. i > 1 /\ i - 2 = Len(m.head) + 1
  BY <1>2, <1>3
<1>5. TypeBefore(m, Len(m.head) + 1) = ContentType(m)
  BY <1>1, TypeSteps
<1>6. QED
  BY <1>2, <1>3, <1>4, <1>5 DEF InHeader

\* No content is accepted in the place of a message that was read before, and
\* the place of the last one is not yet taken.
LEMMA PlacesApart ==
  ASSUME PieceInv, AcceptInv, pc = "scan", NEW c, FromMessage(c)
  PROVE  /\ ~Known(c)
         /\ JsonLengths(Content) # {} =>
              \A d \in 1..Len(conv) : d < c => Place # Start(d) + Len(Header(conv[d]))
<1>1. /\ conv \in Conversations /\ c \in 1..Len(conv) /\ Start(c) = at - Len(recvbuf) /\ recvbuf[1] = "M"
  BY DEF PieceInv, FromMessage
<1>2. /\ conv[c] \in Messages /\ WellFormed(conv[c]) /\ Start(c) \in Nat /\ Len(Header(conv[c])) \in Nat
  <2>1. conv[c] \in Messages /\ WellFormed(conv[c]) /\ Start(c) \in Nat
    BY <1>1, StartFacts
  <2>2. QED
    BY <2>1, Layout
<1>3. ~Known(c)
  <2>1. SUFFICES ASSUME NEW a \in 1..Len(accepted), accepted[a] = Whole(c) PROVE FALSE
    BY DEF Known
  <2>2. accepted[a].place < at - Len(recvbuf)
    BY DEF AcceptInv
  <2>3. accepted[a].place = Start(c) + Len(Header(conv[c]))
    BY <2>1 DEF Whole
  <2> DEFINE s == Start(c)
             h == Len(Header(conv[c]))
  <2>4. s + h < s /\ s \in Nat /\ h \in Nat
    BY <1>1, <1>2, <2>2, <2>3
  <2> HIDE DEF s, h
  <2>5. QED
    BY <2>4
<1>4. ASSUME JsonLengths(Content) # {}, NEW d \in 1..Len(conv), d < c
      PROVE  Place # Start(d) + Len(Header(conv[d]))
  <2> DEFINE s == Start(d)
             h == Len(Header(conv[d]))
             t == Len(Text(conv[d]))
             u == Start(c)
  <2>1. conv[d] \in Messages /\ WellFormed(conv[d]) /\ s \in Nat /\ s + t <= u
    BY <1>1, <1>4, StartFacts
  <2>2. h \in Nat /\ t \in Nat /\ h <= t
    <3>1. /\ Len(Text(conv[d])) = Len(Header(conv[d])) + Len(conv[d].body)
          /\ Len(Header(conv[d])) \in Nat /\ Len(conv[d].body) \in Nat
      BY <2>1, Layout
    <3> DEFINE y == Len(conv[d].body)
    <3>2. t = h + y /\ h \in Nat /\ y \in Nat
      BY <3>1
    <3> HIDE DEF h, t, y
    <3>3. QED
      BY <3>2
  <2>3. recvbuf[j + 1] = Brace
    BY <1>4, TakenFacts
  <2>4. j # 0
    <3>1. ASSUME j = 0 PROVE FALSE
      <4>1. recvbuf[1] = Brace
        BY <2>3, <3>1
      <4>2. Brace = "M"
        BY <1>1, <4>1
      <4>3. QED
        BY <4>2 DEF Brace
    <3>2. QED
      BY <3>1
  <2>5. Place = u + j /\ j \in Nat /\ u \in Nat
    BY <1>1, <1>2, ContentFacts DEF Place
  <2> HIDE DEF s, h, t, u
  <2>6. Place # s + h
    BY <2>1, <2>2, <2>4, <2>5
  <2>7. QED
    BY <2>6 DEF s, h
<1>5. QED
  BY <1>3, <1>4

\* The reply depends on the truth of its condition only.
LEMMA SameReply ==
  ASSUME NEW p, NEW q, p <=> q, NEW header, NEW type
  PROVE  ReplyText(p, header, type) = ReplyText(q, header, type)
<1>1. ResultText(p) = ResultText(q)
  BY Zenon DEF ResultText
<1>2. QED
  BY <1>1, Zenon DEF ReplyText

\* The message is answered with its own fields, and accepted if it is JSON.
LEMMA AlignedFinish == PieceInv /\ AcceptInv /\ AlignedInv /\ Finish => AlignedInv'
<1>1. SUFFICES ASSUME PieceInv, AcceptInv, AlignedInv, Finish, aligned', pc' # "fault"
               PROVE  AlignedInv'
  BY DEF AlignedInv
<1> DEFINE new    == [place |-> Place, text |-> Taken]
           object == JsonLengths(Content) # {}
<1>2. /\ pc = "scan" /\ pc' = "idle" /\ Returns = {} /\ aligned' = aligned
      /\ conv' = conv /\ at' = at /\ reads' = reads /\ recvbuf' = recvbuf /\ j' = j /\ http' = http
      /\ IF object THEN accepted' = Append(accepted, new) ELSE accepted' = accepted
      /\ replies' = Append(replies, Reply(object))
  BY <1>1, Zenon DEF Finish, Reply, Content, Taken, Place
<1>3. PICK c : c = reads
  OBVIOUS
<1> DEFINE m == conv[c]
<1>4. /\ c \in Nat /\ c > 0 /\ Len(replies) \in Nat /\ Len(replies) = c - 1 /\ c <= Len(conv)
      /\ FromMessage(c) /\ Len(recvbuf) = Len(Text(m))
      /\ \A d \in 1..(c - 1) : Served(d)
      /\ PlainBody(m.body) => \E i \in 1..(Len(Lines(m)) + 1) : InHeader(m, i)
  <2>1. reads \in Nat /\ Len(replies) \in Nat /\ Len(replies) < reads
    BY <1>1, <1>2, MessagesAssumption DEF PieceInv
  <2>2. reads > 0
    BY <2>1
  <2>3. /\ reads <= Len(conv) /\ FromMessage(reads) /\ Len(recvbuf) = Len(Text(conv[reads]))
        /\ Len(replies) = reads - 1 /\ \A d \in 1..Len(replies) : Served(d)
        /\ PlainBody(conv[reads].body) =>
             \E i \in 1..(Len(Lines(conv[reads])) + 1) : InHeader(conv[reads], i)
    BY <1>1, <1>2, <2>2 DEF AlignedInv
  <2>4. QED
    BY <1>3, <2>1, <2>2, <2>3
<1>5. /\ conv \in Conversations /\ Len(conv) \in Nat /\ c \in 1..Len(conv)
  <2>1. conv \in Conversations
    BY <1>1 DEF PieceInv
  <2>2. Len(conv) \in Nat
    BY <2>1, SentTypes
  <2>3. QED
    BY <1>4, <2>1, <2>2
<1>6. /\ Len(replies') = c /\ replies'[c] = Reply(object)
      /\ \A d \in 1..(c - 1) : replies'[d] = replies[d]
  <2> DEFINE R == [length : Nat, text : Texts]
             q == Reply(object)
  <2>1. http.header \in Texts /\ http.type \in Texts /\ replies \in Seq(R) /\ object \in BOOLEAN
    BY <1>1 DEF PieceInv
  <2> HIDE DEF object
  <2>2. q \in R
    BY <2>1, Replied
  <2> HIDE DEF R, q
  <2>3. /\ Len(Append(replies, q)) = Len(replies) + 1
        /\ Append(replies, q)[Len(replies) + 1] = q
        /\ \A d \in 1..Len(replies) : Append(replies, q)[d] = replies[d]
    BY <2>1, <2>2
  <2>4. Len(replies) + 1 = c /\ replies' = Append(replies, q)
    BY <1>2, <1>4 DEF q
  <2>5. QED
    BY <1>4, <2>3, <2>4 DEF q
<1>7. ASSUME NEW d \in 1..Len(conv)
      PROVE  Known(d)' <=> Known(d) \/ (object /\ new = Whole(d))
  <2>1. Whole(d)' = Whole(d)
    BY <1>2, WholeKept
  <2>2. CASE ~object
    <3>1. accepted' = accepted
      BY <1>2, <2>2
    <3>2. QED
      BY <2>1, <2>2, <3>1 DEF Known
  <2>3. CASE object
    <3> DEFINE R == [place : Int, text : Texts]
               n == Len(accepted)
    <3>1. Taken \in Texts /\ Place \in Int
      <4>1. Taken \in Texts
        BY <1>1, <2>3, TakenFacts
      <4>2. j \in Nat /\ Len(recvbuf) \in Nat /\ at \in Nat
        BY <1>1, ContentFacts, SentTypes DEF PieceInv
      <4>3. QED
        BY <4>1, <4>2 DEF Place
    <3>2. new \in R /\ accepted \in Seq(R)
      BY <1>1, <3>1 DEF PieceInv
    <3> HIDE DEF R, new, object
    <3>3. accepted' = Append(accepted, new)
      BY <1>2, <2>3
    <3>4. /\ n \in Nat /\ Len(accepted') = n + 1 /\ accepted'[n + 1] = new
          /\ \A a \in 1..n : accepted'[a] = accepted[a]
      BY <3>2, <3>3
    <3>5. Known(d)' <=> \E a \in 1..(n + 1) : accepted'[a] = Whole(d)
      BY <2>1, <3>4 DEF Known
    <3>6. Known(d) <=> \E a \in 1..n : accepted[a] = Whole(d)
      BY DEF Known
    <3> HIDE DEF n
    <3>7. (\E a \in 1..(n + 1) : accepted'[a] = Whole(d)) <=> (\E a \in 1..n : accepted'[a] = Whole(d)) \/ new = Whole(d)
      <4>1. \A a \in 1..(n + 1) : a \in 1..n \/ a = n + 1
        BY <3>4
      <4>2. n + 1 \in 1..(n + 1) /\ \A a \in 1..n : a \in 1..(n + 1)
        BY <3>4
      <4>3. QED
        BY <3>4, <4>1, <4>2
    <3>8. QED
      BY <2>3, <3>4, <3>5, <3>6, <3>7
  <2>4. QED
    BY <2>2, <2>3
<1> HIDE DEF object
<1>8. ASSUME NEW d \in 1..(c - 1)
      PROVE  Served(d)'
  <2>1. d \in 1..Len(conv) /\ d < c
    BY <1>4, <1>5
  <2>2. Served(d) /\ replies'[d] = replies[d]
    BY <1>4, <1>6
  <2>3. ~(object /\ new = Whole(d))
    <3>1. object => Place # Start(d) + Len(Header(conv[d]))
      BY <1>1, <1>2, <1>4, <2>1, PlacesApart DEF object
    <3>2. new = Whole(d) => Place = Start(d) + Len(Header(conv[d]))
      BY DEF Whole
    <3>3. QED
      BY <3>1, <3>2
  <2>4. Known(d)' <=> Known(d)
    BY <1>7, <2>1, <2>3
  <2>5. QED
    BY <1>2, <2>2, <2>4 DEF Served
<1>9. ASSUME PlainBody(m.body)
      PROVE  /\ Known(c)' <=> IsJson(m.body)
             /\ replies'[c].text = RightReply(m)
             /\ http.method = Tail(m.path)
  <2>1. PICK i \in 1..(Len(Lines(m)) + 1) : InHeader(m, i)
    BY <1>4, <1>9
  <2>2. /\ j = Len(Header(m)) /\ http.header = m.protocol
        /\ http.method = Tail(m.path) /\ http.type = ContentType(m)
    BY <1>1, <1>2, <1>4, <2>1, HeaderTaken
  <2>3. Content = m.body
    BY <1>1, <1>4, <2>2, ContentIsBody
  <2>4. (object <=> IsJson(m.body)) /\ (object => Taken = m.body)
    BY <1>1, <1>9, <2>3, PlainTaken DEF object
  <2>5. Place = Start(c) + Len(Header(m))
    BY <1>4, <2>2 DEF Place, FromMessage
  <2>6. object => new = Whole(c)
    BY <2>4, <2>5 DEF Whole
  <2>7. ~Known(c)
    BY <1>1, <1>2, <1>4, PlacesApart
  <2>8. Known(c)' <=> IsJson(m.body)
    BY <1>5, <1>7, <2>4, <2>6, <2>7
  <2>9. replies'[c].text = ReplyText(object, m.protocol, ContentType(m))
    <3>1. http.header \in Texts /\ http.type \in Texts /\ object \in BOOLEAN
      BY <1>1 DEF PieceInv, object
    <3>2. Reply(object).text = ReplyText(object, http.header, http.type)
      BY <3>1, Replied
    <3>3. QED
      BY <1>6, <2>2, <3>2
  <2>10. ReplyText(object, m.protocol, ContentType(m)) = RightReply(m)
    BY <2>4, SameReply DEF RightReply
  <2>11. QED
    BY <2>2, <2>8, <2>9, <2>10
<1>10. Served(c)'
  BY <1>2, <1>9 DEF Served, RightReply, ReplyText
<1>11. \A d \in 1..Len(replies') : Served(d)'
  <2>1. \A d \in 1..c : d \in 1..(c - 1) \/ d = c
    BY <1>4
  <2>2. QED
    BY <1>6, <1>8, <1>10, <2>1
<1>12. FromMessage(reads)' /\ Len(recvbuf') = Len(Text(conv'[reads'])) /\ reads' <= Len(conv')
       /\ Len(replies') = reads' /\ reads' > 0
  BY <1>2, <1>3, <1>4, <1>6 DEF FromMessage, Start
<1>13. PlainBody(conv'[reads'].body) => http'.method = Tail(conv'[reads'].path)
  BY <1>2, <1>3, <1>9
<1>14. QED
  BY <1>2, <1>11, <1>12, <1>13 DEF AlignedInv

\* The invariant holds always.
LEMMA SpecAlignedInv == Spec => [](PieceInv /\ AcceptInv /\ AlignedInv)
<1>1. Init => AcceptInv
  BY DEF Init, AcceptInv
<1>2. Init => AlignedInv
  <2>1. SUFFICES ASSUME Init PROVE AlignedInv
    OBVIOUS
  <2>2. pc = "idle" /\ reads = 0 /\ at = 0 /\ replies = << >> /\ conv \in Conversations
    BY <2>1 DEF Init
  <2>3. Len(conv) \in Nat /\ Len(replies) = 0
    BY <2>2, SentTypes
  <2>4. QED
    BY <2>2, <2>3 DEF AlignedInv
<1>3. PieceInv /\ AcceptInv /\ AlignedInv /\ [Next]_vars => AlignedInv'
  <2>1. ASSUME AlignedInv, UNCHANGED vars
        PROVE  AlignedInv'
    <3>1. /\ conv' = conv /\ at' = at /\ reads' = reads /\ aligned' = aligned /\ pc' = pc
          /\ recvbuf' = recvbuf /\ j' = j /\ http' = http /\ accepted' = accepted /\ replies' = replies
      BY <2>1 DEF vars
    <3>2. \A c : Served(c)' <=> Served(c)
      BY <3>1, ServedKept
    <3>3. FromMessage(reads)' <=> FromMessage(reads)
      BY <3>1 DEF FromMessage, Start
    <3>4. \A i : InHeader(conv[reads], i)' <=> InHeader(conv[reads], i)
      BY <3>1 DEF InHeader
    <3>5. QED
      BY <2>1, <3>1, <3>2, <3>3, <3>4 DEF AlignedInv
  <2>2. QED
    BY <2>1, AlignedRead, AlignedLine, AlignedFinish DEF Next
<1>4. PieceInv /\ AcceptInv /\ UNCHANGED vars => AcceptInv'
  BY WholeKept DEF vars, AcceptInv
<1>5. PieceInv /\ AcceptInv /\ [Next]_vars => AcceptInv'
  BY <1>4, AcceptRead, AcceptLine, AcceptFinish DEF Next
<1>6. QED
  BY <1>1, <1>2, <1>3, <1>5, PieceInvInit, PieceInvStep, PTL DEF Spec

\* For any conversations: as long as every read takes one message, every request is
\* answered, in order, with its own protocol and content type, its method is its
\* path, and of the plain bodies exactly those that are JSON are accepted.
THEOREM AlignedServedAlways == Spec => []AlignedServed
<1>1. PieceInv /\ AlignedInv => AlignedServed
  <2>1. SUFFICES ASSUME PieceInv, AlignedInv, aligned, pc = "idle"
                 PROVE  AlignedServed
    BY DEF AlignedServed
  <2>2. /\ Len(replies) = reads /\ \A c \in 1..reads : Served(c)
        /\ reads > 0 /\ PlainBody(conv[reads].body) => http.method = Tail(conv[reads].path)
        /\ reads \in Nat /\ DOMAIN accepted = 1..Len(accepted)
    BY <2>1 DEF AlignedInv, PieceInv
  <2>3. ASSUME NEW c \in 1..reads, PlainBody(conv[c].body)
        PROVE  LET right == \E a \in DOMAIN accepted : accepted[a] = Whole(c)
                   reply == set_output_http_info(ResultText(right), conv[c].protocol, ContentType(conv[c]))
               IN  /\ right <=> IsJson(conv[c].body)
                   /\ replies[c].text = reply.text \o <<"NUL">>
                   /\ c = reads => http.method = Tail(conv[c].path)
    <3> DEFINE right == \E a \in DOMAIN accepted : accepted[a] = Whole(c)
               m     == conv[c]
    <3>1. (right <=> IsJson(m.body)) /\ replies[c].text = RightReply(m)
      BY <2>2, <2>3 DEF Served, Known
    <3> HIDE DEF right
    <3>2. RightReply(m) = ReplyText(right, m.protocol, ContentType(m))
      BY <3>1, SameReply DEF RightReply
    <3>3. replies[c].text = ReplyText(right, m.protocol, ContentType(m))
      BY <3>1, <3>2
    <3>4. c = reads => http.method = Tail(m.path)
      BY <2>2, <2>3
    <3>5. QED
      BY <3>1, <3>3, <3>4, Zenon DEF right, ReplyText
  <2>4. QED
    BY <2>1, <2>2, <2>3, Zenon DEF AlignedServed
<1>2. QED
  BY <1>1, SpecAlignedInv, PTL
=============================================================================
