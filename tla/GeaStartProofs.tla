--------------------------- MODULE GeaStartProofs ---------------------------
(***************************************************************************)
(* Proofs about GeaStart, for any letters, libraries, sizes of the buffer  *)
(* and of argv, and inputs of any length.                                  *)
(***************************************************************************)
EXTENDS GeaStart, FiniteSetTheorems, FunctionTheorems, SequenceTheorems,
        WellFoundedInduction, TLAPS

-----------------------------------------------------------------------------
(* Positions. *)

LEMMA LeastNat ==
    ASSUME NEW S \in SUBSET Nat, S # {}
    PROVE  \E n \in S : \A m \in S : n <= m
<1> DEFINE R == {ss \in Nat \X Nat : ss[1] < ss[2]}
<1>1. IsWellFoundedOn(R, Nat)
  BY NatLessThanWellFounded DEF OpToRel
<1>2. PICK n \in S : \A m \in S : <<m, n>> \notin R
  BY <1>1, WFMin
<1>3. \A m \in S : n <= m
  <2> TAKE m \in S
  <2>1. m \in Nat /\ n \in Nat /\ <<m, n>> \in Nat \X Nat
    OBVIOUS
  <2>2. ~ (<<m, n>>[1] < <<m, n>>[2])
    BY <1>2, <2>1
  <2> QED
    BY <2>1, <2>2
<1> QED
  BY <1>3

\* A set of positions has a k-th smallest for every k up to its size.
LEMMA KthExists ==
    ASSUME NEW n \in Nat, NEW S \in SUBSET (1 .. n), NEW k \in 1 .. Cardinality(S)
    PROVE  /\ Kth(S, k) \in S
           /\ Cardinality({j \in S : j <= Kth(S, k)}) = k
<1> DEFINE Upto(m) == {j \in S : j <= m}
           W == {m \in Nat : Cardinality(Upto(m)) >= k}
<1>0. \A j \in S : j \in Nat /\ 0 < j /\ j <= n
  OBVIOUS
<1>1. IsFiniteSet(S)
  <2>1. IsFiniteSet(1 .. n)
    BY FS_Interval
  <2> QED
    BY <2>1, FS_Subset
<1>2. ASSUME NEW m \in Nat
      PROVE  IsFiniteSet(Upto(m)) /\ Cardinality(Upto(m)) \in Nat
  BY <1>1, FS_Subset, FS_CardinalityType
<1>3. k \in Nat /\ k > 0
  BY <1>1, FS_CardinalityType
<1>4. Upto(n) = S
  BY <1>0
<1>5. n \in W
  <2>1. Cardinality(S) >= k
    BY <1>1, FS_CardinalityType
  <2> QED
    BY <2>1, <1>4
<1>6. PICK m \in W : \A o \in W : m <= o
  BY <1>5, LeastNat
<1>7. Upto(0) = {}
  <2>1. \A j \in S : ~ (j <= 0)
    BY <1>0
  <2> QED
    BY <2>1
<1>8. m # 0
  <2>1. Cardinality(Upto(0)) = 0
    BY <1>7, FS_EmptySet
  <2> QED
    BY <2>1, <1>3
<1>9. m - 1 \in Nat /\ m \in Nat
  BY <1>8
<1>10. Cardinality(Upto(m - 1)) < k
  <2>1. m - 1 \notin W
    <3>1. ~ (m <= m - 1)
      BY <1>9
    <3> HIDE DEF W
    <3> QED
      BY <3>1, <1>6
  <2>2. ~ (Cardinality(Upto(m - 1)) >= k)
    BY <2>1, <1>9
  <2>3. Cardinality(Upto(m - 1)) \in Nat
    BY <1>2, <1>9
  <2> HIDE DEF Upto, W
  <2> QED
    BY <2>2, <2>3, <1>3
<1>11. m \in S
  <2> SUFFICES ASSUME m \notin S PROVE FALSE
    OBVIOUS
  <2>1. Upto(m) = Upto(m - 1)
    <3>1. \A j \in S : j <= m <=> j <= m - 1
      BY <1>0, <1>9
    <3> QED
      BY <3>1
  <2>2. Cardinality(Upto(m)) >= k
    BY <1>6
  <2>3. Cardinality(Upto(m - 1)) \in Nat
    BY <1>2, <1>9
  <2> HIDE DEF Upto, W
  <2> QED
    BY <2>1, <2>2, <2>3, <1>10, <1>3
<1>12. Upto(m) = Upto(m - 1) \cup {m}
  <2>1. \A j \in S : j <= m <=> j <= m - 1 \/ j = m
    BY <1>0, <1>9
  <2> QED
    BY <2>1, <1>11
<1>13. m \notin Upto(m - 1)
  BY <1>9
<1>14. Cardinality(Upto(m)) = Cardinality(Upto(m - 1)) + 1
  BY <1>2, <1>9, <1>12, <1>13, FS_AddElement
<1>15. Cardinality(Upto(m)) = k
  <2>1. Cardinality(Upto(m - 1)) \in Nat /\ Cardinality(Upto(m)) >= k
    BY <1>2, <1>9, <1>6
  <2> HIDE DEF Upto, W
  <2> QED
    BY <2>1, <1>14, <1>10, <1>3
<1> HIDE DEF W
<1> QED
  BY <1>11, <1>15 DEF Kth

\* The k-th smallest is the one with that many up to it.
LEMMA KthIs ==
    ASSUME NEW n \in Nat, NEW S \in SUBSET (1 .. n), NEW i \in S
    PROVE  /\ Cardinality({j \in S : j <= i}) \in 1 .. Cardinality(S)
           /\ Kth(S, Cardinality({j \in S : j <= i})) = i
<1> DEFINE Upto(m) == {j \in S : j <= m}
<1>1. IsFiniteSet(S)
  <2>1. IsFiniteSet(1 .. n)
    BY FS_Interval
  <2> QED
    BY <2>1, FS_Subset
<1>2. ASSUME NEW m \in Nat
      PROVE  /\ IsFiniteSet(Upto(m)) /\ Cardinality(Upto(m)) \in Nat
             /\ Cardinality(Upto(m)) <= Cardinality(S)
  BY <1>1, FS_Subset, FS_CardinalityType
<1>3. \A j \in S : j \in Nat
  OBVIOUS
<1>4. ASSUME NEW o \in S, NEW p \in S, o < p
      PROVE  Cardinality(Upto(o)) < Cardinality(Upto(p))
  <2>1. o \in Nat /\ p \in Nat
    BY <1>3
  <2>2. Upto(o) \cup {p} \subseteq Upto(p) /\ p \notin Upto(o)
    <3>1. \A j \in S : j <= o => j <= p
      BY <2>1, <1>3, <1>4
    <3>2. p <= p /\ ~ (p <= o)
      BY <2>1, <1>4
    <3> QED
      BY <3>1, <3>2
  <2>3. Cardinality(Upto(o) \cup {p}) = Cardinality(Upto(o)) + 1
    BY <1>2, <2>1, <2>2, FS_AddElement
  <2>4. Cardinality(Upto(o) \cup {p}) <= Cardinality(Upto(p))
    BY <1>2, <2>1, <2>2, FS_Subset
  <2>5. Cardinality(Upto(o)) \in Nat /\ Cardinality(Upto(p)) \in Nat
    BY <1>2, <2>1
  <2> HIDE DEF Upto
  <2> QED
    BY <2>3, <2>4, <2>5
<1>5. Cardinality(S) \in Nat
  BY <1>1, FS_CardinalityType
<1>6. Cardinality(Upto(i)) \in 1 .. Cardinality(S)
  <2>1. i \in Upto(i) /\ i \in Nat
    BY <1>3
  <2>2. Cardinality(Upto(i)) # 0
    BY <2>1, <1>2, FS_EmptySet
  <2>3. Cardinality(Upto(i)) \in Nat /\ Cardinality(Upto(i)) <= Cardinality(S)
    BY <2>1, <1>2
  <2> HIDE DEF Upto
  <2> QED
    BY <2>2, <2>3, <1>5
<1>7. \A o \in S : Cardinality(Upto(o)) = Cardinality(Upto(i)) => o = i
  <2> TAKE o \in S
  <2>1. o \in Nat /\ i \in Nat
    BY <1>3
  <2>2. Cardinality(Upto(o)) \in Nat /\ Cardinality(Upto(i)) \in Nat
    BY <2>1, <1>2
  <2>3. o < i => Cardinality(Upto(o)) < Cardinality(Upto(i))
    BY <1>4
  <2>4. i < o => Cardinality(Upto(i)) < Cardinality(Upto(o))
    BY <1>4
  <2> HIDE DEF Upto
  <2> QED
    BY <2>1, <2>2, <2>3, <2>4
<1>8. Kth(S, Cardinality(Upto(i))) = i
  BY <1>7 DEF Kth
<1> QED
  BY <1>6, <1>8

LEMMA ShiftSet ==
    ASSUME NEW T \in SUBSET Nat, IsFiniteSet(T), NEW k \in Nat
    PROVE  /\ IsFiniteSet({k + i : i \in T})
           /\ Cardinality({k + i : i \in T}) = Cardinality(T)
<1> DEFINE U == {k + i : i \in T}
           f == [i \in T |-> k + i]
<1>1. f \in [T -> U]
  OBVIOUS
<1>2. \A i, j \in T : f[i] = f[j] => i = j
  <2> TAKE i, j \in T
  <2>1. i \in Nat /\ j \in Nat /\ f[i] = k + i /\ f[j] = k + j
    OBVIOUS
  <2> HIDE DEF f
  <2> QED
    BY <2>1
<1>3. \A u \in U : \E i \in T : f[i] = u
  OBVIOUS
<1>4. f \in Bijection(T, U)
  <2> HIDE DEF f, U
  <2> QED
    BY <1>1, <1>2, <1>3, Fun_IsBij
<1>5. ExistsBijection(T, U)
  BY <1>4 DEF ExistsBijection
<1> QED
  BY <1>5, FS_Bijection

LEMMA SizeOfTwo ==
    ASSUME NEW k \in Nat, NEW A \in SUBSET (1 .. k), IsFiniteSet(A),
           NEW T \in SUBSET (Nat \ {0}), IsFiniteSet(T)
    PROVE  Cardinality(A \cup {k + i : i \in T}) = Cardinality(A) + Cardinality(T)
<1> DEFINE Moved == {k + i : i \in T}
<1>1. T \in SUBSET Nat
  OBVIOUS
<1>2. IsFiniteSet(Moved) /\ Cardinality(Moved) = Cardinality(T)
  BY <1>1, ShiftSet
<1>3. A \cap Moved = {}
  <2> SUFFICES ASSUME NEW x \in A, x \in Moved PROVE FALSE
    OBVIOUS
  <2>1. PICK i \in T : x = k + i
    OBVIOUS
  <2>2. i \in Nat /\ i > 0 /\ x <= k
    OBVIOUS
  <2> QED
    BY <2>1, <2>2
<1>4. Cardinality(A \cap Moved) = 0
  BY <1>3, FS_EmptySet
<1>5. Cardinality(A) \in Nat /\ Cardinality(T) \in Nat
  BY FS_CardinalityType
<1> HIDE DEF Moved
<1>6. Cardinality(A \cup Moved)
        = Cardinality(A) + Cardinality(Moved) - Cardinality(A \cap Moved)
  BY <1>2, FS_Union
<1>7. Cardinality(A \cup Moved) = Cardinality(A) + Cardinality(T)
  BY <1>2, <1>4, <1>5, <1>6
<1> QED
  BY <1>7 DEF Moved

\* S has the positions in A, which are up to k, and behind them those in B.
Joined(S, A, k, B, n) ==
    /\ k \in Nat /\ n \in Nat /\ A \subseteq 1 .. k /\ B \subseteq 1 .. n
    /\ S = A \cup {k + i : i \in B}

\* Of two sets, one behind the other, the smallest are those of the first.
LEMMA KthOfTwo ==
    ASSUME NEW S, NEW A, NEW k, NEW B, NEW n, Joined(S, A, k, B, n)
    PROVE  /\ Cardinality(A) \in Nat /\ Cardinality(B) \in Nat
           /\ Cardinality(S) = Cardinality(A) + Cardinality(B)
           /\ \A j \in 1 .. Cardinality(A) : Kth(S, j) = Kth(A, j)
           /\ \A j \in 1 .. Cardinality(B) :
                Kth(S, Cardinality(A) + j) = k + Kth(B, j)
<1> DEFINE Moved(T) == {k + i : i \in T}
<1>0. /\ S = A \cup Moved(B) /\ k \in Nat /\ n \in Nat
      /\ A \in SUBSET (1 .. k) /\ B \in SUBSET (1 .. n)
  BY DEF Joined
<1>1. IsFiniteSet(A) /\ IsFiniteSet(B)
  <2>1. IsFiniteSet(1 .. k) /\ IsFiniteSet(1 .. n)
    BY <1>0, FS_Interval
  <2> QED
    BY <1>0, <2>1, FS_Subset
<1>2. Cardinality(A) \in Nat /\ Cardinality(B) \in Nat
  BY <1>1, FS_CardinalityType
<1>3. ASSUME NEW T \in SUBSET B
      PROVE  Cardinality(A \cup Moved(T)) = Cardinality(A) + Cardinality(T)
  <2>1. IsFiniteSet(T)
    BY <1>0, <1>1, FS_Subset
  <2>2. T \in SUBSET (Nat \ {0})
    <3>1. \A i \in B : i \in Nat \ {0}
      BY <1>0
    <3> QED
      BY <3>1
  <2> QED
    BY <2>1, <2>2, <1>0, <1>1, SizeOfTwo
<1>4. Cardinality(S) = Cardinality(A) + Cardinality(B)
  BY <1>0, <1>3
<1>5. S \in SUBSET (1 .. k + n)
  <2>1. \A i \in A : i \in 1 .. k + n
    BY <1>0
  <2>2. \A i \in B : k + i \in 1 .. k + n
    BY <1>0
  <2> QED
    BY <1>0, <2>1, <2>2
<1>6. ASSUME NEW j \in 1 .. Cardinality(A)
      PROVE  Kth(S, j) = Kth(A, j)
  <2> DEFINE x == Kth(A, j)
  <2>1. x \in A /\ Cardinality({o \in A : o <= x}) = j
    BY <1>0, KthExists
  <2> HIDE DEF x
  <2>2. {o \in S : o <= x} = {o \in A : o <= x}
    <3>1. \A i \in B : ~ (k + i <= x)
      BY <2>1, <1>0
    <3> QED
      BY <3>1, <1>0
  <2>3. k + n \in Nat /\ x \in S
    BY <2>1, <1>0
  <2>4. Kth(S, Cardinality({o \in S : o <= x})) = x
    BY <2>3, <1>5, KthIs
  <2> QED
    BY <2>1, <2>2, <2>4 DEF x
<1>7. ASSUME NEW j \in 1 .. Cardinality(B)
      PROVE  Kth(S, Cardinality(A) + j) = k + Kth(B, j)
  <2> DEFINE x == Kth(B, j)
             T == {o \in B : o <= x}
  <2>1. x \in B /\ Cardinality(T) = j
    BY <1>0, KthExists
  <2> HIDE DEF x
  <2>2. {o \in S : o <= k + x} = A \cup Moved(T)
    <3>1. x \in Nat /\ \A o \in A : o <= k + x
      BY <2>1, <1>0
    <3>2. \A i \in B : k + i <= k + x <=> i <= x
      BY <3>1, <1>0
    <3> QED
      BY <3>1, <3>2, <1>0
  <2>3. Cardinality({o \in S : o <= k + x}) = Cardinality(A) + j
    BY <2>1, <2>2, <1>3
  <2>4. k + n \in Nat /\ k + x \in S
    BY <2>1, <1>0
  <2>5. Kth(S, Cardinality({o \in S : o <= k + x})) = k + x
    BY <2>4, <1>5, KthIs
  <2> QED
    BY <2>3, <2>5 DEF x
<1> QED
  BY <1>2, <1>4, <1>6, <1>7

\* A word that begins somewhere ends somewhere.
LEMMA WordEndExists ==
    ASSUME NEW cmd \in Seq(Char), NEW i \in InWord(cmd)
    PROVE  WordEnd(cmd, i) \in InWord(cmd) /\ i <= WordEnd(cmd, i)
<1> DEFINE W == {j \in i .. Len(cmd) : j + 1 \notin InWord(cmd)}
<1>1. Len(cmd) \in Nat /\ i \in 1 .. Len(cmd) /\ InWord(cmd) \subseteq 1 .. Len(cmd)
  BY DEF InWord
<1>2. Len(cmd) \in W
  BY <1>1
<1>3. PICK j \in W : \A o \in W : j <= o
  <2>1. W \in SUBSET Nat /\ W # {}
    BY <1>1, <1>2
  <2> HIDE DEF W
  <2> QED
    BY <2>1, LeastNat
<1>4. i .. j \subseteq InWord(cmd)
  <2> SUFFICES ASSUME \E p \in i .. j : p \notin InWord(cmd) PROVE FALSE
    OBVIOUS
  <2> DEFINE V == {p \in i .. j : p \notin InWord(cmd)}
  <2>1. V # {} /\ V \in SUBSET Nat
    BY <1>1
  <2>2. PICK p \in V : \A o \in V : p <= o
    BY <2>1, LeastNat
  <2>3. p # i /\ p - 1 \in i .. Len(cmd) /\ p - 1 < j
    BY <1>1
  <2>4. p - 1 \in W
    <3>1. p \notin InWord(cmd) /\ p - 1 + 1 = p
      BY <1>1
    <3> QED
      BY <3>1, <2>3
  <2> QED
    <3>1. j <= p - 1
      <4> HIDE DEF W
      <4> QED
        BY <2>4, <1>3
    <3>2. j \in Nat
      BY <1>1
    <3> QED
      BY <3>1, <3>2, <2>3, <1>1
<1>5. j \in InWord(cmd) /\ i <= j
  BY <1>1, <1>4
<1> QED
  BY <1>3, <1>4, <1>5 DEF WordEnd

\* The words of a command are strings of the command's characters.
LEMMA WordsType ==
    ASSUME NEW cmd \in Seq(Char)
    PROVE  Words(cmd) \in Seq(Seq(Char))
<1> DEFINE S == WordStarts(cmd)
           word(k) == SubSeq(cmd, Kth(S, k), WordEnd(cmd, Kth(S, k)))
<1>1. Len(cmd) \in Nat /\ S \in SUBSET (1 .. Len(cmd)) /\ S \subseteq InWord(cmd)
      /\ InWord(cmd) \subseteq 1 .. Len(cmd)
  BY DEF InWord, WordStarts
<1>2. Cardinality(S) \in Nat
  <2>1. IsFiniteSet(1 .. Len(cmd))
    BY <1>1, FS_Interval
  <2> QED
    BY <2>1, <1>1, FS_Subset, FS_CardinalityType
<1>3. ASSUME NEW k \in 1 .. Cardinality(S)
      PROVE  word(k) \in Seq(Char)
  <2>1. Kth(S, k) \in InWord(cmd)
    BY <1>1, KthExists
  <2>2. WordEnd(cmd, Kth(S, k)) \in InWord(cmd)
    BY <2>1, WordEndExists
  <2>3. \A p \in Kth(S, k) .. WordEnd(cmd, Kth(S, k)) : cmd[p] \in Char
    BY <2>1, <2>2, <1>1, ElementOfSeq
  <2> QED
    BY <2>1, <2>2, <2>3, <1>1, SubSeqProperties
<1>4. Words(cmd) = [k \in 1 .. Cardinality(S) |-> word(k)]
  BY DEF Words
<1>5. Words(cmd) \in [1 .. Cardinality(S) -> Seq(Char)]
  BY <1>3, <1>4
<1> QED
  BY <1>2, <1>5, SeqDef

LEMMA FirstEndExists ==
    ASSUME NEW s \in Seq(Char), Ends(s) # {}
    PROVE  FirstEnd(s) \in Ends(s) /\ \A i \in Ends(s) : FirstEnd(s) <= i
<1>1. Ends(s) \in SUBSET Nat
  BY DEF Ends
<1> QED
  BY <1>1, LeastNat DEF FirstEnd

-----------------------------------------------------------------------------
(* Types. *)

\* What main() has not begun to read is empty.
MainEmpty == pc = "main" => line = <<>> /\ ~ eof

\* When the reader has ended, no whole command is left in line.
DoneEmpty == pc = "done" => Ends(line) = {}

Typed == TypeOK /\ MainEmpty /\ DoneEmpty

LEMMA CharTypes == Delimiter \in Char /\ Char # {}
BY DEF Char

LEMMA NoEndsInNothing == Ends(<<>>) = {}
BY DEF Ends

LEMMA TypedInit == Init => Typed
<1> SUFFICES ASSUME Init PROVE Typed
  OBVIOUS
<1>1. <<>> \in Seq(Char) /\ <<>> \in Seq(Seq(Seq(Char))) /\ Len(<<>>) = 0
  OBVIOUS
<1>2. taken \in 0 .. Len(input)
  BY <1>1 DEF Init
<1>3. /\ input \in Seq(Char) /\ line \in Seq(Char)
      /\ executed \in Seq(Seq(Seq(Char)))
  BY <1>1 DEF Init
<1>4. ended \in BOOLEAN /\ eof \in BOOLEAN /\ ~ eof
  BY DEF Init
<1> QED
  BY <1>2, <1>3, <1>4 DEF Init, Typed, TypeOK, MainEmpty, DoneEmpty, PC

LEMMA CommandType ==
    ASSUME Typed, Ends(line) # {}
    PROVE  /\ Command \in Seq(Char)
           /\ FirstEnd(line) \in 1 .. Len(line)
           /\ Rest(line, FirstEnd(line)) \in Seq(Char)
<1>1. line \in Seq(Char) /\ Len(line) \in Nat
  BY DEF Typed, TypeOK
<1>2. FirstEnd(line) \in 1 .. Len(line)
  BY <1>1, FirstEndExists DEF Ends
<1>3. \A i \in 1 .. Len(line) : line[i] \in Char
  BY <1>1, ElementOfSeq
<1>4. Command \in Seq(Char)
  BY <1>1, <1>2, <1>3, SubSeqProperties DEF Command
<1>5. Rest(line, FirstEnd(line)) \in Seq(Char)
  BY <1>1, <1>2, <1>3, SubSeqProperties DEF Rest
<1> QED
  BY <1>2, <1>4, <1>5

LEMMA PieceSize == 1 .. BufSize \subseteq Nat
<1>1. BufSize \in Nat
  BY StartAssumption
<1> QED
  BY <1>1

LEMMA TypedNext == Typed /\ [Next]_vars => Typed'
<1> SUFFICES ASSUME Typed, [Next]_vars PROVE Typed'
  OBVIOUS
<1>0. /\ input \in Seq(Char) /\ line \in Seq(Char)
      /\ Len(input) \in Nat /\ taken \in Nat /\ taken <= Len(input)
  BY DEF Typed, TypeOK
<1> USE DEF Typed, TypeOK, MainEmpty, DoneEmpty, PC
<1>1. CASE Interactive
  BY <1>1, NoEndsInNothing DEF Interactive
<1>2. CASE NotInteractive
  BY <1>2, NoEndsInNothing DEF NotInteractive
<1>3. CASE CallReady
  BY <1>3 DEF CallReady
<1>4. CASE CallTimeout
  BY <1>4 DEF CallTimeout
<1>5. CASE WaitAgain
  BY <1>5 DEF WaitAgain
<1>6. ASSUME NEW n \in 1 .. BufSize, Read(n) PROVE Typed'
  <2>1. n \in Nat /\ taken \in Nat /\ Len(input) \in Nat /\ taken + n <= Len(input)
    BY <1>0, <1>6, PieceSize DEF Read
  <2>2. \A i \in taken + 1 .. taken + n : input[i] \in Char
    BY <2>1, ElementOfSeq
  <2>3. SubSeq(input, taken + 1, taken + n) \in Seq(Char)
    BY <2>1, <2>2, SubSeqProperties
  <2>4. line' \in Seq(Char)
    BY <1>0, <1>6, <2>3, ConcatProperties DEF Read, Appended
  <2>5. taken' \in 0 .. Len(input')
    BY <1>6, <2>1 DEF Read
  <2> QED
    BY <1>6, <2>4, <2>5 DEF Read
<1>7. CASE ReadEnd
  <2>1. line' \in Seq(Char)
    <3>1. <<Delimiter>> \in Seq(Char)
      BY CharTypes
    <3> QED
      BY <1>7, <3>1, ConcatProperties DEF ReadEnd, AtEnd, Appended
  <2> QED
    BY <1>7, <2>1 DEF ReadEnd
<1>8. CASE Split
  <2>1. Command \in Seq(Char) /\ line' \in Seq(Char)
    BY <1>8, CommandType DEF Split
  <2>2. executed' \in Seq(Seq(Seq(Char)))
    BY <1>8, <2>1, WordsType, AppendProperties DEF Split
  <2> QED
    BY <1>8, <2>1, <2>2 DEF Split
<1>9. CASE Overrun
  BY <1>9 DEF Overrun
<1>10. CASE SplitDone
  BY <1>10 DEF SplitDone, AfterLoop
<1>11. ASSUME NEW c \in Char, Type(c) PROVE Typed'
  <2>1. input' \in Seq(Char) /\ Len(input') = Len(input) + 1
    BY <1>11, AppendProperties DEF Type
  <2>2. taken \in Nat /\ Len(input) \in Nat
    OBVIOUS
  <2> QED
    BY <1>11, <2>1, <2>2 DEF Type
<1>12. CASE End
  BY <1>12 DEF End
<1>13. CASE UNCHANGED vars
  BY <1>13 DEF vars
<1> QED
  BY <1>1, <1>2, <1>3, <1>4, <1>5, <1>6, <1>7, <1>8, <1>9, <1>10, <1>11, <1>12, <1>13
  DEF Next, NewInput, Terminated

\* Whatever is typed, and however it is cut into pieces, the variables keep
\* their types, and new_input() waits with no whole command left in line.
THEOREM TypeCorrect == Spec => []TypeOK
<1>1. Init => Typed
  BY TypedInit
<1>2. Typed /\ [Next]_vars => Typed'
  BY TypedNext
<1>3. Typed => TypeOK
  BY DEF Typed
<1> QED
  BY <1>1, <1>2, <1>3, PTL DEF Spec

-----------------------------------------------------------------------------
(* Texts.  A whole text ends in a delimiter; what follows it does not      *)
(* change its commands, and it does not change those that follow.          *)

IsWhole(d) == d = <<>> \/ Len(d) \in Ends(d)

LEMMA EndsType ==
    ASSUME NEW s \in Seq(Char)
    PROVE  /\ Len(s) \in Nat /\ Ends(s) \in SUBSET (1 .. Len(s))
           /\ Ends(s) \in SUBSET Nat
BY DEF Ends

LEMMA EndsOfFirst ==
    ASSUME NEW d \in Seq(Char), NEW s \in Seq(Char), NEW i \in 1 .. Len(d)
    PROVE  i \in Ends(d \o s) <=> i \in Ends(d)
<1>1. /\ Len(d) \in Nat /\ Len(s) \in Nat /\ Len(d \o s) = Len(d) + Len(s)
      /\ \A j \in 1 .. Len(d) + Len(s) :
           (d \o s)[j] = IF j <= Len(d) THEN d[j] ELSE s[j - Len(d)]
  BY ConcatProperties
<1>2. \A j \in 1 .. i : j \in 1 .. Len(d) + Len(s) /\ j <= Len(d)
  BY <1>1
<1>3. \A j \in 1 .. i : (d \o s)[j] = d[j]
  BY <1>1, <1>2
<1>4. i \in 1 .. i /\ i \in 1 .. Len(d \o s)
  BY <1>1
<1> QED
  BY <1>3, <1>4 DEF Ends

LEMMA EndsOfSecond ==
    ASSUME NEW d \in Seq(Char), NEW s \in Seq(Char), IsWhole(d), NEW i \in 1 .. Len(s)
    PROVE  Len(d) + i \in Ends(d \o s) <=> i \in Ends(s)
<1> DEFINE t == d \o s
           k == Len(d)
<1>1. /\ k \in Nat /\ Len(s) \in Nat /\ Len(t) = k + Len(s)
      /\ \A j \in 1 .. k + Len(s) :
           t[j] = IF j <= k THEN d[j] ELSE s[j - k]
  BY ConcatProperties
<1> HIDE DEF t
<1>2. \A j \in 1 .. k : d[j] # Zero
  BY DEF IsWhole, Ends
<1> HIDE DEF k
<1>3. \A j \in 1 .. k : t[j] # Zero
  <2> TAKE j \in 1 .. k
  <2>1. j \in 1 .. k + Len(s) /\ j <= k
    BY <1>1
  <2> QED
    BY <2>1, <1>1, <1>2
<1>4. \A j \in 1 .. i : t[k + j] = s[j]
  <2> TAKE j \in 1 .. i
  <2>1. k + j \in 1 .. k + Len(s) /\ ~ (k + j <= k) /\ k + j - k = j
    BY <1>1
  <2> QED
    BY <2>1, <1>1
<1>5. k + i \in 1 .. Len(t) /\ i \in 1 .. i
  BY <1>1
<1>6. (\A j \in 1 .. k + i : t[j] # Zero) <=> (\A j \in 1 .. i : s[j] # Zero)
  <2>1. ASSUME \A j \in 1 .. k + i : t[j] # Zero, NEW j \in 1 .. i
        PROVE  s[j] # Zero
    <3>1. k + j \in 1 .. k + i
      BY <1>1
    <3> QED
      BY <3>1, <2>1, <1>4
  <2>2. ASSUME \A j \in 1 .. i : s[j] # Zero, NEW j \in 1 .. k + i
        PROVE  t[j] # Zero
    <3>1. CASE j <= k
      <4>1. j \in 1 .. k
        BY <3>1, <1>1
      <4> QED
        BY <4>1, <1>3
    <3>2. CASE j > k
      <4>1. j - k \in 1 .. i /\ k + (j - k) = j
        BY <3>2, <1>1
      <4> QED
        BY <4>1, <2>2, <1>4
    <3> QED
      BY <3>1, <3>2, <1>1
  <2> QED
    BY <2>1, <2>2
<1> QED
  BY <1>4, <1>5, <1>6 DEF Ends, t, k

\* Every end has a delimiter, or nothing, before it.
LEMMA StartExists ==
    ASSUME NEW s \in Seq(Char), NEW e \in Ends(s)
    PROVE  Start(s, e) \in 0 .. e - 1 /\ Between(s, Start(s, e), e)
<1> DEFINE before == {i \in Ends(s) : i < e}
           dist == {e - i : i \in before}
<1>1. e \in Nat /\ e > 0 /\ \A i \in Ends(s) : i \in Nat /\ i > 0
  BY EndsType
<1>2. CASE before = {}
  <2>1. \A i \in Ends(s) : e <= i
    BY <1>1, <1>2
  <2>2. Between(s, 0, e) /\ 0 \in 0 .. e - 1
    BY <2>1, <1>1 DEF Between
  <2> QED
    BY <2>2 DEF Start
<1>3. CASE before # {}
  <2>1. dist # {} /\ dist \in SUBSET Nat
    <3>1. \A i \in before : e - i \in Nat
      BY <1>1
    <3> QED
      BY <3>1, <1>3
  <2>2. PICK n \in dist : \A o \in dist : n <= o
    BY <2>1, LeastNat
  <2>3. PICK b \in before : n = e - b
    BY <2>2
  <2>4. \A i \in before : i <= b
    <3> TAKE i \in before
    <3>1. e - i \in dist
      OBVIOUS
    <3>2. e - b <= e - i
      BY <3>1, <2>2, <2>3
    <3>3. i \in Nat /\ b \in Nat
      BY <1>1
    <3> QED
      BY <3>2, <3>3, <1>1
  <2>5. \A i \in Ends(s) : b < i => e <= i
    <3> TAKE i \in Ends(s)
    <3>1. i < e => i \in before
      OBVIOUS
    <3>2. i \in Nat /\ b \in Nat
      BY <1>1
    <3> QED
      BY <3>1, <3>2, <2>4, <1>1
  <2>6. b \in Ends(s) /\ b \in 0 .. e - 1
    BY <1>1
  <2>7. Between(s, b, e)
    BY <2>5, <2>6 DEF Between
  <2> QED
    BY <2>6, <2>7 DEF Start
<1> QED
  BY <1>2, <1>3

LEMMA StartIs ==
    ASSUME NEW s \in Seq(Char), NEW e \in Ends(s), NEW b \in 0 .. e - 1, Between(s, b, e)
    PROVE  Start(s, e) = b
<1> DEFINE c == Start(s, e)
<1>1. c \in 0 .. e - 1 /\ Between(s, c, e)
  BY StartExists
<1> HIDE DEF c
<1>2. e \in Nat
  BY EndsType
<1>3. ~ (b < c)
  <2> SUFFICES ASSUME b < c PROVE FALSE
    OBVIOUS
  <2>1. c \in Ends(s)
    BY <1>1, <1>2 DEF Between
  <2> QED
    BY <2>1, <1>1, <1>2 DEF Between
<1>4. ~ (c < b)
  <2> SUFFICES ASSUME c < b PROVE FALSE
    OBVIOUS
  <2>1. b \in Ends(s)
    BY <1>1, <1>2 DEF Between
  <2> QED
    BY <2>1, <1>1, <1>2 DEF Between
<1> QED
  BY <1>1, <1>2, <1>3, <1>4 DEF c

LEMMA CommandAtType ==
    ASSUME NEW s \in Seq(Char), NEW e \in Ends(s)
    PROVE  CommandAt(s, e) \in Seq(Char)
<1>1. e \in 1 .. Len(s) /\ Start(s, e) \in 0 .. e - 1 /\ Len(s) \in Nat
  BY EndsType, StartExists
<1>2. \A i \in Start(s, e) + 1 .. e - 1 : s[i] \in Char
  BY <1>1, ElementOfSeq
<1>3. Start(s, e) + 1 \in Int /\ e - 1 \in Int
  BY <1>1
<1> QED
  BY <1>2, <1>3, SubSeqProperties DEF CommandAt

\* The same stretch of two strings.
LEMMA SameStretch ==
    ASSUME NEW s \in Seq(Char), NEW t \in Seq(Char), NEW k \in Nat,
           NEW a \in Nat \ {0}, NEW b \in Nat, b <= Len(s), k + b <= Len(t),
           \A i \in 1 .. Len(s) : k + i <= Len(t) => t[k + i] = s[i]
    PROVE  SubSeq(t, k + a, k + b) = SubSeq(s, a, b)
<1>1. Len(s) \in Nat /\ Len(t) \in Nat
  OBVIOUS
<1>2. \A i \in a .. b : i \in 1 .. Len(s) /\ k + i \in 1 .. Len(t)
  BY <1>1
<1>3. \A i \in a .. b : s[i] \in Char /\ t[k + i] = s[i]
  BY <1>2, ElementOfSeq
<1>4. \A i \in k + a .. k + b : i - k \in a .. b /\ k + (i - k) = i
  OBVIOUS
<1>5. \A i \in k + a .. k + b : t[i] \in Char
  BY <1>3, <1>4
<1>6. /\ SubSeq(s, a, b) \in Seq(Char)
      /\ Len(SubSeq(s, a, b)) = IF a <= b THEN b - a + 1 ELSE 0
      /\ \A i \in 1 .. b - a + 1 : SubSeq(s, a, b)[i] = s[a + i - 1]
  BY <1>3, SubSeqProperties
<1>7. /\ SubSeq(t, k + a, k + b) \in Seq(Char)
      /\ Len(SubSeq(t, k + a, k + b)) =
           IF k + a <= k + b THEN k + b - (k + a) + 1 ELSE 0
      /\ \A i \in 1 .. k + b - (k + a) + 1 :
           SubSeq(t, k + a, k + b)[i] = t[k + a + i - 1]
  BY <1>5, SubSeqProperties
<1>8. Len(SubSeq(t, k + a, k + b)) = Len(SubSeq(s, a, b))
  <2>1. (k + a <= k + b) = (a <= b) /\ k + b - (k + a) + 1 = b - a + 1
    OBVIOUS
  <2> QED
    BY <2>1, <1>6, <1>7
<1>9. \A i \in 1 .. Len(SubSeq(t, k + a, k + b)) :
        SubSeq(t, k + a, k + b)[i] = SubSeq(s, a, b)[i]
  <2> TAKE i \in 1 .. Len(SubSeq(t, k + a, k + b))
  <2>1. i \in 1 .. b - a + 1 /\ i \in 1 .. k + b - (k + a) + 1
    BY <1>6, <1>8
  <2>2. a + i - 1 \in a .. b /\ k + a + i - 1 = k + (a + i - 1)
    BY <2>1
  <2> QED
    BY <2>1, <2>2, <1>3, <1>6, <1>7
<1> QED
  BY <1>6, <1>7, <1>8, <1>9, SeqEqual

LEMMA CommandOfFirst ==
    ASSUME NEW d \in Seq(Char), NEW s \in Seq(Char), NEW e \in Ends(d)
    PROVE  e \in Ends(d \o s) /\ CommandAt(d \o s, e) = CommandAt(d, e)
<1> DEFINE t == d \o s
           b == Start(d, e)
<1>1. /\ t \in Seq(Char) /\ Len(d) \in Nat /\ Len(s) \in Nat
      /\ Len(t) = Len(d) + Len(s)
      /\ \A j \in 1 .. Len(d) + Len(s) :
           t[j] = IF j <= Len(d) THEN d[j] ELSE s[j - Len(d)]
  BY ConcatProperties
<1>2. /\ e \in 1 .. Len(d) /\ b \in 0 .. e - 1 /\ Between(d, b, e)
      /\ Ends(t) \in SUBSET Nat
  BY <1>1, EndsType, StartExists
<1>3. \A i \in 1 .. Len(d) : i \in Ends(t) <=> i \in Ends(d)
  BY EndsOfFirst
<1> HIDE DEF t, b
<1>4. Between(t, b, e)
  <2>1. b = 0 \/ b \in Ends(t)
    <3>1. b # 0 => b \in 1 .. Len(d)
      BY <1>1, <1>2
    <3> QED
      BY <3>1, <1>2, <1>3 DEF Between
  <2>2. ASSUME NEW i \in Ends(t), b < i PROVE e <= i
    <3>1. i \in Nat /\ b \in Nat
      BY <1>2
    <3>2. CASE i <= Len(d)
      <4>1. i \in 1 .. Len(d)
        BY <3>1, <3>2, <2>2, <1>2
      <4>2. i \in Ends(d)
        BY <4>1, <1>3
      <4> QED
        BY <4>2, <2>2, <1>2 DEF Between
    <3>3. CASE i > Len(d)
      BY <3>1, <3>3, <1>1, <1>2
    <3> QED
      BY <3>1, <3>2, <3>3, <1>1
  <2> QED
    BY <2>1, <2>2 DEF Between
<1>5. e \in Ends(t)
  BY <1>2, <1>3
<1>6. Start(t, e) = b
  BY <1>1, <1>2, <1>4, <1>5, StartIs
<1>7. SubSeq(t, b + 1, e - 1) = SubSeq(d, b + 1, e - 1)
  <2>1. \A i \in 1 .. Len(d) : 0 + i <= Len(t) => t[0 + i] = d[i]
    <3> TAKE i \in 1 .. Len(d)
    <3>1. i \in 1 .. Len(d) + Len(s) /\ i <= Len(d) /\ 0 + i = i
      BY <1>1
    <3> QED
      BY <3>1, <1>1
  <2>2. /\ b + 1 \in Nat \ {0} /\ e - 1 \in Nat /\ e - 1 <= Len(d)
        /\ 0 + (e - 1) <= Len(t)
        /\ 0 + (b + 1) = b + 1 /\ 0 + (e - 1) = e - 1
    BY <1>1, <1>2
  <2>3. SubSeq(t, 0 + (b + 1), 0 + (e - 1)) = SubSeq(d, b + 1, e - 1)
    BY <2>1, <2>2, <1>1, SameStretch
  <2> QED
    BY <2>2, <2>3
<1> QED
  BY <1>5, <1>6, <1>7 DEF CommandAt, t, b

LEMMA CommandOfSecond ==
    ASSUME NEW d \in Seq(Char), NEW s \in Seq(Char), IsWhole(d), NEW e \in Ends(s)
    PROVE  /\ Len(d) + e \in Ends(d \o s)
           /\ CommandAt(d \o s, Len(d) + e) = CommandAt(s, e)
<1> DEFINE t == d \o s
           k == Len(d)
           b == Start(s, e)
<1>1. /\ t \in Seq(Char) /\ k \in Nat /\ Len(s) \in Nat /\ Len(t) = k + Len(s)
      /\ \A j \in 1 .. k + Len(s) : t[j] = IF j <= k THEN d[j] ELSE s[j - k]
  BY ConcatProperties
<1>2. /\ e \in 1 .. Len(s) /\ b \in 0 .. e - 1 /\ Between(s, b, e)
      /\ Ends(t) \in SUBSET (1 .. Len(t))
  BY <1>1, EndsType, StartExists
<1>3. \A i \in 1 .. Len(s) : k + i \in Ends(t) <=> i \in Ends(s)
  BY EndsOfSecond
<1>4. k = 0 \/ k \in Ends(t)
  <2>1. CASE d = <<>>
    BY <2>1
  <2>2. CASE k \in Ends(d)
    <3>1. k \in 1 .. Len(d)
      BY <2>2, EndsType
    <3> QED
      BY <3>1, <2>2, EndsOfFirst
  <2> QED
    BY <2>1, <2>2 DEF IsWhole
<1> HIDE DEF t, b, k
<1>5. Between(t, k + b, k + e)
  <2>1. k + b = 0 \/ k + b \in Ends(t)
    <3>1. CASE b = 0
      BY <3>1, <1>1, <1>4
    <3>2. CASE b # 0
      <4>1. b \in Ends(s)
        BY <3>2, <1>2 DEF Between
      <4>2. b \in 1 .. Len(s)
        BY <4>1, EndsType
      <4> QED
        BY <4>1, <4>2, <1>3
    <3> QED
      BY <3>1, <3>2
  <2>2. ASSUME NEW i \in Ends(t), k + b < i PROVE k + e <= i
    <3>1. i \in 1 .. k + Len(s) /\ b \in Nat /\ e \in Nat
      BY <1>1, <1>2
    <3>2. i - k \in 1 .. Len(s) /\ k + (i - k) = i /\ b < i - k
      BY <3>1, <2>2, <1>1
    <3>3. i - k \in Ends(s)
      BY <3>2, <1>3
    <3>4. e <= i - k
      BY <3>2, <3>3, <1>2 DEF Between
    <3> QED
      BY <3>1, <3>2, <3>4, <1>1
  <2> QED
    BY <2>1, <2>2 DEF Between
<1>6. k + e \in Ends(t)
  BY <1>2, <1>3, EndsType
<1>7. k + b \in 0 .. (k + e) - 1
  BY <1>1, <1>2
<1>8. Start(t, k + e) = k + b
  BY <1>1, <1>5, <1>6, <1>7, StartIs
<1> DEFINE p == b + 1
           q == e - 1
<1>9. SubSeq(t, k + p, k + q) = SubSeq(s, p, q)
  <2>1. \A i \in 1 .. Len(s) : k + i <= Len(t) => t[k + i] = s[i]
    <3> TAKE i \in 1 .. Len(s)
    <3>1. k + i \in 1 .. k + Len(s) /\ ~ (k + i <= k) /\ k + i - k = i
      BY <1>1
    <3> QED
      BY <3>1, <1>1
  <2>2. p \in Nat \ {0} /\ q \in Nat /\ q <= Len(s) /\ k + q <= Len(t)
    BY <1>1, <1>2
  <2> HIDE DEF p, q
  <2> QED
    BY <2>1, <2>2, <1>1, SameStretch
<1> DEFINE x == k + e
<1>10. k + p = Start(t, x) + 1 /\ k + q = x - 1
  BY <1>1, <1>2, <1>8
<1>11. CommandAt(s, e) = SubSeq(s, p, q)
  BY DEF CommandAt, b
<1>12. CommandAt(t, x) = SubSeq(t, k + p, k + q)
  <2> HIDE DEF x, p, q
  <2> QED
    BY <1>10 DEF CommandAt
<1> QED
  BY <1>6, <1>9, <1>11, <1>12 DEF t, k

\* The first command of a text.
LEMMA FirstCommand ==
    ASSUME NEW s \in Seq(Char), Ends(s) # {}
    PROVE  CommandAt(s, FirstEnd(s)) = SubSeq(s, 1, FirstEnd(s) - 1)
<1> DEFINE e == FirstEnd(s)
<1>1. e \in Ends(s) /\ \A i \in Ends(s) : e <= i
  BY FirstEndExists
<1> HIDE DEF e
<1>2. e \in Nat /\ e > 0
  BY <1>1, EndsType
<1>3. Between(s, 0, e) /\ 0 \in 0 .. e - 1
  BY <1>1, <1>2 DEF Between
<1>4. Start(s, e) = 0
  BY <1>1, <1>3, StartIs
<1> QED
  BY <1>4 DEF CommandAt, e

-----------------------------------------------------------------------------
(* Scripts. *)

LEMMA AskedType ==
    ASSUME NEW s \in Seq(Char)
    PROVE  Asked(s) \in SUBSET Ends(s) /\ Asked(s) \in SUBSET (1 .. Len(s))
BY EndsType DEF Asked

LEMMA ScriptType ==
    ASSUME NEW s \in Seq(Char)
    PROVE  /\ Script(s) \in Seq(Seq(Seq(Char)))
           /\ Len(Script(s)) = Cardinality(Asked(s))
           /\ Cardinality(Asked(s)) \in Nat
           /\ \A k \in 1 .. Cardinality(Asked(s)) :
                Script(s)[k] = Words(CommandAt(s, Kth(Asked(s), k)))
<1> DEFINE S == Asked(s)
           word(k) == Words(CommandAt(s, Kth(S, k)))
<1>1. S \in SUBSET Ends(s) /\ S \in SUBSET (1 .. Len(s)) /\ Len(s) \in Nat
  BY AskedType, EndsType
<1>2. Cardinality(S) \in Nat
  <2>1. IsFiniteSet(1 .. Len(s))
    BY <1>1, FS_Interval
  <2> QED
    BY <2>1, <1>1, FS_Subset, FS_CardinalityType
<1>3. \A k \in 1 .. Cardinality(S) : word(k) \in Seq(Seq(Char))
  <2> TAKE k \in 1 .. Cardinality(S)
  <2>1. Kth(S, k) \in Ends(s)
    BY <1>1, KthExists
  <2> QED
    BY <2>1, CommandAtType, WordsType
<1>4. Script(s) = [k \in 1 .. Cardinality(S) |-> word(k)]
  BY DEF Script
<1>5. Script(s) \in [1 .. Cardinality(S) -> Seq(Seq(Char))]
  BY <1>3, <1>4
<1>6. Script(s) \in Seq(Seq(Seq(Char))) /\ Len(Script(s)) = Cardinality(S)
  BY <1>2, <1>5, SeqDef
<1> QED
  BY <1>2, <1>4, <1>6

\* The script of two texts, the first of them whole, is that of the first and
\* then that of the second.
LEMMA ScriptOfTwo ==
    ASSUME NEW d \in Seq(Char), NEW s \in Seq(Char), IsWhole(d)
    PROVE  Script(d \o s) = Script(d) \o Script(s)
<1> DEFINE t == d \o s
           k == Len(d)
           A == Asked(d)
           B == Asked(s)
           S == A \cup {k + i : i \in B}
           m == Cardinality(A)
           n == Cardinality(B)
<1>1. t \in Seq(Char) /\ k \in Nat /\ Len(s) \in Nat /\ Len(t) = k + Len(s)
  BY ConcatProperties
<1>2. /\ A \in SUBSET Ends(d) /\ A \in SUBSET (1 .. k)
      /\ B \in SUBSET Ends(s) /\ B \in SUBSET (1 .. Len(s))
  BY AskedType
<1>3. Asked(t) = S
  <2>1. \A e \in A : e \in Asked(t)
    BY <1>2, CommandOfFirst DEF Asked
  <2>2. \A i \in B : k + i \in Asked(t)
    BY <1>2, CommandOfSecond DEF Asked
  <2>3. ASSUME NEW e \in Asked(t) PROVE e \in S
    <3>1. e \in Ends(t) /\ e \in 1 .. k + Len(s)
      BY <1>1, AskedType
    <3>2. CASE e <= k
      <4>1. e \in 1 .. k
        BY <3>1, <3>2, <1>1
      <4>2. e \in Ends(d)
        BY <3>1, <4>1, EndsOfFirst
      <4>3. e \in A
        BY <4>2, CommandOfFirst DEF Asked
      <4> QED
        BY <4>3
    <3>3. CASE e > k
      <4>1. e - k \in 1 .. Len(s) /\ k + (e - k) = e
        BY <3>1, <3>3, <1>1
      <4>2. e - k \in Ends(s)
        BY <3>1, <4>1, EndsOfSecond
      <4>3. CommandAt(t, k + (e - k)) = CommandAt(s, e - k)
        BY <4>2, CommandOfSecond
      <4>4. e - k \in B
        BY <4>1, <4>2, <4>3 DEF Asked
      <4> QED
        BY <4>1, <4>4
    <3> QED
      BY <3>1, <3>2, <3>3, <1>1
  <2> QED
    BY <2>1, <2>2, <2>3
<1>4. /\ m \in Nat /\ n \in Nat /\ Cardinality(S) = m + n
      /\ \A j \in 1 .. m : Kth(S, j) = Kth(A, j)
      /\ \A j \in 1 .. n : Kth(S, m + j) = k + Kth(B, j)
  <2>1. Joined(S, A, k, B, Len(s))
    BY <1>1, <1>2 DEF Joined
  <2> HIDE DEF k, A, B, S
  <2> QED
    BY <2>1, KthOfTwo
<1>5. /\ Script(t) \in Seq(Seq(Seq(Char))) /\ Len(Script(t)) = m + n
      /\ \A j \in 1 .. m + n : Script(t)[j] = Words(CommandAt(t, Kth(S, j)))
  BY <1>1, <1>3, <1>4, ScriptType
<1>6. /\ Script(d) \in Seq(Seq(Seq(Char))) /\ Len(Script(d)) = m
      /\ \A j \in 1 .. m : Script(d)[j] = Words(CommandAt(d, Kth(A, j)))
  BY ScriptType
<1>7. /\ Script(s) \in Seq(Seq(Seq(Char))) /\ Len(Script(s)) = n
      /\ \A j \in 1 .. n : Script(s)[j] = Words(CommandAt(s, Kth(B, j)))
  BY ScriptType
<1>8. \A j \in 1 .. m : Kth(A, j) \in Ends(d)
  BY <1>1, <1>2, KthExists
<1>9. \A j \in 1 .. n : Kth(B, j) \in Ends(s)
  BY <1>1, <1>2, KthExists
<1> DEFINE both == Script(d) \o Script(s)
<1>10. /\ both \in Seq(Seq(Seq(Char))) /\ Len(both) = m + n
       /\ \A j \in 1 .. m + n :
            both[j] = IF j <= m THEN Script(d)[j] ELSE Script(s)[j - m]
  BY <1>6, <1>7, ConcatProperties
<1>11. \A j \in 1 .. m : CommandAt(t, Kth(A, j)) = CommandAt(d, Kth(A, j))
  BY <1>8, CommandOfFirst
<1>12. \A j \in 1 .. n : CommandAt(t, k + Kth(B, j)) = CommandAt(s, Kth(B, j))
  BY <1>9, CommandOfSecond
<1> HIDE DEF t, k, A, B, S, m, n, both
<1>13. ASSUME NEW j \in 1 .. m + n PROVE Script(t)[j] = both[j]
  <2>1. CASE j <= m
    <3>1. j \in 1 .. m
      BY <2>1, <1>4
    <3>2. Script(t)[j] = Words(CommandAt(d, Kth(A, j)))
      BY <3>1, <1>4, <1>5, <1>11
    <3> QED
      BY <3>1, <3>2, <2>1, <1>6, <1>10
  <2>2. CASE ~ (j <= m)
    <3>1. j - m \in 1 .. n /\ m + (j - m) = j
      BY <2>2, <1>4
    <3>2. Kth(S, j) = k + Kth(B, j - m)
      BY <3>1, <1>4
    <3>3. Script(t)[j] = Words(CommandAt(s, Kth(B, j - m)))
      BY <3>1, <3>2, <1>5, <1>12
    <3> QED
      BY <3>1, <3>3, <2>2, <1>7, <1>10
  <2> QED
    BY <2>1, <2>2
<1> QED
  BY <1>5, <1>10, <1>13, SeqEqual DEF both, t

\* The script of a text with one end, at its end.
LEMMA ScriptOfOne ==
    ASSUME NEW s \in Seq(Char), Ends(s) # {}
    PROVE  LET c   == SubSeq(s, 1, FirstEnd(s))
               cmd == SubSeq(s, 1, FirstEnd(s) - 1)
           IN  /\ c \in Seq(Char) /\ IsWhole(c)
               /\ Script(c) = IF Runs(cmd) /\ Loads(Words(cmd))
                                THEN <<Words(cmd)>> ELSE <<>>
<1> DEFINE e   == FirstEnd(s)
           c   == SubSeq(s, 1, e)
           cmd == SubSeq(s, 1, e - 1)
           r   == SubSeq(s, e + 1, Len(s))
<1>1. e \in Ends(s) /\ \A i \in Ends(s) : e <= i
  BY FirstEndExists
<1>2. e \in 1 .. Len(s) /\ Len(s) \in Nat
  BY <1>1, EndsType
<1>3. cmd = CommandAt(s, e)
  BY FirstCommand
<1>4. CommandAt(s, e) \in Seq(Char)
  BY <1>1, CommandAtType
<1> HIDE DEF e
<1>5. c \in Seq(Char) /\ Len(c) = e /\ r \in Seq(Char)
  <2>1. /\ \A i \in 1 .. e : s[i] \in Char
        /\ \A i \in e + 1 .. Len(s) : s[i] \in Char
    BY <1>2, ElementOfSeq
  <2> QED
    BY <2>1, <1>2, SubSeqProperties
<1>6. s = c \o r
  <2>1. SubSeq(s, 1, e) \o SubSeq(s, e + 1, Len(s)) = SubSeq(s, 1, Len(s))
    <3>1. 1 \in 1 .. Len(s) + 1 /\ e \in 1 - 1 .. Len(s) /\ Len(s) \in e .. Len(s)
      BY <1>2
    <3> QED
      BY <3>1, ConcatAdjacentSubSeq
  <2>2. SubSeq(s, 1, Len(s)) = s
    BY SubSeqFull
  <2> QED
    BY <2>1, <2>2
<1> HIDE DEF c, r
<1>7. Ends(c) = {e}
  <2>1. \A i \in 1 .. e : i \in Ends(s) <=> i \in Ends(c)
    BY <1>5, <1>6, EndsOfFirst
  <2>2. Ends(c) \in SUBSET (1 .. e)
    BY <1>5, EndsType
  <2>3. e \in Ends(c)
    BY <2>1, <1>1, <1>2
  <2>4. ASSUME NEW i \in Ends(c) PROVE i = e
    <3>1. i \in 1 .. e /\ e <= i
      BY <2>1, <2>2, <1>1
    <3> QED
      BY <3>1, <1>2
  <2> QED
    BY <2>3, <2>4
<1>8. CommandAt(c, e) = cmd
  BY <1>3, <1>5, <1>6, <1>7, CommandOfFirst
<1>9. IsWhole(c)
  BY <1>5, <1>7 DEF IsWhole
<1>10. /\ Script(c) \in Seq(Seq(Seq(Char))) /\ Len(Script(c)) = Cardinality(Asked(c))
       /\ \A k \in 1 .. Cardinality(Asked(c)) :
            Script(c)[k] = Words(CommandAt(c, Kth(Asked(c), k)))
  BY <1>5, ScriptType
<1> HIDE DEF cmd
<1>11. CASE Runs(cmd) /\ Loads(Words(cmd))
  <2>1. Asked(c) = {e}
    BY <1>7, <1>8, <1>11 DEF Asked
  <2>2. Cardinality(Asked(c)) = 1
    BY <2>1, FS_Singleton
  <2>3. Kth(Asked(c), 1) = e
    <3>1. Asked(c) \in SUBSET (1 .. e) /\ 1 \in 1 .. Cardinality(Asked(c))
      BY <2>1, <2>2, <1>2
    <3>2. e \in Nat
      BY <1>2
    <3>3. Kth(Asked(c), 1) \in Asked(c)
      BY <3>1, <3>2, KthExists
    <3> QED
      BY <3>3, <2>1
  <2>4. Len(Script(c)) = 1 /\ Script(c)[1] = Words(cmd)
    BY <2>2, <2>3, <1>8, <1>10
  <2>5. <<Words(cmd)>> \in Seq(Seq(Seq(Char))) /\ Len(<<Words(cmd)>>) = 1
        /\ <<Words(cmd)>>[1] = Words(cmd)
    <3>1. cmd \in Seq(Char)
      BY <1>3, <1>4
    <3> QED
      BY <3>1, WordsType
  <2>6. \A i \in 1 .. Len(Script(c)) : Script(c)[i] = <<Words(cmd)>>[i]
    BY <2>4, <2>5
  <2>7. Script(c) = <<Words(cmd)>>
    BY <2>4, <2>5, <2>6, <1>10, SeqEqual
  <2> QED
    BY <2>7, <1>5, <1>9, <1>11 DEF c, cmd, e
<1>12. CASE ~ (Runs(cmd) /\ Loads(Words(cmd)))
  <2>1. Asked(c) = {}
    BY <1>7, <1>8, <1>12 DEF Asked
  <2>2. Len(Script(c)) = 0
    BY <2>1, <1>10, FS_EmptySet
  <2>3. Script(c) = <<>>
    BY <2>2, <1>10, EmptySeq
  <2> QED
    BY <2>3, <1>5, <1>9, <1>12 DEF c, cmd, e
<1> QED
  BY <1>11, <1>12

LEMMA ScriptWithoutEnds ==
    ASSUME NEW s \in Seq(Char), Ends(s) = {}
    PROVE  Script(s) = <<>>
<1>1. Asked(s) = {}
  BY DEF Asked
<1>2. Len(Script(s)) = 0 /\ Script(s) \in Seq(Seq(Seq(Char)))
  BY <1>1, ScriptType, FS_EmptySet
<1> QED
  BY <1>2, EmptySeq

LEMMA ScriptOfNothing == Script(<<>>) = <<>> /\ IsWhole(<<>>)
<1>1. <<>> \in Seq(Char)
  OBVIOUS
<1> QED
  BY <1>1, NoEndsInNothing, ScriptWithoutEnds DEF IsWhole

LEMMA Regroup ==
    \A a, b, c \in Seq(Char) : (a \o b) \o c = a \o (b \o c)
<1> TAKE a, b, c \in Seq(Char)
<1> QED
  BY ConcatAssociative

LEMMA WholeOfTwo ==
    ASSUME NEW d \in Seq(Char), NEW s \in Seq(Char), IsWhole(d), IsWhole(s)
    PROVE  IsWhole(d \o s)
<1>1. CASE s = <<>>
  BY <1>1, ConcatEmptySeq
<1>2. CASE Len(s) \in Ends(s)
  <2>1. Len(s) \in 1 .. Len(s) /\ Len(d \o s) = Len(d) + Len(s)
    BY <1>2, EndsType, ConcatProperties
  <2>2. Len(d) + Len(s) \in Ends(d \o s)
    BY <2>1, <1>2, EndsOfSecond
  <2> QED
    BY <2>1, <2>2 DEF IsWhole
<1> QED
  BY <1>1, <1>2 DEF IsWhole

\* The first command with its delimiter, the command, and what is behind it.
First(l) == SubSeq(l, 1, FirstEnd(l))
Text(l) == SubSeq(l, 1, FirstEnd(l) - 1)
Runnable(l) == Runs(Text(l)) /\ Loads(Words(Text(l)))
After(l) == Rest(l, FirstEnd(l))

\* What Split cuts off moves the border between what was run and what was not.
LEMMA CutMoves ==
    ASSUME NEW d \in Seq(Char), NEW l \in Seq(Char), IsWhole(d), Ends(l) # {}
    PROVE  /\ First(l) \in Seq(Char) /\ After(l) \in Seq(Char)
           /\ l = First(l) \o After(l)
           /\ d \o First(l) \in Seq(Char) /\ IsWhole(d \o First(l))
           /\ Script(d \o First(l)) =
                IF Runnable(l) THEN Append(Script(d), Words(Text(l))) ELSE Script(d)
           /\ Words(Text(l)) \in Seq(Seq(Char))
           /\ Script(d) \in Seq(Seq(Seq(Char)))
<1> DEFINE e == FirstEnd(l)
           c == SubSeq(l, 1, e)
           cmd == SubSeq(l, 1, e - 1)
           r == SubSeq(l, e + 1, Len(l))
<1>1. /\ c \in Seq(Char) /\ IsWhole(c)
      /\ Script(c) = IF Runs(cmd) /\ Loads(Words(cmd)) THEN <<Words(cmd)>> ELSE <<>>
  BY ScriptOfOne
<1>2. e \in 1 .. Len(l) /\ Len(l) \in Nat
  BY FirstEndExists, EndsType
<1>3. cmd \in Seq(Char)
  BY FirstEndExists, FirstCommand, CommandAtType
<1>4. Words(cmd) \in Seq(Seq(Char))
  BY <1>3, WordsType
<1> HIDE DEF e, cmd
<1>5. r \in Seq(Char)
  <2>1. \A i \in e + 1 .. Len(l) : l[i] \in Char
    BY <1>2, ElementOfSeq
  <2> QED
    BY <2>1, <1>2, SubSeqProperties
<1>6. l = c \o r
  <2>1. 1 \in 1 .. Len(l) + 1 /\ e \in 1 - 1 .. Len(l) /\ Len(l) \in e .. Len(l)
    BY <1>2
  <2>2. c \o r = SubSeq(l, 1, Len(l))
    BY <2>1, ConcatAdjacentSubSeq
  <2>3. SubSeq(l, 1, Len(l)) = l
    BY SubSeqFull
  <2> QED
    BY <2>2, <2>3
<1>7. After(l) = r /\ First(l) = c /\ Text(l) = cmd
  BY DEF After, Rest, First, Text, e, cmd
<1> HIDE DEF c, r
<1>8. d \o c \in Seq(Char) /\ IsWhole(d \o c)
  BY <1>1, WholeOfTwo, ConcatProperties
<1>9. Script(d \o c) = Script(d) \o Script(c) /\ Script(d) \in Seq(Seq(Seq(Char)))
  BY <1>1, ScriptOfTwo, ScriptType
<1>10. Script(d) \o <<>> = Script(d)
       /\ Append(Script(d), Words(cmd)) = Script(d) \o <<Words(cmd)>>
  BY <1>4, <1>9, ConcatEmptySeq, AppendIsConcat
<1> QED
  BY <1>1, <1>4, <1>5, <1>6, <1>7, <1>8, <1>9, <1>10 DEF Runnable

-----------------------------------------------------------------------------
(* What is in line: what was read behind the last command that was run.    *)

Seen == SubSeq(input, 1, taken) \o IF eof THEN <<Delimiter>> ELSE <<>>

\* d is what was cut off line.
CutAt(d) == IsWhole(d) /\ d \o line = Seen /\ executed = Script(d)

IsCut == \E d \in Seq(Char) : CutAt(d)

\* The end of the file is seen when there is nothing more to come.
EndIsEnd == eof => ended /\ taken = Len(input)

\* What stops the reader stays at the beginning of line.
OverrunSeen ==
    pc = "overrun" => Ends(line) # {} /\ Runs(Command) /\ ~ FitsArgv(Command)

Inv == Typed /\ IsCut /\ EndIsEnd /\ OverrunSeen

LEMMA InvTypes ==
    ASSUME Inv
    PROVE  /\ input \in Seq(Char) /\ line \in Seq(Char) /\ Len(input) \in Nat
           /\ taken \in Nat /\ taken <= Len(input) /\ eof \in BOOLEAN
           /\ ended \in BOOLEAN
           /\ executed \in Seq(Seq(Seq(Char)))
           /\ <<Delimiter>> \in Seq(Char)
           /\ (pc \in {"waiting", "called", "main"} => ~ eof)
BY CharTypes DEF Inv, Typed, TypeOK, MainEmpty

LEMMA PartType ==
    ASSUME NEW s \in Seq(Char), NEW m \in Nat, NEW n \in Nat, n <= Len(s)
    PROVE  SubSeq(s, m + 1, n) \in Seq(Char)
<1>1. Len(s) \in Nat /\ m + 1 \in Int /\ n \in Int
  OBVIOUS
<1>2. \A i \in m + 1 .. n : i \in 1 .. Len(s)
  BY <1>1
<1>3. \A i \in m + 1 .. n : s[i] \in Char
  BY <1>2, ElementOfSeq
<1> QED
  BY <1>1, <1>3, SubSeqProperties

LEMMA PartsJoin ==
    ASSUME NEW s \in Seq(Char), NEW m \in Nat, NEW n \in Nat, m <= n, n <= Len(s)
    PROVE  /\ SubSeq(s, 1, m) \in Seq(Char) /\ SubSeq(s, m + 1, n) \in Seq(Char)
           /\ SubSeq(s, 1, n) = SubSeq(s, 1, m) \o SubSeq(s, m + 1, n)
<1>1. Len(s) \in Nat /\ 0 \in Nat /\ 0 + 1 = 1 /\ m <= Len(s)
  OBVIOUS
<1>2. SubSeq(s, 0 + 1, m) \in Seq(Char) /\ SubSeq(s, m + 1, n) \in Seq(Char)
  BY <1>1, PartType
<1>3. 1 \in 1 .. Len(s) + 1 /\ m \in 1 - 1 .. Len(s) /\ n \in m .. Len(s)
  BY <1>1
<1>4. SubSeq(s, 1, m) \o SubSeq(s, m + 1, n) = SubSeq(s, 1, n)
  BY <1>3, ConcatAdjacentSubSeq
<1> QED
  BY <1>1, <1>2, <1>4

LEMMA SeenType ==
    ASSUME Inv
    PROVE  /\ SubSeq(input, 1, taken) \in Seq(Char)
           /\ Seen \in Seq(Char)
           /\ ~ eof => Seen = SubSeq(input, 1, taken)
           /\ eof => Seen = SubSeq(input, 1, taken) \o <<Delimiter>>
<1>1. /\ input \in Seq(Char) /\ taken \in Nat /\ taken <= Len(input)
      /\ eof \in BOOLEAN /\ <<Delimiter>> \in Seq(Char)
  BY InvTypes
<1> DEFINE p == SubSeq(input, 1, taken)
<1>2. p \in Seq(Char)
  BY <1>1, PartsJoin
<1> HIDE DEF p
<1>3. p \o <<>> = p /\ p \o <<Delimiter>> \in Seq(Char)
  BY <1>1, <1>2, ConcatEmptySeq, ConcatProperties
<1>4. Seen = p \o IF eof THEN <<Delimiter>> ELSE <<>>
  BY DEF Seen, p
<1>5. ~ eof => Seen = p
  BY <1>3, <1>4
<1>6. eof => Seen = p \o <<Delimiter>>
  BY <1>4
<1> QED
  BY <1>1, <1>2, <1>3, <1>5, <1>6 DEF p

LEMMA InvInit == Init => Inv
<1> SUFFICES ASSUME Init PROVE Inv
  OBVIOUS
<1>1. Typed
  BY TypedInit
<1>2. input = <<>> /\ taken = 0 /\ ~ eof /\ line = <<>> /\ executed = <<>> /\ pc = "main"
  BY DEF Init
<1>3. <<>> \in Seq(Char)
  OBVIOUS
<1>4. SubSeq(input, 1, taken) = <<>>
  BY <1>2, SubSeqEmpty
<1>5. <<>> \o <<>> = <<>>
  BY <1>3, ConcatEmptySeq
<1>6. Seen = <<>> /\ <<>> \o line = Seen
  BY <1>2, <1>4, <1>5 DEF Seen
<1>7. CutAt(<<>>)
  BY <1>2, <1>6, ScriptOfNothing DEF CutAt
<1> QED
  BY <1>1, <1>2, <1>3, <1>7 DEF Inv, IsCut, EndIsEnd, OverrunSeen

LEMMA CutStays ==
    ASSUME IsCut, UNCHANGED <<line, executed>>, Seen' = Seen
    PROVE  IsCut'
BY DEF IsCut, CutAt

LEMMA InvRead ==
    ASSUME Inv, Typed', NEW n \in 1 .. BufSize, Read(n)
    PROVE  Inv'
<1>1. /\ taken' = taken + n /\ taken + n <= Len(input) /\ input' = input
      /\ line' = line \o SubSeq(input, taken + 1, taken + n)
      /\ pc = "called" /\ ~ eof' /\ pc' = "splitting" /\ executed' = executed
  BY DEF Read, Appended
<1>2. PICK d \in Seq(Char) : CutAt(d)
  BY DEF Inv, IsCut
<1>3. /\ input \in Seq(Char) /\ line \in Seq(Char) /\ taken \in Nat /\ ~ eof
      /\ n \in Nat /\ taken + n \in Nat /\ taken <= taken + n
  BY <1>1, InvTypes, PieceSize
<1> DEFINE p == SubSeq(input, 1, taken)
           more == SubSeq(input, taken + 1, taken + n)
           q == SubSeq(input, 1, taken + n)
<1>4. more \in Seq(Char) /\ q = p \o more /\ p \in Seq(Char)
  BY <1>1, <1>3, PartsJoin
<1>5. d \o line = p
  BY <1>2, <1>3, SeenType DEF CutAt
<1>6. Seen' = q \o <<>>
  BY <1>1 DEF Seen
<1>7. line' = line \o more
  BY <1>1
<1> HIDE DEF p, more, q
<1>8. q \o <<>> = q
  BY <1>4, ConcatProperties, ConcatEmptySeq
<1>9. d \o line' = Seen'
  <2>1. (d \o line) \o more = d \o (line \o more)
    BY <1>3, <1>4, Regroup
  <2> QED
    BY <2>1, <1>4, <1>5, <1>6, <1>7, <1>8
<1>10. IsCut'
  BY <1>1, <1>2, <1>9 DEF IsCut, CutAt
<1> QED
  BY <1>1, <1>10 DEF Inv, EndIsEnd, OverrunSeen

LEMMA InvReadEnd ==
    ASSUME Inv, Typed', ReadEnd
    PROVE  Inv'
<1>1. /\ taken = Len(input) /\ ended /\ UNCHANGED <<taken, input, ended, executed>>
      /\ line' = line \o <<Delimiter>> /\ eof' = TRUE
      /\ pc = "called" /\ pc' = "splitting"
  BY DEF ReadEnd, Appended, AtEnd
<1>2. PICK d \in Seq(Char) : CutAt(d)
  BY DEF Inv, IsCut
<1>3. line \in Seq(Char) /\ <<Delimiter>> \in Seq(Char) /\ ~ eof
  BY <1>1, InvTypes
<1>4. d \o line = SubSeq(input, 1, taken)
  BY <1>2, <1>3, SeenType DEF CutAt
<1>5. Seen' = SubSeq(input, 1, taken) \o <<Delimiter>>
  BY <1>1 DEF Seen
<1>6. (d \o line) \o <<Delimiter>> = d \o (line \o <<Delimiter>>)
  BY <1>3, Regroup
<1>7. IsCut'
  BY <1>1, <1>2, <1>4, <1>5, <1>6 DEF IsCut, CutAt
<1> QED
  BY <1>1, <1>7 DEF Inv, EndIsEnd, OverrunSeen

LEMMA InvSplit ==
    ASSUME Inv, Typed', Split
    PROVE  Inv'
<1>1. /\ Ends(line) # {} /\ line' = After(line)
      /\ executed' = IF Runnable(line)
                       THEN Append(executed, Words(Text(line))) ELSE executed
      /\ UNCHANGED <<input, ended, taken, eof, pc>> /\ pc = "splitting"
  BY DEF Split, After, Runnable, Text, Command
<1>2. PICK d \in Seq(Char) : CutAt(d)
  BY DEF Inv, IsCut
<1>3. /\ line \in Seq(Char) /\ IsWhole(d) /\ d \o line = Seen /\ executed = Script(d)
  BY <1>2, InvTypes DEF CutAt
<1>4. /\ First(line) \in Seq(Char) /\ After(line) \in Seq(Char)
      /\ line = First(line) \o After(line)
      /\ d \o First(line) \in Seq(Char) /\ IsWhole(d \o First(line))
      /\ Script(d \o First(line)) =
           IF Runnable(line) THEN Append(Script(d), Words(Text(line))) ELSE Script(d)
  BY <1>1, <1>3, CutMoves
<1>5. PICK x \in Seq(Char) : x = d \o First(line)
  BY <1>4
<1>6. x \o line' = Seen'
  <2>1. (d \o First(line)) \o After(line) = d \o (First(line) \o After(line))
    BY <1>4, Regroup
  <2>2. Seen' = Seen
    BY <1>1 DEF Seen
  <2> QED
    BY <2>1, <2>2, <1>1, <1>3, <1>4, <1>5
<1>7. executed' = Script(x)
  BY <1>1, <1>3, <1>4, <1>5
<1>8. IsCut'
  BY <1>4, <1>5, <1>6, <1>7 DEF IsCut, CutAt
<1> QED
  BY <1>1, <1>8 DEF Inv, EndIsEnd, OverrunSeen

LEMMA InvType ==
    ASSUME Inv, Typed', NEW c \in Char, Type(c)
    PROVE  Inv'
<1>1. /\ ~ ended /\ input' = Append(input, c)
      /\ UNCHANGED <<ended, taken, line, eof, executed, pc>>
  BY DEF Type
<1>2. input \in Seq(Char) /\ taken \in Nat /\ taken <= Len(input) /\ Len(input) \in Nat
  BY InvTypes
<1>3. ~ eof
  BY <1>1 DEF Inv, EndIsEnd
<1>4. SubSeq(input', 1, taken) = SubSeq(input, 1, taken)
  <2>1. <<c>> \in Seq(Char) /\ input' = input \o <<c>>
    BY <1>1, <1>2, AppendIsConcat
  <2>2. CASE taken = 0
    BY <2>2, SubSeqEmpty
  <2>3. CASE taken # 0
    <3>1. 1 \in 1 .. Len(input) /\ taken \in 1 .. Len(input)
      BY <2>3, <1>2
    <3> QED
      BY <3>1, <2>1, <1>2, SubSeqOfConcat1
  <2> QED
    BY <2>2, <2>3
<1>5. Seen' = Seen
  BY <1>1, <1>4 DEF Seen
<1>6. IsCut'
  BY <1>1, <1>5, CutStays DEF Inv
<1>7. OverrunSeen'
  BY <1>1 DEF Inv, OverrunSeen, Command
<1> QED
  BY <1>1, <1>3, <1>6, <1>7 DEF Inv, EndIsEnd

LEMMA InvNext == Inv /\ [Next]_vars => Inv'
<1> SUFFICES ASSUME Inv, [Next]_vars PROVE Inv'
  OBVIOUS
<1>1. Typed'
  BY TypedNext DEF Inv
<1>2. ASSUME UNCHANGED <<input, taken, line, eof, ended, executed>>,
             pc' = "overrun" => OverrunSeen'
      PROVE  Inv'
  <2>1. Seen' = Seen
    BY <1>2 DEF Seen
  <2>2. IsCut'
    BY <1>2, <2>1, CutStays DEF Inv
  <2> QED
    BY <1>1, <1>2, <2>2 DEF Inv, EndIsEnd, OverrunSeen
<1>3. CASE Interactive
  BY <1>2, <1>3 DEF Interactive
<1>4. CASE NotInteractive
  BY <1>2, <1>4 DEF NotInteractive
<1>5. CASE CallReady
  BY <1>2, <1>5 DEF CallReady
<1>6. CASE CallTimeout
  BY <1>2, <1>6 DEF CallTimeout
<1>7. CASE WaitAgain
  BY <1>2, <1>7 DEF WaitAgain
<1>8. ASSUME NEW n \in 1 .. BufSize, Read(n) PROVE Inv'
  BY <1>1, <1>8, InvRead
<1>9. CASE ReadEnd
  BY <1>1, <1>9, InvReadEnd
<1>10. CASE Split
  BY <1>1, <1>10, InvSplit
<1>11. CASE Overrun
  <2>1. OverrunSeen'
    BY <1>11 DEF Overrun, OverrunSeen, Command
  <2> QED
    BY <2>1, <1>2, <1>11 DEF Overrun
<1>12. CASE SplitDone
  BY <1>2, <1>12 DEF SplitDone, AfterLoop
<1>13. ASSUME NEW c \in Char, Type(c) PROVE Inv'
  BY <1>1, <1>13, InvType
<1>14. CASE End
  <2>1. UNCHANGED <<input, taken, line, eof, executed, pc>> /\ ended'
    BY <1>14 DEF End
  <2>2. Seen' = Seen
    BY <2>1 DEF Seen
  <2>3. IsCut'
    BY <2>1, <2>2, CutStays DEF Inv
  <2>4. OverrunSeen' /\ EndIsEnd'
    BY <2>1 DEF Inv, OverrunSeen, Command, EndIsEnd
  <2> QED
    BY <2>3, <2>4, <1>1 DEF Inv
<1>15. CASE UNCHANGED vars
  <2>1. UNCHANGED <<input, taken, line, eof, ended, executed, pc>>
    BY <1>15 DEF vars
  <2>2. OverrunSeen'
    BY <2>1 DEF Inv, OverrunSeen, Command
  <2> QED
    BY <2>1, <2>2, <1>2
<1> QED
  BY <1>3, <1>4, <1>5, <1>6, <1>7, <1>8, <1>9, <1>10, <1>11, <1>12, <1>13, <1>14, <1>15
  DEF Next, NewInput, Terminated

LEMMA InvAlways == Spec => []Inv
BY InvInit, InvNext, PTL DEF Spec

LEMMA NothingLostHolds == ASSUME Inv PROVE NothingLost
<1>1. PICK d \in Seq(Char) : CutAt(d)
  BY DEF Inv, IsCut
<1>2. Script(d \o line) = Script(d) \o Script(line)
  BY <1>1, InvTypes, ScriptOfTwo DEF CutAt
<1>3. executed \o Script(line) = Script(Seen)
  BY <1>1, <1>2 DEF CutAt
<1>4. ASSUME pc \in {"waiting", "called", "done"} PROVE Script(line) = <<>>
  <2>1. Ends(line) = {}
    BY <1>4 DEF Inv, Typed, TypeOK, DoneEmpty
  <2> QED
    BY <2>1, InvTypes, ScriptWithoutEnds
<1> QED
  BY <1>3, <1>4 DEF NothingLost, Seen

\* What was run and what line still asks for is what was read asks for: no
\* command is lost, split, joined, repeated or out of order, however read()
\* cuts the input into pieces.
THEOREM NothingIsLost == Spec => []NothingLost
BY NothingLostHolds, InvAlways, PTL

\* A reader that ends at the end of the file has run every command of the text,
\* also a last one that no delimiter ends: what RunsToTheEnd says once it ends.
THEOREM EndedReaderIsComplete ==
    Spec => [](pc = "done" /\ eof => executed = Script(input \o <<Delimiter>>))
<1>1. Inv => (pc = "done" /\ eof => executed = Script(input \o <<Delimiter>>))
  <2> SUFFICES ASSUME Inv, pc = "done", eof
               PROVE  executed = Script(input \o <<Delimiter>>)
    OBVIOUS
  <2>1. input \in Seq(Char) /\ executed \in Seq(Seq(Seq(Char)))
    BY InvTypes
  <2>2. SubSeq(input, 1, taken) = input
    BY <2>1, SubSeqFull DEF Inv, EndIsEnd
  <2>3. executed \o <<>> = Script(input \o <<Delimiter>>)
    BY <2>2, NothingLostHolds DEF NothingLost
  <2>4. executed \o <<>> = executed
    BY <2>1, ConcatEmptySeq
  <2> QED
    BY <2>3, <2>4
<1> QED
  BY <1>1, InvAlways, PTL

\* The text goes on where reading has stopped.
LEMMA TextBehindSeen ==
    ASSUME Inv
    PROVE  /\ \E r \in Seq(Char) : input \o <<Delimiter>> = Seen \o r
           /\ ~ eof => \E r \in Seq(Char) : input = Seen \o r
<1>1. /\ input \in Seq(Char) /\ Len(input) \in Nat /\ taken \in Nat
      /\ taken <= Len(input) /\ Len(input) <= Len(input)
      /\ eof \in BOOLEAN /\ <<Delimiter>> \in Seq(Char)
  BY InvTypes
<1> DEFINE p == SubSeq(input, 1, taken)
           q == SubSeq(input, taken + 1, Len(input))
<1>2. p \in Seq(Char) /\ q \in Seq(Char) /\ SubSeq(input, 1, Len(input)) = p \o q
  BY <1>1, PartsJoin
<1>3. SubSeq(input, 1, Len(input)) = input
  BY <1>1, SubSeqFull
<1> HIDE DEF q
<1>4. Seen \in Seq(Char) /\ (~ eof => Seen = p) /\ (eof => Seen = p \o <<Delimiter>>)
  BY SeenType
<1>5. CASE eof
  <2>1. taken = Len(input)
    BY <1>5 DEF Inv, EndIsEnd
  <2>2. p = input
    BY <2>1, <1>1, SubSeqFull
  <2>3. Seen = Seen \o <<>> /\ <<>> \in Seq(Char)
    BY <1>4, ConcatEmptySeq
  <2>4. input \o <<Delimiter>> = Seen \o <<>>
    BY <2>2, <2>3, <1>4, <1>5
  <2> QED
    BY <2>3, <2>4, <1>5
<1>6. CASE ~ eof
  <2> HIDE DEF p
  <2>1. (p \o q) \o <<Delimiter>> = p \o (q \o <<Delimiter>>)
    BY <1>1, <1>2, Regroup
  <2>2. q \o <<Delimiter>> \in Seq(Char)
    BY <1>1, <1>2, ConcatProperties
  <2>3. input = Seen \o q /\ input \o <<Delimiter>> = Seen \o (q \o <<Delimiter>>)
    BY <2>1, <1>2, <1>3, <1>4, <1>6
  <2> QED
    BY <2>2, <2>3, <1>2
<1> QED
  BY <1>1, <1>5, <1>6

\* A reader that has written behind the end of argv was given a command with
\* too many words: no way to cut a good text into pieces makes one.
THEOREM ArgvHoldsForAll == Spec => []ArgvHolds
<1>1. Inv => ArgvHolds
  <2> SUFFICES ASSUME Inv, pc = "overrun" PROVE ~ AllFit(input \o <<Delimiter>>)
    BY DEF ArgvHolds
  <2>1. Ends(line) # {} /\ Runs(Command) /\ ~ FitsArgv(Command)
    BY DEF Inv, OverrunSeen
  <2>2. PICK d \in Seq(Char) : CutAt(d)
    BY DEF Inv, IsCut
  <2>3. line \in Seq(Char) /\ d \o line = Seen /\ IsWhole(d)
    BY <2>2, InvTypes DEF CutAt
  <2>4. PICK r \in Seq(Char) : input \o <<Delimiter>> = Seen \o r
    BY TextBehindSeen
  <2> DEFINE e == FirstEnd(line)
             x == Len(d) + e
             s == d \o line
  <2>5. e \in Ends(line) /\ CommandAt(line, e) = Command
    BY <2>1, <2>3, FirstEndExists, FirstCommand DEF Command
  <2> HIDE DEF e
  <2>6. x \in Ends(s) /\ CommandAt(s, x) = Command /\ s \in Seq(Char)
    BY <2>3, <2>5, CommandOfSecond, ConcatProperties
  <2> HIDE DEF x, s
  <2>7. x \in Ends(s \o r) /\ CommandAt(s \o r, x) = Command
    BY <2>6, CommandOfFirst
  <2>8. input \o <<Delimiter>> = s \o r
    BY <2>3, <2>4 DEF s
  <2> QED
    BY <2>1, <2>7, <2>8 DEF AllFit
<1> QED
  BY <1>1, InvAlways, PTL

-----------------------------------------------------------------------------
(* The reader runs the text, one command after the other.                  *)

\* The text as the interpreter sees it goes on where reading has stopped.
LEMMA WholeBehindSeen ==
    ASSUME Inv
    PROVE  \E r \in Seq(Char) : Reader!Whole = Seen \o r
<1>1. CASE ended
  BY <1>1, TextBehindSeen DEF Reader!Whole
<1>2. CASE ~ ended
  <2>1. ~ eof
    BY <1>2 DEF Inv, EndIsEnd
  <2> QED
    BY <1>2, <2>1, TextBehindSeen DEF Reader!Whole
<1> QED
  BY <1>1, <1>2

LEMMA SplitRuns ==
    ASSUME Inv, Split
    PROVE  Reader!Run \/ UNCHANGED Reader!vars
<1>1. /\ Ends(line) # {}
      /\ executed' = IF Runnable(line)
                       THEN Append(executed, Words(Text(line))) ELSE executed
      /\ UNCHANGED <<input, ended>>
  BY DEF Split, Runnable, Text, Command
<1>2. CASE ~ Runnable(line)
  BY <1>1, <1>2 DEF Reader!vars
<1>3. CASE Runnable(line)
  <2>1. PICK d \in Seq(Char) : CutAt(d)
    BY DEF Inv, IsCut
  <2>2. PICK r \in Seq(Char) : Reader!Whole = Seen \o r
    BY WholeBehindSeen
  <2> DEFINE word == Words(Text(line))
             c == First(line)
             a == After(line)
  <2>3. line \in Seq(Char) /\ IsWhole(d) /\ d \o line = Seen /\ executed = Script(d)
    BY <2>1, InvTypes DEF CutAt
  <2>4. /\ c \in Seq(Char) /\ a \in Seq(Char) /\ line = c \o a
        /\ d \o c \in Seq(Char) /\ IsWhole(d \o c)
        /\ Script(d \o c) = Append(Script(d), word)
        /\ word \in Seq(Seq(Char)) /\ Script(d) \in Seq(Seq(Seq(Char)))
    BY <2>3, <1>1, <1>3, CutMoves
  <2> HIDE DEF word, c, a
  <2>5. Reader!Whole = (d \o c) \o (a \o r) /\ a \o r \in Seq(Char)
    <3>1. d \o (c \o a) = (d \o c) \o a
      BY <2>4, Regroup
    <3>2. ((d \o c) \o a) \o r = (d \o c) \o (a \o r)
      BY <2>4, Regroup
    <3>3. a \o r \in Seq(Char)
      BY <2>4, ConcatProperties
    <3> QED
      BY <3>1, <3>2, <3>3, <2>2, <2>3, <2>4
  <2> DEFINE done == Script(d)
             rest == Script(a \o r)
             all == Script(Reader!Whole)
  <2>6. all = Append(done, word) \o rest
    BY <2>4, <2>5, ScriptOfTwo
  <2>7. /\ rest \in Seq(Seq(Seq(Char))) /\ done \in Seq(Seq(Seq(Char)))
        /\ Append(done, word) \in Seq(Seq(Seq(Char)))
    BY <2>4, <2>5, ScriptType, AppendProperties
  <2> HIDE DEF done, rest, all
  <2>8. Len(done) < Len(all) /\ all[Len(done) + 1] = word
    <3>1. /\ Len(Append(done, word)) = Len(done) + 1
          /\ Append(done, word)[Len(done) + 1] = word
          /\ Len(done) \in Nat /\ Len(rest) \in Nat
      BY <2>4, <2>7, AppendProperties
    <3>2. /\ Len(all) = Len(done) + 1 + Len(rest)
          /\ \A i \in 1 .. Len(done) + 1 + Len(rest) :
               all[i] = IF i <= Len(done) + 1
                          THEN Append(done, word)[i] ELSE rest[i - (Len(done) + 1)]
      BY <2>6, <2>7, <3>1, ConcatProperties
    <3>3. /\ Len(done) + 1 \in 1 .. Len(done) + 1 + Len(rest)
          /\ Len(done) + 1 <= Len(done) + 1
      BY <3>1
    <3> QED
      BY <3>1, <3>2, <3>3
  <2>9. executed = done /\ executed' = Append(executed, word)
    BY <2>3, <1>1, <1>3 DEF done, word
  <2> QED
    BY <2>8, <2>9, <1>1 DEF Reader!Run, all
<1> QED
  BY <1>2, <1>3

LEMMA StepImplements ==
    ASSUME Inv, [Next]_vars
    PROVE  [Reader!Next]_(Reader!vars)
<1>1. CASE UNCHANGED <<input, ended, executed>>
  BY <1>1 DEF Reader!vars
<1>2. CASE Split
  BY <1>2, SplitRuns DEF Reader!Next
<1>3. ASSUME NEW c \in Char, Type(c) PROVE [Reader!Next]_(Reader!vars)
  <2>1. Reader!Write(c)
    BY <1>3 DEF Type, Reader!Write
  <2> QED
    BY <2>1 DEF Reader!Next
<1>4. CASE End
  <2>1. Reader!Close
    BY <1>4 DEF End, Reader!Close
  <2> QED
    BY <2>1 DEF Reader!Next
<1> QED
  BY <1>1, <1>2, <1>3, <1>4 DEF Next, NewInput, Terminated, vars,
     Interactive, NotInteractive, CallReady, CallTimeout, WaitAgain, Read, ReadEnd,
     Overrun, SplitDone

\* The program runs the commands of the text in their order, each of them once
\* and none before it has been written to its end - whatever the sizes of the
\* buffer and of the pieces.
THEOREM ReaderImplementsInterpreter == Spec => ImplementsInterpreter
<1>1. Init => Reader!Init
  BY DEF Init, Reader!Init
<1>2. Inv /\ [Next]_vars => [Reader!Next]_(Reader!vars)
  BY StepImplements
<1> QED
  BY <1>1, <1>2, InvAlways, PTL DEF Spec, ImplementsInterpreter, Reader!Spec
=============================================================================
