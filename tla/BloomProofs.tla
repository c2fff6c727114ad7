---------------------------- MODULE BloomProofs -----------------------------
(***************************************************************************)
(* Proofs about Bloom, for all hash functions, any size of the filter, and *)
(* any number of patterns and words.                                       *)
(***************************************************************************)
EXTENDS Bloom, TLAPS

\* Two positions with the same byte and the same bit in it are the same, and
\* the byte is one of the array.
LEMMA BitPlace ==
    /\ \A a \in 0..m - 1 : a \div 8 \in 0..bytes - 1 /\ Bit(a) \in 0..7
    /\ \A a, b \in 0..m - 1 : a \div 8 = b \div 8 /\ Bit(a) = Bit(b) => a = b
  <1>1. m \in Nat
    BY BloomAssumption
  <1> QED
    BY <1>1 DEF bytes, Bit

Result == Str \X {"yes", "no"}

Type == /\ pp \in Seq(Str)
        /\ filter \in [0..bytes - 1 -> SUBSET (0..7)]
        /\ i \in 0..Len(pp) /\ j \in 0..k
        /\ pc \in {"load", "build", "read", "test"}
        /\ pw \in Str
        /\ results \in Seq(Result)

\* Where the loops are: the filter is built from all patterns, bit by bit,
\* before the first word is answered.
Loops == /\ pc = "load" => i = 0 /\ j = 0
         /\ pc = "build" => j < k
         /\ pc \in {"read", "test"} => i = Len(pp)
         /\ pc \in {"load", "build"} => results = << >>

\* The bits of the word tested so far are set.
TestedBitsSet == pc = "test" => \A h \in 0..j - 1 : IsSet(Hash[pw][h])

Answers == NoPatternDenied /\ YesHasReasons

IInv == Type /\ Loops /\ FilterExact /\ TestedBitsSet /\ Answers

\* The shape of the sequences.
LEMMA Shapes ==
    ASSUME Type
    PROVE  /\ DOMAIN pp = 1..Len(pp) /\ Len(pp) \in Nat
           /\ \A n \in 1..Len(pp) : pp[n] \in Str
           /\ DOMAIN results = 1..Len(results) /\ Len(results) \in Nat
           /\ \A s \in Str : \A h \in 0..k - 1 : Hash[s][h] \in 0..m - 1
  <1>1. \A s \in Str : \A h \in 0..k - 1 : Hash[s][h] \in 0..m - 1
    BY BloomAssumption
  <1>2. pp \in Seq(Str) /\ results \in Seq(Result)
    BY DEF Type
  <1>3. DOMAIN pp = 1..Len(pp) /\ Len(pp) \in Nat /\ \A n \in 1..Len(pp) : pp[n] \in Str
    BY <1>2
  <1>4. DOMAIN results = 1..Len(results) /\ Len(results) \in Nat
    BY <1>2
  <1> QED
    BY <1>1, <1>3, <1>4

LEMMA InitIInv == Init => IInv
  <1> SUFFICES ASSUME Init PROVE IInv
    OBVIOUS
  <1> USE DEF Init
  <1>1. k \in Nat \ {0} /\ m \in Nat \ {0}
    BY BloomAssumption
  <1>2. Type
    BY <1>1 DEF Type
  <1>3. \A pos : pos \notin BitsSoFar
    BY DEF BitsSoFar
  <1>4. FilterExact
    BY <1>3, BitPlace DEF FilterExact, IsSet
  <1>5. Answers
    BY DEF Answers, NoPatternDenied, YesHasReasons
  <1> QED
    BY <1>2, <1>4, <1>5 DEF IInv, Loops, TestedBitsSet

\* While patterns are loaded there are no bits and no answers.
LEMMA LoadKeeps ==
    ASSUME IInv, NEW s \in Str, Load(s)
    PROVE  IInv'
  <1> USE DEF Load
  <1>1. /\ pp \in Seq(Str) /\ i = 0 /\ j = 0 /\ pc = "load" /\ pc' = "load"
        /\ results = << >>
    BY DEF IInv, Type, Loops
  <1>2. pp' \in Seq(Str) /\ 0 \in 0..Len(pp')
    BY <1>1
  <1>3. Type'
    BY <1>1, <1>2 DEF IInv, Type
  <1>4. BitsSoFar' = BitsSoFar
    BY <1>1 DEF BitsSoFar
  <1>5. FilterExact'
    BY <1>4 DEF IInv, FilterExact, IsSet
  <1>6. Answers'
    BY <1>1 DEF Answers, NoPatternDenied, YesHasReasons
  <1> QED
    BY <1>1, <1>3, <1>5, <1>6 DEF IInv, Loops, TestedBitsSet

\* The two ends of loops.
LEMMA EndKeeps ==
    ASSUME IInv, LoadEnd \/ BuildEnd
    PROVE  IInv'
  <1>1. /\ UNCHANGED <<pp, filter, i, j, pw, wordcount, results>>
        /\ \/ pc = "load" /\ pc' = "build" /\ i = 0 /\ j = 0
           \/ pc = "build" /\ pc' = "read" /\ i = Len(pp)
    BY DEF LoadEnd, BuildEnd, IInv, Loops
  <1>2. k \in Nat \ {0} /\ i \in 0..Len(pp) /\ Len(pp) \in Nat
    BY BloomAssumption, Shapes DEF IInv, Type
  <1>3. Type'
    BY <1>1 DEF IInv, Type
  <1>4. Loops'
    BY <1>1, <1>2 DEF IInv, Loops
  <1>5. BitsSoFar' = BitsSoFar
    BY <1>1, <1>2 DEF BitsSoFar
  <1>6. FilterExact'
    BY <1>1, <1>5 DEF IInv, FilterExact, IsSet
  <1>7. Answers'
    BY <1>1 DEF IInv, Answers, NoPatternDenied, YesHasReasons
  <1> QED
    BY <1>1, <1>3, <1>4, <1>6, <1>7 DEF IInv, TestedBitsSet

\* One bit more: SetBit sets the position it means and no other.
LEMMA SetBitKeeps ==
    ASSUME IInv, SetBit
    PROVE  IInv'
  <1> DEFINE pos == Hash[pp[i + 1]][j]
  <1>1. /\ pc = "build" /\ pc' = "build" /\ i < Len(pp) /\ j < k
        /\ filter' = [filter EXCEPT ![pos \div 8] = @ \cup {Bit(pos)}]
        /\ \/ j + 1 < k /\ j' = j + 1 /\ i' = i
           \/ ~(j + 1 < k) /\ j' = 0 /\ i' = i + 1
        /\ UNCHANGED <<pp, pw, wordcount, results>>
    BY DEF SetBit, IInv, Loops
  <1>2. /\ i \in Nat /\ j \in Nat /\ k \in Nat \ {0} /\ Len(pp) \in Nat
        /\ i + 1 \in 1..Len(pp) /\ j \in 0..k - 1
        /\ filter \in [0..bytes - 1 -> SUBSET (0..7)]
    <2>1. Type /\ i \in 0..Len(pp) /\ j \in 0..k /\ filter \in [0..bytes - 1 -> SUBSET (0..7)]
      BY DEF IInv, Type
    <2>2. Len(pp) \in Nat
      BY <2>1, Shapes
    <2>3. k \in Nat \ {0}
      BY BloomAssumption
    <2> QED
      BY <1>1, <2>1, <2>2, <2>3
  <1>3. pos \in 0..m - 1
    BY <1>2, Shapes DEF IInv
  <1> HIDE DEF pos
  <1>4. pos \div 8 \in 0..bytes - 1 /\ Bit(pos) \in 0..7
    BY <1>3, BitPlace
  <1>5. filter' \in [0..bytes - 1 -> SUBSET (0..7)]
    BY <1>1, <1>2, <1>4
  <1>6. i' \in 0..Len(pp') /\ j' \in 0..k /\ j' < k
    BY <1>1, <1>2
  <1>7. Type'
    BY <1>1, <1>5, <1>6 DEF IInv, Type
  <1>8. Loops'
    BY <1>1, <1>6 DEF IInv, Loops
  <1>9. ASSUME NEW q \in 0..m - 1
        PROVE  IsSet(q)' <=> IsSet(q) \/ q = pos
    <2>1. q \div 8 \in 0..bytes - 1
      BY BitPlace
    <2>2. filter'[q \div 8] = IF q \div 8 = pos \div 8
                              THEN filter[q \div 8] \cup {Bit(pos)} ELSE filter[q \div 8]
      BY <1>1, <1>2, <1>4, <2>1
    <2>3. q \div 8 = pos \div 8 /\ Bit(q) = Bit(pos) <=> q = pos
      BY <1>3, BitPlace
    <2> QED
      BY <2>2, <2>3 DEF IsSet
  <1>10. \A q : q \in BitsSoFar' <=> q \in BitsSoFar \/ q = pos
    <2> DEFINE Old(q) == \E n \in 1..i : \E h \in 0..k - 1 : q = Hash[pp[n]][h]
               Part(q) == \E h \in 0..j - 1 : q = Hash[pp[i + 1]][h]
    <2>1. \A q : q \in BitsSoFar <=> Old(q) \/ Part(q)
      BY <1>1 DEF BitsSoFar
    <2>2. CASE j + 1 < k /\ j' = j + 1 /\ i' = i
      <3>1. 0..j' - 1 = (0..j - 1) \cup {j}
        BY <1>2, <2>2
      <3>2. \A q : q \in BitsSoFar' <=> Old(q) \/ \E h \in 0..j' - 1 : q = Hash[pp[i + 1]][h]
        BY <1>1, <2>2 DEF BitsSoFar
      <3> QED
        BY <2>1, <3>1, <3>2 DEF pos
    <2>3. CASE ~(j + 1 < k) /\ j' = 0 /\ i' = i + 1
      <3>1. 0..k - 1 = (0..j - 1) \cup {j} /\ 1..i' = (1..i) \cup {i + 1} /\ 0..j' - 1 = {}
        BY <1>1, <1>2, <2>3
      <3>2. \A q : q \in BitsSoFar' <=> \E n \in 1..i' : \E h \in 0..k - 1 : q = Hash[pp[n]][h]
        BY <1>1, <3>1 DEF BitsSoFar
      <3> QED
        BY <2>1, <3>1, <3>2 DEF pos
    <2> QED
      BY <1>1, <2>2, <2>3
  <1>11. FilterExact'
    BY <1>9, <1>10 DEF IInv, FilterExact
  <1>12. Answers'
    BY <1>1 DEF IInv, Answers, NoPatternDenied, YesHasReasons
  <1> QED
    BY <1>1, <1>7, <1>8, <1>11, <1>12 DEF IInv, TestedBitsSet

\* Once the filter is built its bits are those of the patterns.
LEMMA BuiltBits ==
    ASSUME IInv, pc \in {"read", "test"}
    PROVE  \A q \in 0..m - 1 :
              IsSet(q) <=> \E x \in DOMAIN pp : \E g \in 0..k - 1 : q = Hash[pp[x]][g]
  <1>1. i = Len(pp) /\ pc # "build" /\ DOMAIN pp = 1..i
    BY Shapes DEF IInv, Loops
  <1>2. \A q : q \in BitsSoFar <=> \E x \in DOMAIN pp : \E g \in 0..k - 1 : q = Hash[pp[x]][g]
    BY <1>1 DEF BitsSoFar
  <1> QED
    BY <1>2 DEF IInv, FilterExact

\* Reading words and testing bits leaves the filter alone.
LEMMA TestKeeps ==
    ASSUME IInv, (\E w \in Str : ReadWord(w)) \/ BitIsSet
    PROVE  IInv'
  <1>1. /\ UNCHANGED <<pp, filter, i, results>>
        /\ \/ pc = "read" /\ pc' = "test" /\ j' = 0 /\ pw' \in Str
           \/ /\ pc = "test" /\ pc' = "test" /\ j < k /\ IsSet(Hash[pw][j])
              /\ j' = j + 1 /\ pw' = pw
    BY DEF ReadWord, BitIsSet
  <1>2. j \in 0..k /\ k \in Nat \ {0} /\ i = Len(pp)
    BY <1>1, BloomAssumption DEF IInv, Type, Loops
  <1>3. Type'
    BY <1>1, <1>2 DEF IInv, Type
  <1>4. Loops'
    BY <1>1, <1>2 DEF Loops
  <1>5. BitsSoFar' = BitsSoFar
    BY <1>1 DEF BitsSoFar
  <1>6. FilterExact'
    BY <1>1, <1>5 DEF IInv, FilterExact, IsSet
  <1>7. TestedBitsSet'
    <2>1. CASE pc = "read"
      BY <1>1, <2>1 DEF TestedBitsSet
    <2>2. CASE pc = "test"
      <3>1. j' = j + 1 /\ pw' = pw /\ 0..j' - 1 = (0..j - 1) \cup {j}
        BY <1>1, <1>2, <2>2
      <3>2. \A h \in 0..j - 1 : IsSet(Hash[pw][h])
        BY <2>2 DEF IInv, TestedBitsSet
      <3> QED
        BY <1>1, <2>2, <3>1, <3>2 DEF TestedBitsSet, IsSet
    <2> QED
      BY <1>1, <2>1, <2>2
  <1>8. Answers'
    BY <1>1 DEF IInv, Answers, NoPatternDenied, YesHasReasons
  <1> QED
    BY <1>3, <1>4, <1>6, <1>7, <1>8 DEF IInv

\* An answer: "no" because of a clear bit, "yes" because all bits are set.
LEMMA AnswerKeeps ==
    ASSUME IInv, BitIsClear \/ AllSet
    PROVE  IInv'
  <1>1. PICK answer \in {"yes", "no"} :
            /\ results' = Append(results, << pw, answer >>)
            /\ answer = "no" => j < k /\ ~IsSet(Hash[pw][j])
            /\ answer = "yes" => j = k
    BY DEF BitIsClear, AllSet
  <1>2. /\ pc = "test" /\ pc' = "read"
        /\ UNCHANGED <<pp, filter, i, j, pw, wordcount>>
    BY DEF BitIsClear, AllSet
  <1>3. /\ pw \in Str /\ j \in 0..k /\ k \in Nat \ {0} /\ i = Len(pp)
        /\ results \in Seq(Result) /\ << pw, answer >> \in Result
    BY <1>2, BloomAssumption DEF IInv, Type, Loops, Result
  <1>4. /\ results' \in Seq(Result) /\ Len(results) \in Nat
        /\ DOMAIN results' = 1..Len(results) + 1 /\ DOMAIN results = 1..Len(results)
        /\ \A n \in DOMAIN results : results'[n] = results[n]
        /\ results'[Len(results) + 1] = << pw, answer >>
    BY <1>1, <1>3
  <1>5. \A n \in DOMAIN results' : n \in DOMAIN results \/ n = Len(results) + 1
    BY <1>4
  <1>6. Type'
    BY <1>2, <1>4 DEF IInv, Type
  <1>7. Loops'
    BY <1>2, <1>3 DEF Loops
  <1>8. BitsSoFar' = BitsSoFar
    BY <1>2 DEF BitsSoFar
  <1>9. FilterExact'
    BY <1>2, <1>8 DEF IInv, FilterExact, IsSet
  <1>10. NoPatternDenied'
    <2>1. ASSUME answer = "no", NEW x \in DOMAIN pp, pp[x] = pw
          PROVE  FALSE
      <3>1. j \in 0..k - 1 /\ Hash[pw][j] \in 0..m - 1
        BY <1>1, <1>3, <2>1, Shapes DEF IInv
      <3>2. IsSet(Hash[pw][j])
        BY <1>2, <2>1, <3>1, BuiltBits
      <3> QED
        BY <1>1, <2>1, <3>2
    <2> QED
      BY <1>2, <1>4, <1>5, <2>1 DEF IInv, Answers, NoPatternDenied
  <1>11. YesHasReasons'
    <2>1. ASSUME answer = "yes", NEW h \in 0..k - 1
          PROVE  \E x \in DOMAIN pp : \E g \in 0..k - 1 : Hash[pw][h] = Hash[pp[x]][g]
      <3>1. IsSet(Hash[pw][h])
        BY <1>1, <1>2, <2>1 DEF IInv, TestedBitsSet
      <3>2. Hash[pw][h] \in 0..m - 1
        BY <1>3, Shapes DEF IInv
      <3> QED
        BY <1>2, <3>1, <3>2, BuiltBits
    <2>2. ASSUME NEW n \in DOMAIN results', results'[n][2] = "yes", NEW h \in 0..k - 1
          PROVE  \E x \in DOMAIN pp : \E g \in 0..k - 1 :
                    Hash[results'[n][1]][h] = Hash[pp[x]][g]
      <3>1. CASE n \in DOMAIN results
        <4>1. results'[n] = results[n] /\ results[n][2] = "yes"
          BY <1>4, <2>2, <3>1
        <4>2. \E x \in DOMAIN pp : \E g \in 0..k - 1 : Hash[results[n][1]][h] = Hash[pp[x]][g]
          BY <3>1, <4>1 DEF IInv, Answers, YesHasReasons
        <4> QED
          BY <4>1, <4>2
      <3>2. CASE n = Len(results) + 1
        <4>1. results'[n] = << pw, answer >>
          BY <1>4, <3>2
        <4>2. results'[n][1] = pw /\ answer = "yes"
          BY <2>2, <4>1
        <4> QED
          BY <2>1, <4>2
      <3> QED
        BY <1>5, <2>2, <3>1, <3>2
    <2> QED
      BY <1>2, <2>2 DEF YesHasReasons
  <1> QED
    BY <1>2, <1>6, <1>7, <1>9, <1>10, <1>11 DEF IInv, TestedBitsSet, Answers

LEMMA StutterKeeps ==
    ASSUME IInv, UNCHANGED vars
    PROVE  IInv'
  BY DEF vars, IInv, Type, Loops, FilterExact, BitsSoFar, IsSet, TestedBitsSet,
         Answers, NoPatternDenied, YesHasReasons

\* The filter holds the bits of the patterns, and the answers follow from it,
\* in every reachable state.
THEOREM InvariantIInv == Spec => []IInv
  <1>1. IInv /\ [Next]_vars => IInv'
    BY LoadKeeps, EndKeeps, SetBitKeeps, TestKeeps, AnswerKeeps, StutterKeeps DEF Next, Done
  <1> QED
    BY <1>1, InitIInv, PTL DEF Spec

\* A position of the filter is set exactly when some pattern has it.
THEOREM FilterIsExact == Spec => []FilterExact
  BY InvariantIInv, PTL DEF IInv

\* The filter has no false negatives: a pattern is never answered "no".
THEOREM NoFalseNegative == Spec => []NoPatternDenied
  BY InvariantIInv, PTL DEF IInv, Answers

\* A word is answered "yes" only for bits that patterns have set.
THEOREM YesIsJustified == Spec => []YesHasReasons
  BY InvariantIInv, PTL DEF IInv, Answers
=============================================================================
