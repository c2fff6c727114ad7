-------------------------- MODULE HashTableProofs ---------------------------
(***************************************************************************)
(* Proofs about HashTable, for every hash function, any set of strings,    *)
(* and any number of patterns and words; about ArraySearch; and about      *)
(* CountTable, for every hash function and number of buckets.              *)
(***************************************************************************)
EXTENDS HashTable, MatchingProofs, SequenceTheorems, FiniteSetTheorems, TLAPS

\* What Append does to a sequence.
LEMMA AppendFacts ==
    ASSUME NEW S, NEW s \in Seq(S), NEW e \in S
    PROVE  /\ Append(s, e) \in Seq(S)
           /\ Len(s) \in Nat
           /\ Len(Append(s, e)) = Len(s) + 1
           /\ DOMAIN s = 1..Len(s)
           /\ DOMAIN Append(s, e) = 1..Len(s) + 1
           /\ \A x \in 1..Len(s) : Append(s, e)[x] = s[x]
           /\ Append(s, e)[Len(s) + 1] = e
  OBVIOUS

\* The elements of a sequence after Append.
LEMMA AppendElements ==
    ASSUME NEW S, NEW s \in Seq(S), NEW e \in S
    PROVE  Range(Append(s, e)) = Range(s) \cup {e}
  <1>1. 1..Len(s) + 1 = (1..Len(s)) \cup {Len(s) + 1}
    BY AppendFacts
  <1> QED
    BY <1>1, AppendFacts DEF Range

Chain(w) == hash[Hash[w]]

LEMMA InitIInv == Init => IInv
  <1> SUFFICES ASSUME Init PROVE IInv
    OBVIOUS
  <1>1. TypeOK
    BY HashAssumption DEF Init, TypeOK
  <1>2. ChainsHold
    BY HashAssumption DEF Init, ChainsHold, Range
  <1> QED
    BY <1>1, <1>2 DEF Init, IInv, SearchedInVain, OneAnswerEach

\* What the invariant says about the word being looked up.
LEMMA Buckets ==
    ASSUME IInv
    PROVE  /\ \A s \in Str : /\ Hash[s] \in 0..HLEN - 1
                             /\ Chain(s) \in Seq(Nat)
                             /\ Len(Chain(s)) \in Nat
                             /\ DOMAIN Chain(s) = 1..Len(Chain(s))
                             /\ \A n \in 1..i : Hash[pp[n]] = Hash[s] =>
                                   \E x \in DOMAIN Chain(s) : Chain(s)[x] = n
                             /\ \A x \in DOMAIN Chain(s) : Chain(s)[x] \in 1..i
           /\ DOMAIN pp = 1..Len(pp) /\ Len(pp) \in Nat
           /\ \A n \in 1..Len(pp) : pp[n] \in Str
  <1>1. \A s \in Str : Hash[s] \in 0..HLEN - 1
    BY HashAssumption
  <1>2. \A s \in Str : Chain(s) \in Seq(Nat)
    BY <1>1 DEF IInv, TypeOK, Chain
  <1>3. \A s \in Str : Range(Chain(s)) =
                          {n \in 1..i : Hash[pp[n]] = Hash[s]}
    BY <1>1 DEF IInv, ChainsHold, Chain
  <1>4. pp \in Seq(Str)
    BY DEF IInv, TypeOK
  <1>5. DOMAIN pp = 1..Len(pp) /\ Len(pp) \in Nat /\ \A n \in 1..Len(pp) : pp[n] \in Str
    BY <1>4
  <1>6. ASSUME NEW s \in Str
        PROVE  /\ Len(Chain(s)) \in Nat
               /\ DOMAIN Chain(s) = 1..Len(Chain(s))
    BY <1>2
  <1>7. ASSUME NEW s \in Str
        PROVE  /\ \A n \in 1..i : Hash[pp[n]] = Hash[s] =>
                      \E x \in DOMAIN Chain(s) : Chain(s)[x] = n
               /\ \A x \in DOMAIN Chain(s) : Chain(s)[x] \in 1..i
    <2>1. \A n : n \in Range(Chain(s)) <=>
                 n \in 1..i /\ Hash[pp[n]] = Hash[s]
      BY <1>3
    <2> QED
      BY <2>1 DEF Range
  <1> QED
    BY <1>1, <1>2, <1>5, <1>6, <1>7

\* A pattern more in the array.
LEMMA LoadKeeps ==
    ASSUME IInv, NEW s \in Str, Load(s)
    PROVE  IInv'
  <1> USE DEF Load
  <1>1. pp \in Seq(Str) /\ i \in 0..Len(pp)
    BY DEF IInv, TypeOK
  <1>2. /\ pp' \in Seq(Str) /\ Len(pp') = Len(pp) + 1 /\ Len(pp) \in Nat
        /\ \A n \in 1..Len(pp) : pp'[n] = pp[n]
    BY <1>1, AppendFacts
  <1>3. i' \in 0..Len(pp')
    BY <1>1, <1>2
  <1>4. TypeOK'
    BY <1>2, <1>3 DEF IInv, TypeOK
  <1>5. \A n \in 1..i : pp'[n] = pp[n]
    BY <1>1, <1>2
  <1>6. ASSUME NEW b \in 0..HLEN - 1
        PROVE  {n \in 1..i : Hash[pp'[n]] = b} = {n \in 1..i : Hash[pp[n]] = b}
    BY <1>5
  <1>7. ChainsHold'
    BY <1>6 DEF IInv, ChainsHold
  <1> QED
    BY <1>4, <1>7 DEF IInv, SearchedInVain, OneAnswerEach

\* A pattern more in its chain.
LEMMA BuildKeeps ==
    ASSUME IInv, Build
    PROVE  IInv'
  <1> DEFINE h == Hash[pp[i + 1]]
  <1> USE DEF Build
  <1>1. i \in Nat /\ i + 1 \in 1..Len(pp) /\ i' = i + 1 /\ i + 1 \in Nat
    BY DEF IInv, TypeOK
  <1>2. pp[i + 1] \in Str /\ h \in 0..HLEN - 1
    BY <1>1, Buckets
  <1>3. hash[h] \in Seq(Nat)
    BY <1>2 DEF IInv, TypeOK
  <1>4. /\ hash' = [hash EXCEPT ![h] = Append(hash[h], i + 1)]
        /\ hash \in [0..HLEN - 1 -> Seq(Nat)]
    BY DEF IInv, TypeOK
  <1>5. Append(hash[h], i + 1) \in Seq(Nat)
    BY <1>1, <1>3, AppendFacts
  <1>6. hash' \in [0..HLEN - 1 -> Seq(Nat)]
    BY <1>4, <1>5
  <1>7. i' \in 0..Len(pp')
    BY <1>1
  <1>8. TypeOK'
    BY <1>6, <1>7 DEF IInv, TypeOK
  <1>9. ASSUME NEW b \in 0..HLEN - 1
        PROVE  Range(hash'[b]) = {n \in 1..i' : Hash[pp'[n]] = b}
    <2>1. 1..i' = (1..i) \cup {i + 1}
      BY <1>1
    <2>2. Range(hash[b]) = {n \in 1..i : Hash[pp[n]] = b}
      BY DEF IInv, ChainsHold
    <2>3. CASE b = h
      <3>1. hash'[b] = Append(hash[h], i + 1)
        BY <1>4, <2>3
      <3>2. \A chain \in Seq(Nat), n \in Nat : Range(Append(chain, n)) = Range(chain) \cup {n}
        BY AppendElements
      <3>3. Range(hash'[b]) = Range(hash[h]) \cup {i + 1}
        BY <1>1, <1>3, <3>1, <3>2
      <3>4. {n \in 1..i' : Hash[pp'[n]] = b} = {n \in 1..i : Hash[pp[n]] = b} \cup {i + 1}
        BY <2>1, <2>3
      <3> QED
        BY <2>2, <2>3, <3>3, <3>4
    <2>4. CASE b # h
      <3>1. hash'[b] = hash[b]
        BY <1>4, <2>4
      <3>2. {n \in 1..i' : Hash[pp'[n]] = b} = {n \in 1..i : Hash[pp[n]] = b}
        BY <2>1, <2>4
      <3> QED
        BY <2>2, <3>1, <3>2
    <2> QED
      BY <2>3, <2>4
  <1>10. ChainsHold'
    BY <1>9 DEF ChainsHold
  <1> QED
    BY <1>8, <1>10 DEF IInv, SearchedInVain, OneAnswerEach

\* A word is read, and answered at once if its chain is empty.
LEMMA ReadWordKeeps ==
    ASSUME IInv, NEW w \in Str, ReadWord(w)
    PROVE  IInv'
  <1>1. /\ wordcount \in Nat /\ results \in Seq(Str \X {"yes", "no"})
        /\ << w, "no" >> \in Str \X {"yes", "no"}
        /\ wordcount = Len(results) /\ i = Len(pp)
    BY DEF ReadWord, IInv, TypeOK, OneAnswerEach, SearchedInVain
  <1>2. /\ results' = Append(results, << w, "no" >>) =>
              /\ results' \in Seq(Str \X {"yes", "no"})
              /\ Len(results') = Len(results) + 1
        /\ Len(results) \in Nat
    BY <1>1, AppendFacts
  <1>3. /\ pw' = w /\ pi' = 1 /\ wordcount' = wordcount + 1
        /\ UNCHANGED <<pp, hash, i>>
        /\ \/ pc' = "read" /\ results' = Append(results, << w, "no" >>)
           \/ pc' = "compare" /\ results' = results
    BY DEF ReadWord
  <1>4. TypeOK'
    BY <1>1, <1>2, <1>3 DEF IInv, TypeOK
  <1>5. ChainsHold'
    BY <1>3 DEF IInv, ChainsHold
  <1>6. OneAnswerEach'
    BY <1>1, <1>2, <1>3 DEF OneAnswerEach
  <1>7. SearchedInVain'
    <2>1. hash'[Hash[pw']] = Chain(w) /\ Len(Chain(w)) \in Nat
      BY <1>3, Buckets DEF Chain
    <2> QED
      BY <1>1, <1>3, <2>1 DEF SearchedInVain
  <1> QED
    BY <1>4, <1>5, <1>6, <1>7 DEF IInv

\* An answer after the search of a chain.
LEMMA AnswerKeeps ==
    ASSUME IInv, Same \/ NotFound
    PROVE  IInv'
  <1> USE DEF Same, NotFound
  <1>1. PICK answer \in {"yes", "no"} : results' = Append(results, << pw, answer >>)
    OBVIOUS
  <1>2. /\ pw \in Str /\ wordcount \in Nat /\ results \in Seq(Str \X {"yes", "no"})
        /\ pc = "compare" /\ pc' = "read"
        /\ UNCHANGED <<pp, hash, i, pw, pi, wordcount>>
    BY DEF IInv, TypeOK
  <1>3. << pw, answer >> \in Str \X {"yes", "no"}
    BY <1>2
  <1>4. /\ results' \in Seq(Str \X {"yes", "no"})
        /\ Len(results') = Len(results) + 1
        /\ Len(results) \in Nat
    BY <1>1, <1>2, <1>3, AppendFacts
  <1>5. TypeOK'
    BY <1>2, <1>4 DEF IInv, TypeOK
  <1> QED
    BY <1>2, <1>4, <1>5 DEF IInv, ChainsHold, SearchedInVain, OneAnswerEach

\* The search goes on along the chain.
LEMMA DifferentKeeps ==
    ASSUME IInv, Different
    PROVE  IInv'
  <1> USE DEF Different
  <1>1. pw \in Str /\ pi \in Nat \ {0} /\ pc = "compare"
    BY DEF IInv, TypeOK
  <1>2. Len(Chain(pw)) \in Nat /\ pi <= Len(Chain(pw))
    BY <1>1, Buckets DEF Chain
  <1>3. pi' <= Len(Chain(pw)) + 1 /\ 1..pi' - 1 = (1..pi - 1) \cup {pi}
    BY <1>1, <1>2
  <1>4. \A x \in 1..pi' - 1 : pp[Chain(pw)[x]] # pw
    BY <1>1, <1>3 DEF IInv, SearchedInVain, Chain
  <1>5. SearchedInVain'
    BY <1>3, <1>4 DEF IInv, SearchedInVain, Chain
  <1>6. TypeOK'
    BY <1>1 DEF IInv, TypeOK
  <1> QED
    BY <1>5, <1>6 DEF IInv, ChainsHold, OneAnswerEach

\* The other steps change the program counter only, or nothing.
LEMMA RestKeeps ==
    ASSUME IInv, LoadEnd \/ BuildEnd \/ Done \/ UNCHANGED vars
    PROVE  IInv'
  <1>1. /\ UNCHANGED <<pp, hash, i, pw, pi, wordcount, results>>
        /\ \/ pc = "load" /\ pc' = "build"
           \/ pc = "build" /\ pc' = "read" /\ i = Len(pp)
           \/ UNCHANGED pc
    BY DEF LoadEnd, BuildEnd, Done, vars
  <1>2. TypeOK'
    BY <1>1 DEF IInv, TypeOK
  <1>3. ChainsHold'
    BY <1>1 DEF IInv, ChainsHold
  <1>4. SearchedInVain'
    BY <1>1 DEF IInv, SearchedInVain
  <1>5. OneAnswerEach'
    BY <1>1 DEF IInv, OneAnswerEach
  <1> QED
    BY <1>2, <1>3, <1>4, <1>5 DEF IInv

\* The chains hold the patterns, a search has passed no equal pattern, and
\* every word has one answer, in every reachable state.
THEOREM InvariantIInv == Spec => []IInv
  <1>1. IInv /\ [Next]_vars => IInv'
    BY LoadKeeps, BuildKeeps, ReadWordKeeps, AnswerKeeps, DifferentKeeps, RestKeeps DEF Next
  <1> QED
    BY <1>1, InitIInv, PTL DEF Spec

\* hash[b] chains exactly the patterns with that hash.
THEOREM ChainsHoldAlways == Spec => []ChainsHold
  BY InvariantIInv, PTL DEF IInv

\* Each word is answered exactly once.
THEOREM OneAnswer == Spec => []OneAnswerEach
  BY InvariantIInv, PTL DEF IInv

-----------------------------------------------------------------------------

\* "no" at once: with an empty chain no pattern has the word's hash.
LEMMA ReadWordImplements ==
    ASSUME IInv, NEW w \in Str, ReadWord(w)
    PROVE  [Abstract!Next]_(Abstract!vars)
  <1> USE DEF ReadWord
  <1>1. Patterns' = Patterns
    BY DEF Patterns
  <1>2. CASE hash[Hash[w]] = << >> /\ results' = Append(results, << w, "no" >>)
    <2>1. i = Len(pp)
      BY DEF IInv, SearchedInVain
    <2>2. \A n \in 1..i : Hash[pp[n]] # Hash[w]
      BY <1>2, Buckets DEF Chain
    <2>3. w \notin Patterns
      BY <2>1, <2>2, Buckets DEF Patterns, Range
    <2>4. Abstract!Search(w)
      BY <1>1, <1>2, <2>3 DEF Abstract!Search
    <2> QED
      BY <2>4 DEF Abstract!Next
  <1>3. CASE UNCHANGED results
    BY <1>1, <1>3 DEF Abstract!vars
  <1> QED
    BY <1>2, <1>3

\* "yes": the word is a pattern of its chain.
LEMMA SameImplements ==
    ASSUME IInv, Same
    PROVE  [Abstract!Next]_(Abstract!vars)
  <1> USE DEF Same
  <1>1. Patterns' = Patterns
    BY DEF Patterns
  <1>2. pw \in Str /\ pi \in Nat \ {0} /\ i = Len(pp)
    BY DEF IInv, TypeOK, SearchedInVain
  <1>3. pi \in DOMAIN Chain(pw)
    BY <1>2, Buckets DEF Chain
  <1>4. Chain(pw)[pi] \in 1..Len(pp)
    BY <1>2, <1>3, Buckets
  <1>5. pp[Chain(pw)[pi]] = pw
    BY DEF Chain
  <1>6. pw \in Patterns
    BY <1>4, <1>5, Buckets DEF Patterns, Range
  <1>7. Abstract!Search(pw)
    BY <1>1, <1>6 DEF Abstract!Search
  <1> QED
    BY <1>2, <1>7 DEF Abstract!Next

\* "no" at the end of the chain: all patterns with the word's hash were passed.
LEMMA NotFoundImplements ==
    ASSUME IInv, NotFound
    PROVE  [Abstract!Next]_(Abstract!vars)
  <1> USE DEF NotFound
  <1>1. Patterns' = Patterns
    BY DEF Patterns
  <1>2. pw \in Str /\ pi \in Nat \ {0} /\ i = Len(pp)
    BY DEF IInv, TypeOK, SearchedInVain
  <1>3. /\ DOMAIN Chain(pw) = 1..Len(Chain(pw)) /\ Len(Chain(pw)) \in Nat
        /\ pi > Len(Chain(pw))
    BY <1>2, Buckets DEF Chain
  <1>4. \A x \in DOMAIN Chain(pw) : pp[Chain(pw)[x]] # pw
    <2>1. \A x \in DOMAIN Chain(pw) : x \in 1..pi - 1
      BY <1>2, <1>3
    <2>2. \A x \in 1..pi - 1 : pp[Chain(pw)[x]] # pw
      BY DEF IInv, SearchedInVain, Chain
    <2> QED
      BY <2>1, <2>2
  <1>5. ASSUME NEW n \in 1..Len(pp), pp[n] = pw
        PROVE  FALSE
    <2>1. PICK x \in DOMAIN Chain(pw) : Chain(pw)[x] = n
      BY <1>2, <1>5, Buckets
    <2> QED
      BY <1>4, <1>5, <2>1
  <1>6. pw \notin Patterns
    BY <1>5, Buckets DEF Patterns, Range
  <1>7. Abstract!Search(pw)
    BY <1>1, <1>6 DEF Abstract!Search
  <1> QED
    BY <1>2, <1>7 DEF Abstract!Next

\* Loading a pattern.
LEMMA LoadImplements ==
    ASSUME IInv, NEW s \in Str, Load(s)
    PROVE  [Abstract!Next]_(Abstract!vars)
  <1>1. pp \in Seq(Str)
    BY DEF IInv, TypeOK
  <1>2. Patterns' = Patterns \cup {s}
    BY <1>1, AppendElements DEF Load, Patterns
  <1>3. Abstract!Load(s)
    BY <1>2 DEF Load, Abstract!Load
  <1> QED
    BY <1>3 DEF Abstract!Next

\* The hash table with its chains implements the dictionary search: a word is
\* answered "yes" exactly when it is one of the patterns.
THEOREM HashTableImplementsMembership == Spec => ImplementsMembership
  <1>1. Init => Abstract!Init
    BY DEF Init, Abstract!Init, Patterns, Range
  <1>2. IInv /\ [Next]_vars => [Abstract!Next]_(Abstract!vars)
    <2> SUFFICES ASSUME IInv, [Next]_vars PROVE [Abstract!Next]_(Abstract!vars)
      OBVIOUS
    <2>1. CASE LoadEnd \/ Build \/ BuildEnd \/ Different \/ Done \/ UNCHANGED vars
      BY <2>1 DEF LoadEnd, Build, BuildEnd, Different, Done, vars, Patterns, Abstract!vars
    <2> QED
      BY <2>1, LoadImplements, ReadWordImplements, SameImplements, NotFoundImplements DEF Next
  <1> QED
    BY <1>1, <1>2, InvariantIInv, PTL DEF Spec, ImplementsMembership, Abstract!Spec

-----------------------------------------------------------------------------
(* The array search                                                        *)

VARIABLES arr_pp, arr_pc, arr_pw, arr_i, arr_wordcount, arr_results

Array == INSTANCE ArraySearch
            WITH pp <- arr_pp, pc <- arr_pc, pw <- arr_pw, i <- arr_i,
                 wordcount <- arr_wordcount, results <- arr_results

\* The word is none of the patterns that it has been compared with, which are
\* the last ones of the array.
ArrayInv == /\ arr_pp \in Seq(Str) /\ arr_pw \in Str
            /\ arr_i \in Nat
            /\ arr_pc = "compare" =>
                  /\ arr_i <= Len(arr_pp)
                  /\ \A x \in 1..Len(arr_pp) : x > Len(arr_pp) - arr_i => arr_pp[x] # arr_pw

LEMMA ArrayRange == Array!Range(arr_pp) = {arr_pp[x] : x \in DOMAIN arr_pp}
  BY DEF Array!Range

LEMMA ArrayStep ==
    ASSUME ArrayInv, [Array!Next]_(Array!vars)
    PROVE  ArrayInv' /\ [Array!Abstract!Next]_(Array!Abstract!vars)
  <1>1. /\ arr_pp \in Seq(Str) /\ arr_pw \in Str /\ arr_i \in Nat
        /\ Len(arr_pp) \in Nat /\ DOMAIN arr_pp = 1..Len(arr_pp)
    BY DEF ArrayInv
  <1>2. arr_pp' = arr_pp => Array!Range(arr_pp)' = Array!Range(arr_pp)
    BY ArrayRange
  <1>3. ASSUME arr_pp' = arr_pp, arr_results' = arr_results
        PROVE  UNCHANGED Array!Abstract!vars
    BY <1>2, <1>3 DEF Array!Abstract!vars
  <1>4. CASE \E s \in Str : Array!Load(s)
    <2>1. PICK s \in Str : Array!Load(s)
      BY <1>4
    <2>2. /\ arr_pp' = Append(arr_pp, s) /\ arr_pc' = "load"
          /\ UNCHANGED <<arr_pw, arr_i, arr_results>>
      BY <2>1 DEF Array!Load
    <2>3. ArrayInv'
      BY <1>1, <2>2, AppendFacts DEF ArrayInv
    <2>4. Array!Range(arr_pp)' = Array!Range(arr_pp) \cup {s}
      <3>1. Range(Append(arr_pp, s)) = Range(arr_pp) \cup {s}
        BY <1>1, AppendElements
      <3> QED
        BY <2>2, <3>1 DEF Range, Array!Range
    <2>5. Array!Abstract!Load(s)
      BY <2>2, <2>4 DEF Array!Abstract!Load
    <2> QED
      BY <2>3, <2>5 DEF Array!Abstract!Next
  <1>5. CASE \E w \in Str : Array!ReadWord(w)
    <2>1. PICK w \in Str : Array!ReadWord(w)
      BY <1>5
    <2>2. arr_pw' = w /\ arr_i' = 0 /\ arr_pp' = arr_pp /\ arr_results' = arr_results
      BY <2>1 DEF Array!ReadWord
    <2>3. ArrayInv'
      BY <1>1, <2>2 DEF ArrayInv
    <2> QED
      BY <1>3, <2>2, <2>3
  <1>6. CASE Array!Same
    <2>1. /\ arr_i < Len(arr_pp) /\ arr_pp[Len(arr_pp) - arr_i] = arr_pw
          /\ arr_results' = Append(arr_results, << arr_pw, "yes" >>) /\ arr_pc' = "read"
          /\ UNCHANGED <<arr_pp, arr_pw, arr_i>>
      BY <1>6 DEF Array!Same, Array!length
    <2>2. ArrayInv'
      BY <1>1, <2>1 DEF ArrayInv
    <2>3. Len(arr_pp) - arr_i \in 1..Len(arr_pp)
      BY <1>1, <2>1
    <2>4. arr_pw \in Array!Range(arr_pp)
      BY <1>1, <2>1, <2>3, ArrayRange
    <2>5. Array!Abstract!Search(arr_pw)
      BY <1>2, <2>1, <2>4 DEF Array!Abstract!Search
    <2> QED
      BY <1>1, <2>2, <2>5 DEF Array!Abstract!Next
  <1>7. CASE Array!Different
    <2>1. /\ arr_pc = "compare" /\ arr_i < Len(arr_pp)
          /\ arr_pp[Len(arr_pp) - arr_i] # arr_pw /\ arr_i' = arr_i + 1
          /\ UNCHANGED <<arr_pp, arr_pc, arr_pw, arr_results>>
      BY <1>7 DEF Array!Different, Array!length
    <2>2. \A x \in 1..Len(arr_pp) :
             x > Len(arr_pp) - (arr_i + 1) =>
                x > Len(arr_pp) - arr_i \/ x = Len(arr_pp) - arr_i
      <3>1. \A l, m, x \in Int : x > l - (m + 1) => x > l - m \/ x = l - m
        OBVIOUS
      <3>2. Len(arr_pp) \in Int /\ arr_i \in Int /\ \A x \in 1..Len(arr_pp) : x \in Int
        BY <1>1
      <3> QED
        BY <3>1, <3>2
    <2>3. \A x \in 1..Len(arr_pp) : x > Len(arr_pp) - arr_i => arr_pp[x] # arr_pw
      BY <2>1 DEF ArrayInv
    <2>4. \A x \in 1..Len(arr_pp) : x > Len(arr_pp) - (arr_i + 1) => arr_pp[x] # arr_pw
      BY <2>1, <2>2, <2>3
    <2>5. arr_i + 1 \in Nat /\ arr_i + 1 <= Len(arr_pp)
      BY <1>1, <2>1
    <2>6. ArrayInv'
      BY <1>1, <2>1, <2>4, <2>5 DEF ArrayInv
    <2> QED
      BY <1>3, <2>1, <2>6
  <1>8. CASE Array!NotFound
    <2>1. /\ arr_pc = "compare" /\ arr_i = Len(arr_pp)
          /\ arr_results' = Append(arr_results, << arr_pw, "no" >>) /\ arr_pc' = "read"
          /\ UNCHANGED <<arr_pp, arr_pw, arr_i>>
      BY <1>8 DEF Array!NotFound, Array!length
    <2>2. ArrayInv'
      BY <1>1, <2>1 DEF ArrayInv
    <2>3. \A x \in 1..Len(arr_pp) : x > Len(arr_pp) - arr_i
      BY <1>1, <2>1
    <2>4. \A x \in 1..Len(arr_pp) : arr_pp[x] # arr_pw
      BY <2>1, <2>3 DEF ArrayInv
    <2>5. arr_pw \notin Array!Range(arr_pp)
      BY <1>1, <2>4, ArrayRange
    <2>6. Array!Abstract!Search(arr_pw)
      BY <1>2, <2>1, <2>5 DEF Array!Abstract!Search
    <2> QED
      BY <1>1, <2>2, <2>6 DEF Array!Abstract!Next
  <1>9. CASE Array!LoadEnd \/ Array!Done \/ UNCHANGED Array!vars
    <2>1. /\ UNCHANGED <<arr_pp, arr_pw, arr_i, arr_results>>
          /\ arr_pc' = arr_pc \/ arr_pc' = "read"
      BY <1>9 DEF Array!LoadEnd, Array!Done, Array!vars
    <2>2. ArrayInv'
      BY <1>1, <2>1 DEF ArrayInv
    <2> QED
      BY <1>3, <2>1, <2>2
  <1> QED
    BY <1>4, <1>5, <1>6, <1>7, <1>8, <1>9 DEF Array!Next

\* The array search implements the dictionary search, too, for any strings and
\* any number of patterns and words.
THEOREM ArraySearchImplementsMembership == Array!Spec => Array!ImplementsMembership
  <1>1. Array!Init => ArrayInv /\ Array!Abstract!Init
    <2> SUFFICES ASSUME Array!Init PROVE ArrayInv /\ Array!Abstract!Init
      OBVIOUS
    <2>1. arr_pp = << >> /\ arr_pc = "load" /\ arr_pw \in Str /\ arr_i = 0 /\ arr_results = << >>
      BY DEF Array!Init
    <2>2. Array!Range(arr_pp) = {}
      BY <2>1, ArrayRange
    <2> QED
      BY <2>1, <2>2 DEF ArrayInv, Array!Abstract!Init
  <1>2. ArrayInv /\ [Array!Next]_(Array!vars) =>
           ArrayInv' /\ [Array!Abstract!Next]_(Array!Abstract!vars)
    BY ArrayStep
  <1> QED
    BY <1>1, <1>2, PTL DEF Array!Spec, Array!ImplementsMembership, Array!Abstract!Spec

-----------------------------------------------------------------------------
(* The table of counts of lab3, with the same strings and hash function    *)
(* for constants                                                           *)

CONSTANT MaxPuts

VARIABLES hashtable, count, puts, ht_pc, group, stride, ht_i, pa, pb, lc

\* The table, with pc and i under names of their own.
Counts == INSTANCE CountTable
             WITH Key <- Str, HASH_LENGTH <- HLEN, pc <- ht_pc, i <- ht_i

-----------------------------------------------------------------------------
(* The buckets in the rounds of merges                                     *)

\* Quotient and remainder.
LEMMA Division ==
    ASSUME NEW b \in Nat, NEW s \in Nat, s > 0, NEW q, q = b \div s, NEW r, r = b % s
    PROVE  q \in Nat /\ r \in 0..s - 1 /\ b = s * q + r
  <1>1. q \in Int /\ r \in 0..s - 1 /\ b = s * q + r
    OBVIOUS
  <1>2. ASSUME q < 0 PROVE FALSE
    <2>1. s * q <= -s
      BY <1>1, <1>2
    <2> QED
      BY <1>1, <2>1
  <1> QED
    BY <1>1, <1>2

\* Multiplying by a positive number keeps the order.
LEMMA SameOrder ==
    ASSUME NEW x \in Int, NEW y \in Int, NEW s \in Nat, s > 0
    PROVE  x * s < y * s <=> x < y
  <1>1. CASE x < y
    <2>1. y - x >= 1 /\ y - x \in Int
      BY <1>1
    <2>2. (y - x) * s >= s
      BY <2>1
    <2> QED
      BY <1>1, <2>2
  <1>2. CASE x >= y
    <2>1. x - y >= 0 /\ x - y \in Int
      BY <1>2
    <2>2. (x - y) * s >= 0
      BY <2>1
    <2> QED
      BY <1>2, <2>2
  <1> QED
    BY <1>1, <1>2

\* A remainder of 0 means a multiple.
LEMMA Multiple ==
    ASSUME NEW b \in Nat, NEW s \in Nat, s > 0
    PROVE  b % s = 0 <=> \E x \in Nat : b = x * s
  <1>1. ASSUME b % s = 0 PROVE \E x \in Nat : b = x * s
    <2> DEFINE q == b \div s
    <2> DEFINE r == b % s
    <2>1. q \in Nat /\ r \in 0..s - 1 /\ b = s * q + r
      BY Division
    <2>2. r = 0
      BY <1>1
    <2> HIDE DEF q, r
    <2>3. b = q * s
      BY <2>1, <2>2
    <2> QED
      BY <2>1, <2>3
  <1>2. ASSUME NEW x \in Nat, b = x * s PROVE b % s = 0
    <2> DEFINE q == b \div s
    <2> DEFINE r == b % s
    <2>1. q \in Nat /\ r \in 0..s - 1 /\ b = s * q + r
      BY Division
    <2> HIDE DEF q, r
    <2>2. x * s < (q + 1) * s
      BY <1>2, <2>1
    <2>3. q + 1 \in Int /\ x \in Int
      BY <2>1
    <2>4. x < q + 1
      BY <2>2, <2>3, SameOrder
    <2>5. ~(x < q)
      <3> SUFFICES ASSUME x < q PROVE FALSE
        OBVIOUS
      <3>1. x * s < q * s
        BY <2>1, SameOrder
      <3> QED
        BY <1>2, <2>1, <3>1
    <2>6. x = q
      BY <2>1, <2>4, <2>5
    <2>7. r = 0
      BY <1>2, <2>1, <2>6
    <2> QED
      BY <2>7 DEF r
  <1> QED
    BY <1>1, <1>2

\* The buckets left in the round of stride s when those before d are dealt with.
Left(s, d) == {b \in Counts!Bucket : b % s = 0 /\ (b < d => b % (2 * s) = 0)}

\* Of the multiples of s every second one is a multiple of 2s.
LEMMA TimesTwo ==
    ASSUME NEW s \in Nat, s > 0, NEW x \in Nat
    PROVE  (x * s) % (2 * s) = 0 <=> \E y \in Nat : x = 2 * y
  <1>1. x * s \in Nat /\ 2 * s \in Nat /\ 2 * s > 0
    OBVIOUS
  <1>2. (x * s) % (2 * s) = 0 <=> \E y \in Nat : x * s = y * (2 * s)
    BY <1>1, Multiple
  <1>3. ASSUME NEW y \in Nat PROVE x * s = y * (2 * s) <=> x = 2 * y
    <2>1. y * (2 * s) = (2 * y) * s /\ 2 * y \in Int
      OBVIOUS
    <2>2. x * s < (2 * y) * s <=> x < 2 * y
      BY <2>1, SameOrder
    <2>3. (2 * y) * s < x * s <=> 2 * y < x
      BY <2>1, SameOrder
    <2> QED
      BY <2>1, <2>2, <2>3
  <1> QED
    BY <1>2, <1>3

\* Every bucket takes part in the first round,
LEMMA AtStart == Left(1, 0) = Counts!Bucket
  <1> SUFFICES ASSUME NEW b \in Counts!Bucket PROVE b % 1 = 0
    BY HashAssumption DEF Left, Counts!Bucket
  <1>1. b \in Nat
    BY HashAssumption DEF Counts!Bucket
  <1> QED
    BY <1>1

\* and bucket 0 alone is left after the last one.
LEMMA AtEnd ==
    ASSUME NEW s \in Nat, s > 0, HLEN <= s
    PROVE  Left(s, 0) = {0}
  <1>1. HLEN \in Nat /\ HLEN > 0
    BY HashAssumption
  <1>2. ASSUME NEW b \in Counts!Bucket, b % s = 0 PROVE b = 0
    <2>1. b \in Nat /\ b < s
      BY <1>1 DEF Counts!Bucket
    <2>2. b % s = b
      BY <2>1
    <2> QED
      BY <1>2, <2>2
  <1>3. 0 \in Counts!Bucket /\ 0 % s = 0
    BY <1>1 DEF Counts!Bucket
  <1>4. \A b \in Counts!Bucket : ~(b < 0)
    BY <1>1 DEF Counts!Bucket
  <1> QED
    BY <1>2, <1>3, <1>4 DEF Left

\* When all pairs are dealt with, the buckets left are those of the next round.
LEMMA NextRound ==
    ASSUME NEW s \in Nat, s > 0, NEW d \in Nat, HLEN <= d
    PROVE  Left(s, d) = Left(2 * s, 0)
  <1>1. HLEN \in Nat /\ HLEN > 0
    BY HashAssumption
  <1>2. \A b \in Counts!Bucket : b \in Nat /\ b < d /\ ~(b < 0)
    BY <1>1 DEF Counts!Bucket
  <1>3. ASSUME NEW b \in Counts!Bucket, b % (2 * s) = 0 PROVE b % s = 0
    <2>1. b \in Nat /\ 2 * s \in Nat /\ 2 * s > 0
      BY <1>2
    <2>2. PICK x \in Nat : b = x * (2 * s)
      BY <1>3, <2>1, Multiple
    <2>3. b = (x * 2) * s /\ x * 2 \in Nat
      BY <2>2
    <2> QED
      BY <2>1, <2>3, Multiple
  <1> QED
    BY <1>2, <1>3 DEF Left

\* The pair that is dealt with next.
LEMMA Pair ==
    ASSUME NEW s \in Nat, s > 0, NEW n \in Nat, NEW a, a = n * 2 * s, a + s < HLEN
    PROVE  /\ a \in Left(s, a) /\ a + s \in Left(s, a)
           /\ a \in Nat /\ a + s # a
  <1>1. a \in Nat /\ a = (2 * n) * s /\ a + s = (2 * n + 1) * s
    OBVIOUS
  <1>2. a \in Counts!Bucket /\ a + s \in Counts!Bucket /\ a + s # a
    BY <1>1, HashAssumption DEF Counts!Bucket
  <1>3. 2 * n \in Nat /\ 2 * n + 1 \in Nat /\ a + s \in Nat
    BY <1>1
  <1>4. a % s = 0 /\ (a + s) % s = 0
    BY <1>1, <1>3, Multiple
  <1>5. ~(a < a) /\ ~(a + s < a)
    BY <1>1
  <1> QED
    BY <1>1, <1>2, <1>4, <1>5 DEF Left

\* A pair dealt with leaves out its second bucket.
LEMMA PairDone ==
    ASSUME NEW s \in Nat, s > 0, NEW n \in Nat, NEW a, a = n * 2 * s
    PROVE  Left(s, (n + 1) * 2 * s) = Left(s, a) \ {a + s}
  <1> DEFINE d == (n + 1) * 2 * s
  <1>1. /\ a \in Nat /\ a = (2 * n) * s /\ a + s = (2 * n + 1) * s
        /\ d = (2 * n + 2) * s /\ d = a + 2 * s /\ d \in Nat
    OBVIOUS
  <1> HIDE DEF d
  <1>2. ASSUME NEW b \in Counts!Bucket, b % s = 0
        PROVE  (b < d => b % (2 * s) = 0) <=> (b < a => b % (2 * s) = 0) /\ b # a + s
    <2>1. b \in Nat
      BY HashAssumption DEF Counts!Bucket
    <2>2. PICK x \in Nat : b = x * s
      BY <1>2, <2>1, Multiple
    <2>3. /\ 2 * n \in Int /\ 2 * n + 1 \in Int /\ 2 * n + 2 \in Int
      OBVIOUS
    <2>4. b < d <=> x < 2 * n + 2
      BY <1>1, <2>2, <2>3, SameOrder
    <2>5. b < a <=> x < 2 * n
      BY <1>1, <2>2, <2>3, SameOrder
    <2>6. b = a + s <=> x = 2 * n + 1
      <3>1. b < a + s <=> x < 2 * n + 1
        BY <1>1, <2>2, <2>3, SameOrder
      <3>2. a + s < b <=> 2 * n + 1 < x
        BY <1>1, <2>2, <2>3, SameOrder
      <3>3. a + s \in Nat
        BY <1>1
      <3> QED
        BY <2>1, <3>1, <3>2, <3>3
    <2>7. b % (2 * s) = 0 <=> \E y \in Nat : x = 2 * y
      BY <2>2, TimesTwo
    <2> DEFINE even == \E y \in Nat : x = 2 * y
    <2>8. x = 2 * n => even
      OBVIOUS
    <2>9. x = 2 * n + 1 => ~even
      OBVIOUS
    <2> HIDE DEF even
    <2>10. (x < 2 * n + 2 => even) <=> (x < 2 * n => even) /\ x # 2 * n + 1
      BY <2>8, <2>9
    <2> QED
      BY <2>4, <2>5, <2>6, <2>7, <2>10 DEF even
  <1> QED
    BY <1>2 DEF Left, d

Entry == [key : Str, value : Nat]

\* A list has at most one entry for a pattern.
NoKeyTwice(list) == \A x, y \in DOMAIN list : list[x].key = list[y].key => x = y

\* No key is in both sets of entries.
Apart(E, F) == \A e \in E, f \in F : e.key # f.key

\* Every entry of the first set has at least the value of each of the second.
NotLess(E, F) == \A e \in E, f \in F : e.value >= f.value

-----------------------------------------------------------------------------
(* Lists of entries                                                        *)

\* The elements of a concatenation.
LEMMA RangeConcat ==
    ASSUME NEW a \in Seq(Entry), NEW b \in Seq(Entry)
    PROVE  /\ a \o b \in Seq(Entry)
           /\ Range(a \o b) = Range(a) \cup Range(b)
  <1>1. /\ a \o b \in Seq(Entry) /\ Len(a \o b) = Len(a) + Len(b)
        /\ \A x \in 1..Len(a) + Len(b) :
              (a \o b)[x] = IF x <= Len(a) THEN a[x] ELSE b[x - Len(a)]
    BY ConcatProperties
  <1>2. /\ Len(a) \in Nat /\ Len(b) \in Nat
        /\ DOMAIN a = 1..Len(a) /\ DOMAIN b = 1..Len(b)
        /\ DOMAIN (a \o b) = 1..Len(a) + Len(b)
    BY <1>1, LenProperties
  <1>3. ASSUME NEW x \in 1..Len(a) + Len(b) PROVE (a \o b)[x] \in Range(a) \cup Range(b)
    <2>1. CASE x <= Len(a)
      BY <1>1, <1>2, <2>1 DEF Range
    <2>2. CASE x > Len(a)
      <3>1. x - Len(a) \in 1..Len(b)
        BY <1>2, <2>2
      <3> QED
        BY <1>1, <1>2, <2>2, <3>1 DEF Range
    <2> QED
      BY <1>2, <2>1, <2>2
  <1>4. ASSUME NEW x \in 1..Len(a) PROVE a[x] \in Range(a \o b)
    <2>1. x \in 1..Len(a) + Len(b) /\ (a \o b)[x] = a[x]
      BY <1>1, <1>2
    <2> QED
      BY <1>2, <2>1 DEF Range
  <1>5. ASSUME NEW x \in 1..Len(b) PROVE b[x] \in Range(a \o b)
    <2>1. /\ x + Len(a) \in 1..Len(a) + Len(b)
          /\ (a \o b)[x + Len(a)] = b[x]
      BY <1>1, <1>2
    <2> QED
      BY <1>2, <2>1 DEF Range
  <1>6. Range(a \o b) \subseteq Range(a) \cup Range(b)
    BY <1>2, <1>3 DEF Range
  <1>7. Range(a) \cup Range(b) \subseteq Range(a \o b)
    BY <1>2, <1>4, <1>5 DEF Range
  <1> QED
    BY <1>1, <1>6, <1>7

\* What is true of a pair of places in a concatenation.
LEMMA PlacesConcat ==
    ASSUME NEW a \in Seq(Entry), NEW b \in Seq(Entry)
    PROVE  /\ NoKeyTwice(a \o b) <=>
                 NoKeyTwice(a) /\ NoKeyTwice(b) /\ Apart(Range(a), Range(b))
           /\ Counts!Sorted(a \o b) <=>
                 Counts!Sorted(a) /\ Counts!Sorted(b) /\ NotLess(Range(a), Range(b))
  <1> DEFINE m == Len(a)
  <1> DEFINE n == Len(b)
  <1> DEFINE ab == a \o b
  <1>1. /\ ab \in Seq(Entry) /\ Len(ab) = m + n
        /\ \A x \in 1..m + n : ab[x] = IF x <= m THEN a[x] ELSE b[x - m]
    BY ConcatProperties
  <1>2. /\ m \in Nat /\ n \in Nat
        /\ DOMAIN a = 1..m /\ DOMAIN b = 1..n /\ DOMAIN ab = 1..m + n
    BY <1>1, LenProperties
  <1> HIDE DEF m, n, ab
  <1>3. \A x \in 1..m : x \in 1..m + n /\ ab[x] = a[x]
    BY <1>1, <1>2
  <1>4. \A x \in 1..n : x + m \in 1..m + n /\ x + m > m /\ ab[x + m] = b[x]
    BY <1>1, <1>2
  <1>5. \A x \in 1..m + n : \/ x \in 1..m
                            \/ \E y \in 1..n : x = y + m
    <2> SUFFICES ASSUME NEW x \in 1..m + n, x \notin 1..m
                 PROVE  \E y \in 1..n : x = y + m
      OBVIOUS
    <2>1. x - m \in 1..n /\ x = (x - m) + m
      BY <1>2
    <2> QED
      BY <2>1
  <1>6. \A x \in 1..m, y \in 1..n : x < y + m
    BY <1>2
  <1>7. \A x, y \in 1..n : (x + m <= y + m <=> x <= y) /\ (x + m = y + m <=> x = y)
    BY <1>2
  <1>8. \A x \in 1..m : \A y \in 1..n : a[x] \in Range(a) /\ b[y] \in Range(b)
    BY <1>2 DEF Range
  <1>9. \A e \in Range(a) : \E x \in 1..m : a[x] = e
    BY <1>2 DEF Range
  <1>10. \A e \in Range(b) : \E x \in 1..n : b[x] = e
    BY <1>2 DEF Range
  <1>11. NoKeyTwice(ab) => NoKeyTwice(a) /\ NoKeyTwice(b) /\ Apart(Range(a), Range(b))
    <2> SUFFICES ASSUME NoKeyTwice(ab)
                 PROVE  NoKeyTwice(a) /\ NoKeyTwice(b) /\ Apart(Range(a), Range(b))
      OBVIOUS
    <2>1. \A x, y \in 1..m + n : ab[x].key = ab[y].key => x = y
      BY <1>2 DEF NoKeyTwice
    <2>2. NoKeyTwice(a)
      BY <1>2, <1>3, <2>1 DEF NoKeyTwice
    <2>3. NoKeyTwice(b)
      BY <1>2, <1>4, <1>7, <2>1 DEF NoKeyTwice
    <2>4. ASSUME NEW x \in 1..m, NEW y \in 1..n PROVE a[x].key # b[y].key
      <3>1. x # y + m
        BY <1>2
      <3> QED
        BY <1>3, <1>4, <2>1, <3>1
    <2>5. Apart(Range(a), Range(b))
      BY <1>9, <1>10, <2>4 DEF Apart
    <2> QED
      BY <2>2, <2>3, <2>5
  <1>12. NoKeyTwice(a) /\ NoKeyTwice(b) /\ Apart(Range(a), Range(b)) => NoKeyTwice(ab)
    <2> SUFFICES ASSUME NoKeyTwice(a), NoKeyTwice(b), Apart(Range(a), Range(b)),
                        NEW x \in 1..m + n, NEW y \in 1..m + n, ab[x].key = ab[y].key
                 PROVE  x = y
      BY <1>2 DEF NoKeyTwice
    <2>1. \A u \in 1..m, w \in 1..n : a[u].key # b[w].key
      BY <1>8 DEF Apart
    <2>2. \A u, w \in 1..m : a[u].key = a[w].key => u = w
      BY <1>2 DEF NoKeyTwice
    <2>3. \A u, w \in 1..n : b[u].key = b[w].key => u = w
      BY <1>2 DEF NoKeyTwice
    <2>4. CASE x \in 1..m /\ y \in 1..m
      BY <1>3, <2>2, <2>4
    <2>5. CASE x \in 1..m /\ y \notin 1..m
      <3>1. PICK w \in 1..n : y = w + m
        BY <1>5, <2>5
      <3> QED
        BY <1>3, <1>4, <2>1, <2>5, <3>1
    <2>6. CASE x \notin 1..m /\ y \in 1..m
      <3>1. PICK w \in 1..n : x = w + m
        BY <1>5, <2>6
      <3>2. a[y].key # b[w].key /\ ab[y] = a[y] /\ ab[x] = b[w]
        BY <1>3, <1>4, <2>1, <2>6, <3>1
      <3> QED
        BY <3>2
    <2>7. CASE x \notin 1..m /\ y \notin 1..m
      <3>1. PICK u \in 1..n : x = u + m
        BY <1>5, <2>7
      <3>2. PICK w \in 1..n : y = w + m
        BY <1>5, <2>7
      <3>3. b[u].key = b[w].key
        BY <1>4, <3>1, <3>2
      <3> QED
        BY <2>3, <3>1, <3>2, <3>3
    <2> QED
      BY <2>4, <2>5, <2>6, <2>7
  <1>13. Counts!Sorted(ab) =>
            Counts!Sorted(a) /\ Counts!Sorted(b) /\ NotLess(Range(a), Range(b))
    <2> SUFFICES ASSUME Counts!Sorted(ab)
                 PROVE  Counts!Sorted(a) /\ Counts!Sorted(b) /\ NotLess(Range(a), Range(b))
      OBVIOUS
    <2>1. \A x, y \in 1..m + n : x <= y => ab[x].value >= ab[y].value
      BY <1>2 DEF Counts!Sorted
    <2>2. Counts!Sorted(a)
      BY <1>2, <1>3, <2>1 DEF Counts!Sorted
    <2>3. ASSUME NEW x \in 1..n, NEW y \in 1..n, x <= y PROVE b[x].value >= b[y].value
      BY <1>4, <1>7, <2>1, <2>3
    <2>4. Counts!Sorted(b)
      BY <1>2, <2>3 DEF Counts!Sorted
    <2>5. ASSUME NEW x \in 1..m, NEW y \in 1..n PROVE a[x].value >= b[y].value
      <3>1. x <= y + m
        BY <1>2
      <3> QED
        BY <1>3, <1>4, <2>1, <3>1
    <2>6. NotLess(Range(a), Range(b))
      BY <1>9, <1>10, <2>5 DEF NotLess
    <2> QED
      BY <2>2, <2>4, <2>6
  <1>14. Counts!Sorted(a) /\ Counts!Sorted(b) /\ NotLess(Range(a), Range(b)) =>
            Counts!Sorted(ab)
    <2> SUFFICES ASSUME Counts!Sorted(a), Counts!Sorted(b), NotLess(Range(a), Range(b)),
                        NEW x \in 1..m + n, NEW y \in 1..m + n, x <= y
                 PROVE  ab[x].value >= ab[y].value
      BY <1>2 DEF Counts!Sorted
    <2>1. \A u \in 1..m, w \in 1..n : a[u].value >= b[w].value
      BY <1>8 DEF NotLess
    <2>2. \A u, w \in 1..m : u <= w => a[u].value >= a[w].value
      BY <1>2 DEF Counts!Sorted
    <2>3. \A u, w \in 1..n : u <= w => b[u].value >= b[w].value
      BY <1>2 DEF Counts!Sorted
    <2>4. CASE x \in 1..m /\ y \in 1..m
      BY <1>3, <2>2, <2>4
    <2>5. CASE x \in 1..m /\ y \notin 1..m
      <3>1. PICK w \in 1..n : y = w + m
        BY <1>5, <2>5
      <3> QED
        BY <1>3, <1>4, <2>1, <2>5, <3>1
    <2>6. CASE x \notin 1..m
      <3>1. y \notin 1..m
        BY <1>2, <2>6
      <3>2. PICK u \in 1..n : x = u + m
        BY <1>5, <2>6
      <3>3. PICK w \in 1..n : y = w + m
        BY <1>5, <3>1
      <3>4. u <= w
        BY <1>7, <3>2, <3>3
      <3> QED
        BY <1>4, <2>3, <3>2, <3>3, <3>4
    <2> QED
      BY <2>4, <2>5, <2>6
  <1> QED
    BY <1>11, <1>12, <1>13, <1>14 DEF ab

\* A list of one entry is in order,
LEMMA Singles ==
    ASSUME NEW e \in Entry
    PROVE  << e >> \in Seq(Entry) /\ Range(<< e >>) = {e}
           /\ NoKeyTwice(<< e >>) /\ Counts!Sorted(<< e >>)
  <1>1. DOMAIN << e >> = {1} /\ << e >>[1] = e /\ << e >> \in Seq(Entry)
    OBVIOUS
  <1>2. e.value \in Nat
    BY DEF Entry
  <1> QED
    BY <1>1, <1>2 DEF Range, NoKeyTwice, Counts!Sorted

\* and so is the empty list.
LEMMA Empties ==
    /\ << >> \in Seq(Entry) /\ Range(<< >>) = {}
    /\ NoKeyTwice(<< >>) /\ Counts!Sorted(<< >>)
  <1>1. DOMAIN << >> = {} /\ << >> \in Seq(Entry)
    OBVIOUS
  <1> QED
    BY <1>1 DEF Range, NoKeyTwice, Counts!Sorted

\* The elements of a list are entries.
LEMMA Elements ==
    ASSUME NEW a \in Seq(Entry), NEW e \in Range(a)
    PROVE  e \in Entry /\ e.key \in Str /\ e.value \in Nat
  <1>1. \E x \in 1..Len(a) : e = a[x]
    BY LenProperties DEF Range
  <1>2. e \in Entry
    BY <1>1, ElementOfSeq
  <1> QED
    BY <1>2 DEF Entry

\* A list is its head followed by its tail.
LEMMA HeadTail ==
    ASSUME NEW a \in Seq(Entry), a # << >>
    PROVE  /\ Head(a) \in Entry /\ Tail(a) \in Seq(Entry)
           /\ a = << Head(a) >> \o Tail(a)
  <1>1. /\ Head(a) \in Entry /\ Tail(a) \in Seq(Entry) /\ Len(Tail(a)) = Len(a) - 1
        /\ \A x \in 1..Len(Tail(a)) : Tail(a)[x] = a[x + 1]
        /\ Head(a) = a[1] /\ Len(a) \in Nat
    BY HeadTailProperties
  <1>2. << Head(a) >> \in Seq(Entry) /\ Len(<< Head(a) >>) = 1 /\ << Head(a) >>[1] = Head(a)
    BY <1>1
  <1> DEFINE h == << Head(a) >>
  <1> DEFINE t == Tail(a)
  <1>3. /\ h \o t \in Seq(Entry) /\ Len(h \o t) = 1 + Len(t)
        /\ \A x \in 1..1 + Len(t) : (h \o t)[x] = IF x <= 1 THEN h[x] ELSE t[x - 1]
    BY <1>1, <1>2, ConcatProperties
  <1>4. Len(h \o t) = Len(a)
    BY <1>1, <1>3
  <1>5. ASSUME NEW x \in 1..Len(a) PROVE (h \o t)[x] = a[x]
    <2>1. CASE x = 1
      BY <1>1, <1>2, <1>3, <2>1
    <2>2. CASE x # 1
      <3>1. x \in 1..1 + Len(t) /\ ~(x <= 1) /\ x - 1 \in 1..Len(t) /\ (x - 1) + 1 = x
        BY <1>1, <2>2
      <3>2. (h \o t)[x] = t[x - 1]
        BY <1>3, <3>1
      <3>3. t[x - 1] = a[(x - 1) + 1]
        BY <1>1, <3>1
      <3> QED
        BY <3>1, <3>2, <3>3
    <2> QED
      BY <2>1, <2>2
  <1>6. h \o t = a
    BY <1>3, <1>4, <1>5, SeqEqual
  <1> QED
    BY <1>1, <1>6

\* Concatenation is associative.
LEMMA RegroupEntries ==
    \A x, y, z \in Seq(Entry) : (x \o y) \o z = x \o (y \o z)
  BY ConcatAssociative

-----------------------------------------------------------------------------
(* put() moves an entry forward                                            *)

\* The place that Behind chooses: greater or equal values before it, less or
\* equal ones between it and the entry.
LEMMA BehindIsRight ==
    ASSUME NEW list \in Seq(Entry), Counts!Sorted(list), NEW e \in DOMAIN list,
           NEW v \in Nat, NEW p, p = Counts!Behind(list, e, v)
    PROVE  /\ p \in 0..e - 1
           /\ \A q \in 1..p : list[q].value >= v
           /\ \A q \in p + 1..e - 1 : list[q].value <= v
  <1>1. /\ Len(list) \in Nat /\ DOMAIN list = 1..Len(list) /\ e \in 1..Len(list)
        /\ \A x \in 1..Len(list) : list[x].value \in Nat
    <2>1. Len(list) \in Nat /\ DOMAIN list = 1..Len(list)
      BY LenProperties
    <2>2. \A x \in 1..Len(list) : list[x] \in Entry
      BY ElementOfSeq
    <2> QED
      BY <2>1, <2>2 DEF Entry
  <1>2. \A x, y \in 1..Len(list) : x <= y => list[x].value >= list[y].value
    BY <1>1 DEF Counts!Sorted
  <1>3. CASE e = 1
    BY <1>1, <1>3 DEF Counts!Behind
  <1>4. CASE e # 1 /\ list[1].value < v
    <2>1. p = 0
      BY <1>4 DEF Counts!Behind
    <2>2. ASSUME NEW q \in 1..e - 1 PROVE list[q].value <= v
      <3>1. q \in 1..Len(list) /\ 1 \in 1..Len(list) /\ 1 <= q
        BY <1>1
      <3>2. list[1].value >= list[q].value
        BY <1>2, <3>1
      <3> QED
        BY <1>1, <1>4, <3>1, <3>2
    <2> QED
      BY <1>1, <2>1, <2>2
  <1>5. CASE e # 1 /\ ~(list[1].value < v)
    <2> DEFINE B(x) == Counts!Before(list, e, x, v)
    <2> DEFINE Stops == {x \in 1..e - 1 : ~(B(x) /\ B(x + 1))}
    <2>1. e - 1 \in Stops
      BY <1>1, <1>5 DEF Counts!Before
    <2>2. Stops \in SUBSET Nat
      BY <1>1
    <2>3. PICK m : m \in Stops /\ \A y \in Stops : m <= y
      BY <2>1, <2>2, LeastNumber
    <2>4. /\ m \in 1..e - 1 /\ ~(B(m) /\ B(m + 1))
          /\ \A q \in 1..m - 1 : B(q) /\ B(q + 1)
      <3>1. \A q \in 1..m - 1 : q \in 1..e - 1 /\ ~(m <= q)
        BY <1>1, <2>3
      <3> QED
        BY <2>3, <3>1
    <2>5. p = CHOOSE x \in 1..e - 1 : /\ ~(B(x) /\ B(x + 1))
                                      /\ \A q \in 1..x - 1 : B(q) /\ B(q + 1)
      BY <1>5 DEF Counts!Behind
    <2>6. /\ p \in 1..e - 1 /\ ~(B(p) /\ B(p + 1))
          /\ \A q \in 1..p - 1 : B(q) /\ B(q + 1)
      BY <2>4, <2>5
    <2>7. \A x : B(x) <=> x < e /\ list[x].value > v
      BY DEF Counts!Before
    <2> HIDE DEF B, Stops
    <2>8. \A q \in 1..p : q \in 1..Len(list) /\ q <= p
      BY <1>1, <2>6
    <2>9. \A q \in 1..p : list[q].value >= v
      <3>1. CASE p = 1
        BY <1>1, <1>5, <2>6, <3>1
      <3>2. CASE p # 1
        <4>1. p - 1 \in 1..p - 1 /\ (p - 1) + 1 = p
          BY <1>1, <2>6, <3>2
        <4>2. B(p)
          BY <2>6, <4>1
        <4>3. list[p].value > v /\ p \in 1..Len(list)
          BY <1>1, <2>6, <2>7, <4>2
        <4> QED
          BY <1>1, <1>2, <2>8, <4>3
      <3> QED
        BY <3>1, <3>2
    <2>10. ASSUME NEW q \in p + 1..e - 1 PROVE list[q].value <= v
      <3>1. q \in 1..Len(list) /\ p \in 1..Len(list) /\ p + 1 \in 1..Len(list) /\ p + 1 <= q
            /\ p <= q /\ p + 1 < e /\ p < e
        BY <1>1, <2>6
      <3>2. list[p].value >= list[q].value /\ list[p + 1].value >= list[q].value
        BY <1>2, <3>1
      <3>3. list[p].value <= v \/ list[p + 1].value <= v
        <4>1. ~(list[p].value > v) \/ ~(list[p + 1].value > v)
          BY <2>6, <2>7, <3>1
        <4> QED
          BY <1>1, <3>1, <4>1
      <3> QED
        BY <1>1, <3>1, <3>2, <3>3
    <2>11. p \in 0..e - 1
      BY <1>1, <2>6
    <2> QED
      BY <2>9, <2>10, <2>11
  <1> QED
    BY <1>3, <1>4, <1>5

\* What moving the entry at e to the place behind p does to a list.
LEMMA MovedIsRight ==
    ASSUME NEW list \in Seq(Entry), NEW e \in DOMAIN list, NEW v \in Nat,
           NEW p \in 0..e - 1, NoKeyTwice(list),
           NEW new, new = [list[e] EXCEPT !.value = v],
           NEW moved, moved = Counts!Moved(list, e, p, v)
    PROVE  /\ moved \in Seq(Entry) /\ Len(moved) = Len(list)
           /\ NoKeyTwice(moved)
           /\ Range(moved) = (Range(list) \ {list[e]}) \cup {new}
           /\ \A x \in 1..Len(list) :
                 moved[x] = IF x <= p \/ x > e THEN list[x]
                            ELSE IF x = p + 1 THEN new ELSE list[x - 1]
  <1>1. Len(list) \in Nat /\ DOMAIN list = 1..Len(list) /\ e \in 1..Len(list)
    BY LenProperties
  <1>2. \A x \in 1..Len(list) : list[x] \in Entry
    BY ElementOfSeq
  <1>3. new \in Entry /\ new.key = list[e].key
    BY <1>1, <1>2 DEF Entry
  <1> DEFINE g(x) == IF x <= p \/ x > e THEN x ELSE IF x = p + 1 THEN e ELSE x - 1
  <1>4. \A x \in 1..Len(list) : g(x) \in 1..Len(list) /\ (g(x) = e <=> x = p + 1)
    BY <1>1
  <1>5. \A x, y \in 1..Len(list) : g(x) = g(y) => x = y
    BY <1>1
  <1>6. \A y \in 1..Len(list) : \E x \in 1..Len(list) : g(x) = y
    <2> SUFFICES ASSUME NEW y \in 1..Len(list) PROVE \E x \in 1..Len(list) : g(x) = y
      OBVIOUS
    <2>1. CASE y <= p \/ y > e
      BY <1>1, <2>1
    <2>2. CASE y = e
      <3>1. p + 1 \in 1..Len(list) /\ g(p + 1) = e
        BY <1>1
      <3> QED
        BY <2>2, <3>1
    <2>3. CASE y > p /\ y < e
      <3>1. y + 1 \in 1..Len(list) /\ g(y + 1) = y
        BY <1>1, <2>3
      <3> QED
        BY <3>1
    <2> QED
      BY <1>1, <2>1, <2>2, <2>3
  <1>7. moved = [x \in 1..Len(list) |-> IF x <= p \/ x > e THEN list[x]
                                        ELSE IF x = p + 1 THEN new ELSE list[x - 1]]
    BY <1>1 DEF Counts!Moved
  <1>8. \A x \in 1..Len(list) : moved[x] = IF x = p + 1 THEN new ELSE list[g(x)]
    BY <1>1, <1>7
  <1> HIDE DEF g
  <1>9. \A x \in 1..Len(list) : moved[x] \in Entry /\ moved[x].key = list[g(x)].key
    BY <1>2, <1>3, <1>4, <1>8
  <1>10. moved \in [1..Len(list) -> Entry]
    BY <1>7, <1>9
  <1>11. moved \in Seq(Entry) /\ Len(moved) = Len(list) /\ DOMAIN moved = 1..Len(list)
    BY <1>1, <1>10
  <1>12. NoKeyTwice(moved)
    BY <1>1, <1>4, <1>5, <1>9, <1>11 DEF NoKeyTwice
  <1>13. Range(moved) = (Range(list) \ {list[e]}) \cup {new}
    <2>1. ASSUME NEW x \in 1..Len(list) PROVE moved[x] \in (Range(list) \ {list[e]}) \cup {new}
      <3>1. CASE x = p + 1
        BY <1>8, <3>1
      <3>2. CASE x # p + 1
        <4>1. g(x) \in 1..Len(list) /\ g(x) # e /\ moved[x] = list[g(x)]
          BY <1>4, <1>8, <3>2
        <4>2. list[g(x)] # list[e]
          BY <1>1, <4>1 DEF NoKeyTwice
        <4> QED
          BY <1>1, <4>1, <4>2 DEF Range
      <3> QED
        BY <3>1, <3>2
    <2>2. ASSUME NEW y \in 1..Len(list), list[y] # list[e] PROVE list[y] \in Range(moved)
      <3>1. PICK x \in 1..Len(list) : g(x) = y
        BY <1>6
      <3>2. x # p + 1
        BY <1>4, <2>2, <3>1
      <3>3. moved[x] = list[y]
        BY <1>8, <3>1, <3>2
      <3> QED
        BY <1>11, <3>3 DEF Range
    <2>3. new \in Range(moved)
      <3>1. p + 1 \in 1..Len(list)
        BY <1>1
      <3>2. moved[p + 1] = new
        BY <1>8, <3>1
      <3> QED
        BY <1>11, <3>1, <3>2 DEF Range
    <2>4. Range(moved) = {moved[x] : x \in 1..Len(list)} /\ Range(list) = {list[x] : x \in 1..Len(list)}
      BY <1>1, <1>11 DEF Range
    <2>5. Range(moved) \subseteq (Range(list) \ {list[e]}) \cup {new}
      BY <2>1, <2>4
    <2>6. \A f \in Range(list) \ {list[e]} : f \in Range(moved)
      BY <2>2, <2>4
    <2> QED
      BY <2>3, <2>5, <2>6
  <1> QED
    BY <1>7, <1>11, <1>12, <1>13

\* put() keeps its list in order.
LEMMA MovedIsSorted ==
    ASSUME NEW list \in Seq(Entry), NoKeyTwice(list), Counts!Sorted(list),
           NEW e \in DOMAIN list, NEW v, v = list[e].value + 1,
           NEW p, p = Counts!Behind(list, e, v)
    PROVE  Counts!Sorted(Counts!Moved(list, e, p, v))
  <1> DEFINE moved == Counts!Moved(list, e, p, v)
  <1> DEFINE new == [list[e] EXCEPT !.value = v]
  <1>1. Len(list) \in Nat /\ DOMAIN list = 1..Len(list) /\ e \in 1..Len(list)
    BY LenProperties
  <1>2. \A x \in 1..Len(list) : list[x] \in Entry
    BY ElementOfSeq
  <1>3. /\ \A x \in 1..Len(list) : list[x].value \in Nat
        /\ v \in Nat /\ new.value = v
    BY <1>1, <1>2 DEF Entry
  <1>4. /\ p \in 0..e - 1
        /\ \A q \in 1..p : list[q].value >= v
        /\ \A q \in p + 1..e - 1 : list[q].value <= v
    BY <1>3, BehindIsRight
  <1>5. /\ moved \in Seq(Entry) /\ Len(moved) = Len(list)
        /\ \A x \in 1..Len(list) :
              moved[x] = IF x <= p \/ x > e THEN list[x]
                         ELSE IF x = p + 1 THEN new ELSE list[x - 1]
    BY <1>3, <1>4, MovedIsRight
  <1>6. DOMAIN moved = 1..Len(list)
    BY <1>5, LenProperties
  <1> HIDE DEF moved, new
  <1>7. \A x, y \in 1..Len(list) : x <= y => list[x].value >= list[y].value
    BY <1>1 DEF Counts!Sorted
  <1>8. \A x \in 1..p : x \in 1..Len(list) /\ moved[x] = list[x]
    BY <1>1, <1>4, <1>5
  <1>9. \A x \in p + 2..e : /\ x \in 1..Len(list) /\ x - 1 \in p + 1..e - 1
                            /\ x - 1 \in 1..Len(list) /\ moved[x] = list[x - 1]
    <2> SUFFICES ASSUME NEW x \in p + 2..e
                 PROVE  /\ x \in 1..Len(list) /\ x - 1 \in p + 1..e - 1
                        /\ x - 1 \in 1..Len(list) /\ moved[x] = list[x - 1]
      OBVIOUS
    <2>1. /\ x \in 1..Len(list) /\ x - 1 \in p + 1..e - 1 /\ x - 1 \in 1..Len(list)
          /\ ~(x <= p \/ x > e) /\ x # p + 1
      BY <1>1, <1>4
    <2> QED
      BY <1>5, <2>1
  <1>10. \A x \in e + 1..Len(list) : x \in 1..Len(list) /\ moved[x] = list[x]
    BY <1>1, <1>5
  <1>11. p + 1 \in 1..Len(list) /\ moved[p + 1] = new
    BY <1>1, <1>4, <1>5
  <1>12. \A x \in 1..Len(list) : \/ x \in 1..p \/ x = p + 1 \/ x \in p + 2..e
                                 \/ x \in e + 1..Len(list)
    BY <1>1, <1>4
  <1>13. \A x \in e + 1..Len(list) : list[x].value <= v
    <2> SUFFICES ASSUME NEW x \in e + 1..Len(list) PROVE list[x].value <= v
      OBVIOUS
    <2>1. x \in 1..Len(list) /\ e <= x
      BY <1>1
    <2>2. list[e].value >= list[x].value
      BY <1>1, <1>7, <2>1
    <2> QED
      BY <1>1, <1>3, <2>1, <2>2
  <1> SUFFICES ASSUME NEW x \in 1..Len(list), NEW y \in 1..Len(list), x <= y
               PROVE  moved[x].value >= moved[y].value
    BY <1>6 DEF moved, Counts!Sorted
  <1>14. CASE x \in 1..p
    <2>1. moved[x] = list[x] /\ list[x].value >= v
      BY <1>4, <1>8, <1>14
    <2>2. CASE y \in 1..p
      BY <1>7, <1>8, <1>14, <2>2
    <2>3. CASE y = p + 1
      BY <1>3, <1>11, <2>1, <2>3
    <2>4. CASE y \in p + 2..e
      <3>1. moved[y] = list[y - 1] /\ list[y - 1].value <= v /\ y - 1 \in 1..Len(list)
        BY <1>4, <1>9, <2>4
      <3> QED
        BY <1>3, <2>1, <3>1
    <2>5. CASE y \in e + 1..Len(list)
      <3>1. y \in 1..Len(list) /\ moved[y] = list[y] /\ list[y].value <= v
        BY <1>10, <1>13, <2>5
      <3>2. list[x].value \in Nat /\ list[y].value \in Nat /\ v \in Nat
        BY <1>3, <3>1
      <3> QED
        BY <2>1, <3>1, <3>2
    <2> QED
      BY <1>12, <2>2, <2>3, <2>4, <2>5
  <1>15. CASE x = p + 1
    <2>1. moved[x].value = v
      BY <1>3, <1>11, <1>15
    <2>2. CASE y = p + 1
      BY <1>3, <1>15, <2>1, <2>2
    <2>3. CASE y \in p + 2..e
      <3>1. moved[y] = list[y - 1] /\ list[y - 1].value <= v /\ y - 1 \in 1..Len(list)
        BY <1>4, <1>9, <2>3
      <3> QED
        BY <1>3, <2>1, <3>1
    <2>4. CASE y \in e + 1..Len(list)
      BY <1>3, <1>10, <1>13, <2>1, <2>4
    <2> QED
      BY <1>4, <1>12, <1>15, <2>2, <2>3, <2>4
  <1>16. CASE x \in p + 2..e
    <2>1. moved[x] = list[x - 1] /\ x - 1 \in 1..Len(list) /\ x - 1 <= e
      BY <1>9, <1>16
    <2>2. CASE y \in p + 2..e
      <3>1. moved[y] = list[y - 1] /\ y - 1 \in 1..Len(list) /\ x - 1 <= y - 1
        BY <1>9, <2>2
      <3> QED
        BY <1>7, <2>1, <3>1
    <2>3. CASE y \in e + 1..Len(list)
      <3>1. moved[y] = list[y] /\ x - 1 <= y
        BY <1>10, <2>1, <2>3
      <3> QED
        BY <1>7, <2>1, <3>1
    <2>4. ~(y \in 1..p) /\ y # p + 1
      BY <1>4, <1>16
    <2> QED
      BY <1>12, <2>2, <2>3, <2>4
  <1>17. CASE x \in e + 1..Len(list)
    <2>1. y \in e + 1..Len(list)
      BY <1>1, <1>17
    <2> QED
      BY <1>7, <1>10, <1>17, <2>1
  <1> QED
    BY <1>12, <1>14, <1>15, <1>16, <1>17

\* The lists L of the buckets B have one entry for each pattern found, with the
\* number that P gives.
Holding(L, B, P) ==
    /\ \A b \in B : L[b] \in Seq(Entry) /\ NoKeyTwice(L[b])
    /\ \A b, c \in B : b # c => Apart(Range(L[b]), Range(L[c]))
    /\ \A b \in B : \A e \in Range(L[b]) : P[e.key] > 0 /\ e.value = P[e.key]
    /\ \A s \in Str : P[s] > 0 => \E b \in B : \E e \in Range(L[b]) : e.key = s

\* The entries of each list are the same, in whatever order.
LEMMA Rearranged ==
    ASSUME NEW L, NEW M, NEW B, NEW P, Holding(L, B, P),
           \A b \in B : M[b] \in Seq(Entry) /\ NoKeyTwice(M[b]) /\ Range(M[b]) = Range(L[b])
    PROVE  Holding(M, B, P)
  BY DEF Holding

\* The list of c has been joined to that of b.
LEMMA Gathered ==
    ASSUME NEW L, NEW M, NEW B, NEW P, Holding(L, B, P),
           NEW b \in B, NEW c \in B, b # c,
           M[b] \in Seq(Entry), NoKeyTwice(M[b]), Range(M[b]) = Range(L[b]) \cup Range(L[c]),
           M[c] = << >>,
           \A d \in B \ {b, c} : M[d] = L[d]
    PROVE  Holding(M, B, P)
  <1>1. \A d \in B : M[d] \in Seq(Entry) /\ NoKeyTwice(M[d])
    <2>1. M[c] \in Seq(Entry) /\ NoKeyTwice(M[c])
      BY Empties
    <2> QED
      BY <2>1 DEF Holding
  <1>2. Range(M[c]) = {}
    BY Empties
  <1>3. \A d \in B : \A e \in Range(M[d]) : \E f \in B : /\ e \in Range(L[f])
                                                         /\ d # b => f = d
                                                         /\ d = b => f \in {b, c}
                                                         /\ d # c
    BY <1>2
  <1>4. ASSUME NEW d \in B, NEW f \in B, d # f PROVE Apart(Range(M[d]), Range(M[f]))
    <2> SUFFICES ASSUME NEW e \in Range(M[d]), NEW g \in Range(M[f]) PROVE e.key # g.key
      BY DEF Apart
    <2>1. PICK d1 \in B : e \in Range(L[d1]) /\ (d # b => d1 = d)
                          /\ (d = b => d1 \in {b, c}) /\ d # c
      BY <1>3
    <2>2. PICK f1 \in B : g \in Range(L[f1]) /\ (f # b => f1 = f)
                          /\ (f = b => f1 \in {b, c}) /\ f # c
      BY <1>3
    <2>3. d1 # f1
      BY <1>4, <2>1, <2>2
    <2>4. Apart(Range(L[d1]), Range(L[f1]))
      BY <2>3 DEF Holding
    <2> QED
      BY <2>1, <2>2, <2>4 DEF Apart
  <1>5. \A d \in B : \A e \in Range(M[d]) : P[e.key] > 0 /\ e.value = P[e.key]
    BY <1>3 DEF Holding
  <1>6. ASSUME NEW s \in Str, P[s] > 0 PROVE \E d \in B : \E e \in Range(M[d]) : e.key = s
    <2>1. PICK d \in B : \E e \in Range(L[d]) : e.key = s
      BY <1>6 DEF Holding
    <2>2. CASE d \in {b, c}
      BY <2>1, <2>2
    <2>3. CASE d \notin {b, c}
      BY <2>1, <2>3
    <2> QED
      BY <2>2, <2>3
  <1> QED
    BY <1>1, <1>4, <1>5, <1>6 DEF Holding

\* An empty list need not be looked at.
LEMMA Dropped ==
    ASSUME NEW L, NEW B, NEW P, Holding(L, B, P), NEW c, Range(L[c]) = {}
    PROVE  Holding(L, B \ {c}, P)
  BY DEF Holding

\* s has been counted once more, in the list of b.
LEMMA Counted ==
    ASSUME NEW L, NEW M, NEW B, NEW P \in [Str -> Nat], Holding(L, B, P),
           NEW b \in B, NEW s \in Str,
           \A c \in B \ {b} : M[c] = L[c] /\ \A e \in Range(L[c]) : e.key # s,
           M[b] \in Seq(Entry), NoKeyTwice(M[b]),
           Range(M[b]) = {e \in Range(L[b]) : e.key # s}
                            \cup {[key |-> s, value |-> P[s] + 1]}
    PROVE  Holding(M, B, [P EXCEPT ![s] = @ + 1])
  <1> DEFINE new == [key |-> s, value |-> P[s] + 1]
  <1> DEFINE Q == [P EXCEPT ![s] = @ + 1]
  <1>1. /\ \A t \in Str : Q[t] = IF t = s THEN P[s] + 1 ELSE P[t]
        /\ P[s] \in Nat /\ Q[s] = P[s] + 1
    OBVIOUS
  <1>2. new.key = s /\ new.value = P[s] + 1
    OBVIOUS
  <1> HIDE DEF new, Q
  <1>3. \A c \in B : \A e \in Range(M[c]) : \/ e = new /\ c = b
                                            \/ e \in Range(L[c]) /\ e.key # s
    BY DEF new
  <1>4. \A c \in B : M[c] \in Seq(Entry) /\ NoKeyTwice(M[c])
    BY DEF Holding
  <1>5. ASSUME NEW c \in B, NEW d \in B, c # d PROVE Apart(Range(M[c]), Range(M[d]))
    <2> SUFFICES ASSUME NEW e \in Range(M[c]), NEW f \in Range(M[d]) PROVE e.key # f.key
      BY DEF Apart
    <2>1. CASE e \in Range(L[c]) /\ f \in Range(L[d])
      BY <1>5, <2>1 DEF Holding, Apart
    <2>2. CASE e = new
      <3>1. c = b \/ e.key # s
        BY <1>3
      <3>2. c = b
        BY <1>2, <2>2, <3>1
      <3>3. f.key # s
        BY <1>3, <1>5, <3>2
      <3> QED
        BY <1>2, <2>2, <3>3
    <2>3. CASE f = new
      <3>1. d = b \/ f.key # s
        BY <1>3
      <3>2. d = b
        BY <1>2, <2>3, <3>1
      <3>3. e.key # s
        BY <1>3, <1>5, <3>2
      <3> QED
        BY <1>2, <2>3, <3>3
    <2> QED
      BY <1>3, <2>1, <2>2, <2>3
  <1>6. ASSUME NEW c \in B, NEW e \in Range(M[c]) PROVE Q[e.key] > 0 /\ e.value = Q[e.key]
    <2>1. CASE e = new
      BY <1>1, <1>2, <2>1
    <2>2. CASE e \in Range(L[c]) /\ e.key # s
      <3>1. L[c] \in Seq(Entry)
        BY DEF Holding
      <3>2. e.key \in Str
        BY <2>2, <3>1, Elements
      <3>3. P[e.key] > 0 /\ e.value = P[e.key]
        BY <2>2 DEF Holding
      <3> QED
        BY <1>1, <2>2, <3>2, <3>3
    <2> QED
      BY <1>3, <2>1, <2>2
  <1>7. ASSUME NEW t \in Str, Q[t] > 0 PROVE \E c \in B : \E e \in Range(M[c]) : e.key = t
    <2>1. CASE t = s
      <3>1. new \in Range(M[b]) /\ new.key = t
        BY <1>2, <2>1 DEF new
      <3> QED
        BY <3>1
    <2>2. CASE t # s
      <3>1. P[t] > 0
        BY <1>1, <1>7, <2>2
      <3>2. PICK c \in B : \E e \in Range(L[c]) : e.key = t
        BY <3>1 DEF Holding
      <3>3. PICK e \in Range(L[c]) : e.key = t
        BY <3>2
      <3>4. e \in Range(M[c])
        BY <2>2, <3>3
      <3> QED
        BY <3>3, <3>4
    <2> QED
      BY <2>1, <2>2
  <1> QED
    BY <1>4, <1>5, <1>6, <1>7 DEF Holding, Q

\* The buckets that are left when there are g of them, and each stands for s.
Covers(g, s) == (g - 1) * s < HLEN /\ HLEN <= g * s

\* How far the round has come.
Dealt == IF ht_pc \in {"pair", "merge"} THEN Counts!ea ELSE 0

\* The buckets whose lists have not been merged into another.
Live == Left(stride, Dealt)

\* Where the rounds are, and the types of their variables.
Rounds ==
    /\ group \in Nat /\ group > 0 /\ stride \in Nat /\ stride > 0 /\ ht_i \in Nat
    /\ ht_pc \in {"match", "round", "pair", "merge", "output"}
    /\ ht_pc = "match" => group = HLEN /\ stride = 1
    /\ ht_pc \in {"round", "output"} => Covers(group, stride)
    /\ ht_pc \in {"pair", "merge"} => Covers(group, 2 * stride) /\ ht_i <= group
    /\ ht_pc = "merge" => ht_i < group /\ Counts!eb < HLEN
    /\ ht_pc = "output" => group = 1

\* The patterns found so far.
Found == {s \in Str : puts[s] > 0}

\* While the text is read each pattern is in the bucket of its hash.
AtHome == \A b \in Counts!Bucket : \A e \in Range(hashtable[b]) : Hash[e.key] = b

\* The lists that no merge is working on, and the two halves of one that is.
ListsInOrder ==
    /\ \A b \in Live : \/ Counts!Sorted(hashtable[b])
                       \/ ht_pc = "merge" /\ b \in {Counts!ea, Counts!eb}
    /\ ht_pc = "merge" => Counts!Sorted(lc \o pa) /\ Counts!Sorted(lc \o pb)

\* The inductive invariant of the table.
CountInv ==
    /\ Rounds
    /\ hashtable = [b \in Counts!Bucket |-> hashtable[b]]
    /\ pa \in Seq(Entry) /\ pb \in Seq(Entry) /\ lc \in Seq(Entry)
    /\ puts \in [Str -> Nat]
    /\ Holding(Counts!Lists, Live, puts)
    /\ ht_pc = "match" => AtHome
    /\ IsFiniteSet(Found) /\ count = Cardinality(Found)
    /\ ListsInOrder

\* The next round has half as many buckets left, rounded up.
LEMMA HalfAsMany ==
    ASSUME NEW g \in Nat, NEW s \in Nat, g > 0, s > 0, Covers(g, s), NEW h, h = (g + 1) \div 2
    PROVE  h \in Nat /\ h > 0 /\ Covers(h, 2 * s)
  <1>1. h \in Nat /\ 2 * h <= g + 1 /\ g + 1 <= 2 * h + 1
    OBVIOUS
  <1>2. h > 0 /\ g <= 2 * h /\ 2 * h - 2 <= g - 1
    BY <1>1
  <1>3. HLEN \in Nat /\ (g - 1) * s < HLEN /\ HLEN <= g * s
    BY HashAssumption DEF Covers
  <1>4. (h - 1) * (2 * s) = (2 * h - 2) * s /\ h * (2 * s) = (2 * h) * s
    BY <1>1
  <1>5. ~(2 * h * s < g * s) /\ ~((g - 1) * s < (2 * h - 2) * s)
    <2>1. g \in Int /\ 2 * h \in Int /\ g - 1 \in Int /\ 2 * h - 2 \in Int
      BY <1>1
    <2>2. ~(2 * h < g) /\ ~(g - 1 < 2 * h - 2)
      BY <1>1, <1>2
    <2>3. (2 * h) * s < g * s <=> 2 * h < g
      BY <2>1, SameOrder
    <2>4. (g - 1) * s < (2 * h - 2) * s <=> g - 1 < 2 * h - 2
      BY <2>1, SameOrder
    <2> QED
      BY <2>2, <2>3, <2>4
  <1>6. (2 * h) * s \in Int /\ g * s \in Int /\ (g - 1) * s \in Int /\ (2 * h - 2) * s \in Int
    BY <1>1
  <1>7. (2 * h - 2) * s < HLEN /\ HLEN <= (2 * h) * s
    BY <1>3, <1>5, <1>6
  <1> QED
    BY <1>1, <1>2, <1>4, <1>7 DEF Covers

\* Live is what CountTable calls by this name.
LEMMA LiveIsLive == Rounds => Counts!Live = Live
  <1> SUFFICES ASSUME Rounds PROVE Counts!Live = Live
    OBVIOUS
  <1>1. \A b \in Counts!Bucket : ~(b < 0)
    BY HashAssumption DEF Counts!Bucket
  <1> QED
    BY <1>1 DEF Counts!Live, Live, Left, Dealt

\* The lists are the table itself unless one is being merged.
LEMMA WithoutMerge == ht_pc # "merge" => Counts!Lists = hashtable
  BY DEF Counts!Lists

\* The pair of buckets that a turn deals with.
LEMMA ThePair ==
    ASSUME Rounds, ht_pc \in {"pair", "merge"}, Counts!eb < HLEN
    PROVE  /\ Counts!ea \in Live /\ Counts!eb \in Live /\ Counts!ea # Counts!eb
           /\ Counts!ea \in Counts!Bucket /\ Counts!eb \in Counts!Bucket
           /\ Left(stride, (ht_i + 1) * 2 * stride) = Live \ {Counts!eb}
  <1>1. Counts!eb = Counts!ea + stride /\ Counts!ea = ht_i * 2 * stride /\ Dealt = Counts!ea
    BY DEF Counts!ea, Counts!eb, Dealt
  <1>2. stride \in Nat /\ stride > 0 /\ ht_i \in Nat
    BY DEF Rounds
  <1>3. /\ Counts!ea \in Live /\ Counts!eb \in Live /\ Counts!eb # Counts!ea
    BY <1>1, <1>2, Pair DEF Live
  <1>4. Left(stride, (ht_i + 1) * 2 * stride) = Live \ {Counts!eb}
    BY <1>1, <1>2, PairDone DEF Live
  <1> QED
    BY <1>3, <1>4 DEF Live, Left

-----------------------------------------------------------------------------
(* The steps                                                               *)

\* A step that moves no entry and looks at the same buckets.
LEMMA NothingMoved ==
    ASSUME CountInv, Rounds', Live' = Live, ht_pc # "merge", ht_pc' \notin {"match", "merge"},
           UNCHANGED <<hashtable, puts, count, pa, pb, lc>>
    PROVE  CountInv'
  <1>1. Counts!Lists = hashtable /\ Counts!Lists' = hashtable'
    BY DEF Counts!Lists
  <1>2. Holding(Counts!Lists', Live', puts')
    BY <1>1 DEF CountInv
  <1>3. ListsInOrder'
    BY DEF CountInv, ListsInOrder
  <1>4. Found' = Found
    BY DEF Found
  <1> QED
    BY <1>2, <1>3, <1>4 DEF CountInv

\* The end of the text: the rounds begin with all buckets.
LEMMA EndOfTextKeeps ==
    ASSUME CountInv, Counts!EndOfText PROVE CountInv'
  <1>1. /\ ht_pc = "match" /\ ht_pc' = "round"
        /\ UNCHANGED <<hashtable, puts, count, pa, pb, lc, group, stride, ht_i>>
    BY DEF Counts!EndOfText, Counts!table, Counts!loops, Counts!lists
  <1>2. Rounds'
    <2>1. (HLEN - 1) * 1 < HLEN /\ HLEN <= HLEN * 1
      BY HashAssumption
    <2>2. Covers(HLEN, 1)
      BY <2>1 DEF Covers
    <2> QED
      BY <1>1, <2>2 DEF CountInv, Rounds
  <1>3. Live' = Live
    BY <1>1 DEF Live, Dealt
  <1> QED
    BY <1>1, <1>2, <1>3, NothingMoved

\* A round begins.
LEMMA RoundStartKeeps ==
    ASSUME CountInv, Counts!RoundStart PROVE CountInv'
  <1>1. /\ ht_pc = "round" /\ ht_pc' = "pair" /\ ht_i' = 0 /\ group' = (group + 1) \div 2
        /\ UNCHANGED <<hashtable, puts, count, pa, pb, lc, stride>>
    BY DEF Counts!RoundStart, Counts!table, Counts!lists
  <1>2. /\ group \in Nat /\ group > 0 /\ stride \in Nat /\ stride > 0 /\ Covers(group, stride)
    BY <1>1 DEF CountInv, Rounds
  <1>3. group' \in Nat /\ group' > 0 /\ Covers(group', 2 * stride)
    BY <1>1, <1>2, HalfAsMany
  <1>4. Rounds'
    BY <1>1, <1>2, <1>3 DEF Rounds
  <1>5. Counts!ea' = 0
    BY <1>1, <1>2 DEF Counts!ea
  <1>6. Live' = Live
    BY <1>1, <1>5 DEF Live, Dealt
  <1> QED
    BY <1>1, <1>4, <1>6, NothingMoved

\* A round ends when its pairs are dealt with.
LEMMA RoundEndKeeps ==
    ASSUME CountInv, Counts!RoundEnd PROVE CountInv'
  <1>1. /\ ht_pc = "pair" /\ ht_pc' = "round" /\ stride' = stride * 2 /\ ht_i = group
        /\ UNCHANGED <<hashtable, puts, count, pa, pb, lc, group, ht_i>>
    BY DEF Counts!RoundEnd, Counts!table, Counts!lists
  <1>2. /\ group \in Nat /\ group > 0 /\ stride \in Nat /\ stride > 0 /\ ht_i \in Nat
        /\ Covers(group, 2 * stride)
    BY <1>1 DEF CountInv, Rounds
  <1>3. stride * 2 = 2 * stride /\ 2 * stride \in Nat /\ 2 * stride > 0
        /\ ht_i * 2 * stride = group * (2 * stride) /\ ht_i * 2 * stride \in Nat
    BY <1>1, <1>2
  <1>4. Rounds'
    BY <1>1, <1>2, <1>3 DEF Rounds
  <1>5. HLEN <= Counts!ea /\ Counts!ea \in Nat
    BY <1>2, <1>3 DEF Counts!ea, Covers
  <1>6. Left(stride, Counts!ea) = Left(2 * stride, 0)
    BY <1>2, <1>5, NextRound
  <1>7. Live' = Live
    BY <1>1, <1>3, <1>6 DEF Live, Dealt
  <1> QED
    BY <1>1, <1>4, <1>7, NothingMoved

\* One bucket is left.
LEMMA OutputKeepsCounts ==
    ASSUME CountInv, Counts!Output PROVE CountInv'
  <1>1. /\ ht_pc = "round" /\ ht_pc' = "output" /\ group = 1
        /\ UNCHANGED <<hashtable, puts, count, pa, pb, lc, group, stride, ht_i>>
    BY DEF Counts!Output, Counts!table, Counts!loops, Counts!lists
  <1>2. Rounds'
    BY <1>1 DEF CountInv, Rounds
  <1>3. Live' = Live
    BY <1>1 DEF Live, Dealt
  <1> QED
    BY <1>1, <1>2, <1>3, NothingMoved

\* The last bucket of a round may have no partner.
LEMMA NoPairKeeps ==
    ASSUME CountInv, Counts!NoPair PROVE CountInv'
  <1>1. /\ ht_pc = "pair" /\ ht_pc' = "pair" /\ ht_i < group /\ ht_i' = ht_i + 1
        /\ Counts!eb >= HLEN
        /\ UNCHANGED <<hashtable, puts, count, pa, pb, lc, group, stride>>
    BY DEF Counts!NoPair, Counts!table, Counts!lists
  <1>2. /\ group \in Nat /\ group > 0 /\ stride \in Nat /\ stride > 0 /\ ht_i \in Nat
    BY <1>1 DEF CountInv, Rounds
  <1>3. Rounds'
    BY <1>1, <1>2 DEF CountInv, Rounds
  <1>4. Left(stride, (ht_i + 1) * 2 * stride) = Left(stride, Counts!ea) \ {Counts!eb}
    BY <1>2, PairDone DEF Counts!ea, Counts!eb
  <1>5. Counts!eb \notin Counts!Bucket
    <2>1. Counts!eb \in Int
      BY <1>2 DEF Counts!eb
    <2> QED
      BY <1>1, <2>1, HashAssumption DEF Counts!Bucket
  <1>6. Live' = Live
    BY <1>1, <1>4, <1>5 DEF Live, Dealt, Counts!ea, Left
  <1> QED
    BY <1>1, <1>3, <1>6, NothingMoved

\* A merged list in its three parts.
LEMMA ThreeParts ==
    ASSUME NEW a \in Seq(Entry), NEW b \in Seq(Entry), NEW c \in Seq(Entry)
    PROVE  /\ a \o b \o c \in Seq(Entry)
           /\ Range(a \o b \o c) = Range(a) \cup Range(b) \cup Range(c)
           /\ NoKeyTwice(a \o b \o c) <=>
                 /\ NoKeyTwice(a) /\ NoKeyTwice(b) /\ NoKeyTwice(c)
                 /\ Apart(Range(a), Range(b)) /\ Apart(Range(a), Range(c))
                 /\ Apart(Range(b), Range(c))
  <1>1. a \o b \in Seq(Entry) /\ Range(a \o b) = Range(a) \cup Range(b)
    BY RangeConcat
  <1>2. /\ (a \o b) \o c \in Seq(Entry)
        /\ Range((a \o b) \o c) = Range(a \o b) \cup Range(c)
    BY <1>1, RangeConcat
  <1>3. NoKeyTwice(a \o b) <=> NoKeyTwice(a) /\ NoKeyTwice(b) /\ Apart(Range(a), Range(b))
    BY PlacesConcat
  <1>4. NoKeyTwice((a \o b) \o c) <=>
           NoKeyTwice(a \o b) /\ NoKeyTwice(c) /\ Apart(Range(a \o b), Range(c))
    BY <1>1, PlacesConcat
  <1>5. Apart(Range(a \o b), Range(c)) <=> Apart(Range(a), Range(c)) /\ Apart(Range(b), Range(c))
    BY <1>1 DEF Apart
  <1> QED
    BY <1>1, <1>2, <1>3, <1>4, <1>5

\* The greater head goes next: both halves stay in order.
LEMMA TurnSorted ==
    ASSUME NEW a \in Seq(Entry), NEW b \in Seq(Entry), NEW c \in Seq(Entry),
           b # << >>, c # << >>, Head(b).value >= Head(c).value,
           Counts!Sorted(a \o b), Counts!Sorted(a \o c)
    PROVE  /\ Counts!Sorted(Append(a, Head(b)) \o Tail(b))
           /\ Counts!Sorted(Append(a, Head(b)) \o c)
  <1> DEFINE h == Head(b)
  <1> DEFINE g == Head(c)
  <1> DEFINE t == Tail(b)
  <1> DEFINE u == Tail(c)
  <1>1. /\ h \in Entry /\ t \in Seq(Entry) /\ b = << h >> \o t
        /\ g \in Entry /\ u \in Seq(Entry) /\ c = << g >> \o u
        /\ h.value >= g.value
    BY HeadTail
  <1> HIDE DEF h, g, t, u
  <1>2. /\ << h >> \in Seq(Entry) /\ Range(<< h >>) = {h} /\ Counts!Sorted(<< h >>)
        /\ << g >> \in Seq(Entry) /\ Range(<< g >>) = {g}
    BY <1>1, Singles
  <1>3. Append(a, h) = a \o << h >>
    BY <1>1, AppendIsConcat
  <1>4. Counts!Sorted(a) /\ Counts!Sorted(b) /\ NotLess(Range(a), Range(b))
    BY PlacesConcat
  <1>5. Counts!Sorted(c) /\ NotLess(Range(a), Range(c))
    BY PlacesConcat
  <1>6. Counts!Sorted(<< g >> \o u) /\ Range(<< g >> \o u) = Range(c)
        /\ Range(<< h >> \o t) = Range(b)
    BY <1>1, <1>5
  <1>7. NotLess({g}, Range(u))
    BY <1>1, <1>2, <1>6, PlacesConcat
  <1>8. Range(<< h >> \o t) = {h} \cup Range(t)
    <2>1. Range(<< h >> \o t) = Range(<< h >>) \cup Range(t)
      BY <1>1, <1>2, RangeConcat
    <2> QED
      BY <1>2, <2>1
  <1>9. Range(<< g >> \o u) = {g} \cup Range(u)
    <2>1. Range(<< g >> \o u) = Range(<< g >>) \cup Range(u)
      BY <1>1, <1>2, RangeConcat
    <2> QED
      BY <1>2, <2>1
  <1>10. NotLess({h}, Range(c))
    <2> SUFFICES ASSUME NEW e \in Range(c) PROVE h.value >= e.value
      BY DEF NotLess
    <2>1. h.value \in Nat /\ g.value \in Nat /\ e.value \in Nat /\ h.value >= g.value
      BY <1>1, Elements DEF Entry
    <2>2. e = g \/ e \in Range(u)
      BY <1>6, <1>9
    <2>3. e = g \/ g.value >= e.value
      BY <1>7, <2>2 DEF NotLess
    <2> QED
      BY <2>1, <2>3
  <1>11. NotLess(Range(a), {h})
    BY <1>4, <1>6, <1>8 DEF NotLess
  <1>12. a \o << h >> \in Seq(Entry) /\ Range(a \o << h >>) = Range(a) \cup {h}
    <2>1. a \o << h >> \in Seq(Entry) /\ Range(a \o << h >>) = Range(a) \cup Range(<< h >>)
      BY <1>2, RangeConcat
    <2> QED
      BY <1>2, <2>1
  <1>13. Counts!Sorted(a \o << h >>)
    <2>1. NotLess(Range(a), Range(<< h >>))
      BY <1>2, <1>11
    <2> QED
      BY <1>2, <1>4, <2>1, PlacesConcat
  <1>14. NotLess(Range(a) \cup {h}, Range(c))
    BY <1>5, <1>10 DEF NotLess
  <1>15. Counts!Sorted((a \o << h >>) \o c)
    <2>1. NotLess(Range(a \o << h >>), Range(c))
      BY <1>12, <1>14
    <2> QED
      BY <1>5, <1>12, <1>13, <2>1, PlacesConcat
  <1>16. (a \o << h >>) \o t = a \o b
    <2>1. (a \o << h >>) \o t = a \o (<< h >> \o t)
      BY <1>1, <1>2, RegroupEntries
    <2> QED
      BY <1>1, <2>1
  <1> QED
    BY <1>3, <1>15, <1>16 DEF h, t

\* What the invariant says while no merge is under way, and while one is.
LEMMA Unmerged ==
    ASSUME CountInv, ht_pc # "merge"
    PROVE  /\ Counts!Lists = hashtable /\ Holding(hashtable, Live, puts)
           /\ \A b \in Live : hashtable[b] \in Seq(Entry) /\ Counts!Sorted(hashtable[b])
  <1>1. Counts!Lists = hashtable
    BY WithoutMerge
  <1> QED
    BY <1>1 DEF CountInv, ListsInOrder, Holding

\* A function changed in two places.
LEMMA Updated ==
    ASSUME hashtable = [b \in Counts!Bucket |-> hashtable[b]],
           NEW x \in Counts!Bucket, NEW y \in Counts!Bucket, x # y, NEW u, NEW w,
           NEW new, new = [hashtable EXCEPT ![x] = u, ![y] = w]
    PROVE  /\ new = [b \in Counts!Bucket |-> new[b]]
           /\ new[x] = u /\ new[y] = w
           /\ \A b \in Counts!Bucket \ {x, y} : new[b] = hashtable[b]
  OBVIOUS

\* An empty first list: the second one is moved over.
LEMMA MergeMoveKeeps ==
    ASSUME CountInv, Counts!MergeMove PROVE CountInv'
  <1> DEFINE a == Counts!ea
  <1> DEFINE c == Counts!eb
  <1>1. /\ ht_pc = "pair" /\ ht_pc' = "pair" /\ ht_i < group /\ ht_i' = ht_i + 1
        /\ c < HLEN /\ hashtable[a] = << >>
        /\ hashtable' = [hashtable EXCEPT ![a] = hashtable[c], ![c] = << >>]
        /\ UNCHANGED <<puts, count, pa, pb, lc, group, stride>>
    BY DEF Counts!MergeMove, Counts!lists
  <1>2. Rounds /\ hashtable = [b \in Counts!Bucket |-> hashtable[b]]
    BY DEF CountInv
  <1>3. a \in Live /\ c \in Live /\ a # c /\ a \in Counts!Bucket /\ c \in Counts!Bucket
    BY <1>1, <1>2, ThePair
  <1>4. Rounds'
    BY <1>1, <1>2 DEF Rounds
  <1>5. Live' = Live \ {c}
    BY <1>1, <1>2, ThePair DEF Live, Dealt, Counts!ea
  <1>6. /\ hashtable' = [b \in Counts!Bucket |-> hashtable'[b]]
        /\ hashtable'[a] = hashtable[c] /\ hashtable'[c] = << >>
        /\ \A b \in Counts!Bucket \ {a, c} : hashtable'[b] = hashtable[b]
    BY <1>1, <1>2, <1>3, Updated
  <1> HIDE DEF a, c
  <1>7. \A b \in Live : b \in Counts!Bucket
    BY DEF Live, Left
  <1>8. Holding(hashtable, Live, puts)
    BY <1>1, Unmerged
  <1>9. hashtable'[a] \in Seq(Entry) /\ NoKeyTwice(hashtable'[a])
        /\ Range(hashtable'[a]) = Range(hashtable[a]) \cup Range(hashtable[c])
    <2>1. Range(hashtable[a]) = {}
      BY <1>1, Empties
    <2> QED
      BY <1>3, <1>6, <1>8, <2>1 DEF Holding
  <1>10. Holding(hashtable', Live, puts)
    BY <1>3, <1>6, <1>7, <1>8, <1>9, Gathered
  <1>11. Range(hashtable'[c]) = {}
    BY <1>6, Empties
  <1>12. Holding(hashtable', Live', puts')
    BY <1>1, <1>5, <1>10, <1>11, Dropped
  <1>13. Counts!Lists' = hashtable'
    BY <1>1 DEF Counts!Lists
  <1>14. \A b \in Live' : Counts!Sorted(hashtable'[b])
    <2>1. \A b \in Live : Counts!Sorted(hashtable[b])
      BY <1>1, Unmerged
    <2> QED
      BY <1>3, <1>5, <1>6, <1>7, <2>1
  <1>15. ListsInOrder'
    BY <1>1, <1>14 DEF ListsInOrder
  <1>16. Found' = Found
    BY <1>1 DEF Found
  <1> QED
    BY <1>1, <1>4, <1>6, <1>12, <1>13, <1>15, <1>16 DEF CountInv

\* A merge of two lists begins: neither holds a pattern of the other.
LEMMA MergeStartKeeps ==
    ASSUME CountInv, Counts!MergeStart PROVE CountInv'
  <1> DEFINE a == Counts!ea
  <1> DEFINE c == Counts!eb
  <1>1. /\ ht_pc = "pair" /\ ht_pc' = "merge" /\ ht_i < group /\ c < HLEN
        /\ pa' = hashtable[a] /\ pb' = hashtable[c] /\ lc' = << >>
        /\ UNCHANGED <<hashtable, puts, count, group, stride, ht_i>>
    BY DEF Counts!MergeStart, Counts!table, Counts!loops
  <1>2. Rounds /\ hashtable = [b \in Counts!Bucket |-> hashtable[b]]
    BY DEF CountInv
  <1>3. a \in Live /\ c \in Live /\ a # c /\ a \in Counts!Bucket /\ c \in Counts!Bucket
    BY <1>1, <1>2, ThePair
  <1>4. a' = a /\ c' = c
    BY <1>1 DEF Counts!ea, Counts!eb
  <1>5. Rounds'
    BY <1>1, <1>2, <1>4 DEF Rounds
  <1>6. Live' = Live
    BY <1>1, <1>4 DEF Live, Dealt
  <1>7. Counts!Lists' = [hashtable EXCEPT ![a] = lc' \o pa' \o pb', ![c] = << >>]
    BY <1>1, <1>4 DEF Counts!Lists
  <1> HIDE DEF a, c
  <1>8. /\ Holding(hashtable, Live, puts)
        /\ \A b \in Live : hashtable[b] \in Seq(Entry) /\ Counts!Sorted(hashtable[b])
    BY <1>1, Unmerged
  <1>9. /\ pa' \in Seq(Entry) /\ pb' \in Seq(Entry) /\ lc' \in Seq(Entry)
    BY <1>1, <1>3, <1>8, Empties
  <1>10. lc' \o pa' = pa' /\ lc' \o pb' = pb'
    BY <1>1, <1>9, ConcatEmptySeq
  <1> DEFINE L == Counts!Lists'
  <1>11. /\ L[a] = pa' \o pb' /\ L[c] = << >>
         /\ \A b \in Counts!Bucket \ {a, c} : L[b] = hashtable[b]
    BY <1>2, <1>3, <1>7, <1>10, Updated
  <1> HIDE DEF L
  <1>12. \A b \in Live : b \in Counts!Bucket
    BY DEF Live, Left
  <1>13. /\ L[a] \in Seq(Entry) /\ NoKeyTwice(L[a])
         /\ Range(L[a]) = Range(hashtable[a]) \cup Range(hashtable[c])
    <2>1. NoKeyTwice(pa') /\ NoKeyTwice(pb') /\ Apart(Range(pa'), Range(pb'))
      BY <1>1, <1>3, <1>8 DEF Holding
    <2> QED
      BY <1>1, <1>9, <1>11, <2>1, RangeConcat, PlacesConcat
  <1>14. Holding(L, Live, puts)
    BY <1>3, <1>8, <1>11, <1>12, <1>13, Gathered
  <1>15. ListsInOrder'
    <2>1. Counts!Sorted(pa') /\ Counts!Sorted(pb')
      BY <1>1, <1>3, <1>8
    <2>2. \A b \in Live' : Counts!Sorted(hashtable'[b])
      BY <1>1, <1>6, <1>8
    <2> QED
      BY <1>10, <2>1, <2>2 DEF ListsInOrder
  <1>16. Found' = Found
    BY <1>1 DEF Found
  <1> QED
    BY <1>1, <1>2, <1>5, <1>6, <1>9, <1>14, <1>15, <1>16 DEF CountInv, L

\* What the lists are while one is merged.
LEMMA Merging ==
    ASSUME CountInv, ht_pc = "merge"
    PROVE  /\ Counts!ea \in Live /\ Counts!eb \in Live /\ Counts!ea # Counts!eb
           /\ Counts!ea \in Counts!Bucket /\ Counts!eb \in Counts!Bucket
           /\ Counts!Lists[Counts!ea] = lc \o pa \o pb
           /\ Counts!Lists[Counts!eb] = << >>
           /\ \A b \in Counts!Bucket \ {Counts!ea, Counts!eb} :
                 Counts!Lists[b] = hashtable[b]
           /\ \A b \in Live : b \in Counts!Bucket
  <1>1. /\ Rounds /\ hashtable = [b \in Counts!Bucket |-> hashtable[b]]
        /\ ht_pc \in {"pair", "merge"} /\ Counts!eb < HLEN
    BY DEF CountInv, Rounds
  <1>2. /\ Counts!ea \in Live /\ Counts!eb \in Live /\ Counts!ea # Counts!eb
        /\ Counts!ea \in Counts!Bucket /\ Counts!eb \in Counts!Bucket
    BY <1>1, ThePair
  <1>3. Counts!Lists = [hashtable EXCEPT ![Counts!ea] = lc \o pa \o pb, ![Counts!eb] = << >>]
    BY DEF Counts!Lists
  <1> QED
    BY <1>1, <1>2, <1>3, Updated DEF Live, Left

\* After a turn that took e from one of the two lists: the merged list has the
\* same entries.
LEMMA TurnKeeps ==
    ASSUME CountInv, ht_pc = "merge",
           UNCHANGED <<hashtable, puts, count, ht_pc, group, stride, ht_i>>,
           pa' \in Seq(Entry), pb' \in Seq(Entry), lc' \in Seq(Entry),
           NoKeyTwice(lc' \o pa' \o pb'),
           Range(lc' \o pa' \o pb') = Range(lc \o pa \o pb),
           Counts!Sorted(lc' \o pa'), Counts!Sorted(lc' \o pb')
    PROVE  CountInv'
  <1> DEFINE a == Counts!ea
  <1> DEFINE c == Counts!eb
  <1>1. a' = a /\ c' = c
    BY DEF Counts!ea, Counts!eb
  <1>2. Rounds'
    BY <1>1 DEF CountInv, Rounds
  <1>3. Live' = Live
    BY <1>1 DEF Live, Dealt
  <1>4. /\ a \in Live /\ c \in Live /\ a # c /\ a \in Counts!Bucket /\ c \in Counts!Bucket
        /\ Counts!Lists[a] = lc \o pa \o pb /\ Counts!Lists[c] = << >>
        /\ \A b \in Counts!Bucket \ {a, c} : Counts!Lists[b] = hashtable[b]
        /\ \A b \in Live : b \in Counts!Bucket
    BY Merging
  <1> DEFINE L == Counts!Lists
  <1> DEFINE M == Counts!Lists'
  <1>5. M = [hashtable EXCEPT ![a] = lc' \o pa' \o pb', ![c] = << >>]
    BY <1>1 DEF Counts!Lists
  <1>6. hashtable = [b \in Counts!Bucket |-> hashtable[b]] /\ Holding(L, Live, puts)
    BY DEF CountInv
  <1> HIDE DEF a, c, L, M
  <1>7. /\ M[a] = lc' \o pa' \o pb' /\ M[c] = << >>
        /\ \A b \in Counts!Bucket \ {a, c} : M[b] = hashtable[b]
    BY <1>4, <1>5, <1>6, Updated
  <1>8. lc' \o pa' \o pb' \in Seq(Entry)
    BY ThreeParts
  <1>9. ASSUME NEW b \in Live
        PROVE  M[b] \in Seq(Entry) /\ NoKeyTwice(M[b]) /\ Range(M[b]) = Range(L[b])
    <2>1. CASE b = a
      BY <1>4, <1>7, <1>8, <2>1 DEF L
    <2>2. CASE b = c
      BY <1>4, <1>7, <2>2, Empties DEF L
    <2>3. CASE b \notin {a, c}
      BY <1>4, <1>6, <1>7, <2>3 DEF L, Holding
    <2> QED
      BY <2>1, <2>2, <2>3
  <1>10. Holding(M, Live, puts)
    BY <1>6, <1>9, Rearranged
  <1>11. ListsInOrder'
    BY <1>1, <1>3 DEF ListsInOrder, CountInv, a, c
  <1>12. Found' = Found
    BY DEF Found
  <1> QED
    BY <1>2, <1>3, <1>6, <1>10, <1>11, <1>12 DEF CountInv, M

\* A turn of merge() moves a head behind the merged list.
LEMMA MergeTurnKeeps ==
    ASSUME CountInv, Counts!MergeTurn PROVE CountInv'
  <1>1. /\ ht_pc = "merge" /\ pa # << >> /\ pb # << >>
        /\ UNCHANGED <<hashtable, puts, count, ht_pc, group, stride, ht_i>>
    BY DEF Counts!MergeTurn, Counts!table, Counts!loops
  <1>2. /\ pa \in Seq(Entry) /\ pb \in Seq(Entry) /\ lc \in Seq(Entry)
        /\ Counts!Sorted(lc \o pa) /\ Counts!Sorted(lc \o pb)
    BY <1>1 DEF CountInv, ListsInOrder
  <1>3. NoKeyTwice(lc \o pa \o pb)
    BY <1>1, Merging DEF CountInv, Holding
  <1> DEFINE g == Head(pa)
  <1> DEFINE t == Tail(pa)
  <1> DEFINE h == Head(pb)
  <1> DEFINE u == Tail(pb)
  <1>4. /\ g \in Entry /\ t \in Seq(Entry) /\ pa = << g >> \o t
        /\ h \in Entry /\ u \in Seq(Entry) /\ pb = << h >> \o u
        /\ g.value \in Nat /\ h.value \in Nat
    <2>1. /\ g \in Entry /\ t \in Seq(Entry) /\ pa = << g >> \o t
          /\ h \in Entry /\ u \in Seq(Entry) /\ pb = << h >> \o u
      BY <1>1, <1>2, HeadTail
    <2> QED
      BY <2>1 DEF Entry
  <1>5. \/ g.value > h.value /\ lc' = Append(lc, g) /\ pa' = t /\ pb' = pb
        \/ g.value <= h.value /\ lc' = Append(lc, h) /\ pb' = u /\ pa' = pa
    BY DEF Counts!MergeTurn
  <1>6. CASE g.value > h.value /\ lc' = Append(lc, g) /\ pa' = t /\ pb' = pb
    <2>1. g.value >= h.value
      BY <1>4, <1>6
    <2>2. Counts!Sorted(Append(lc, g) \o t) /\ Counts!Sorted(Append(lc, g) \o pb)
      BY <1>1, <1>2, <2>1, TurnSorted
    <2> HIDE DEF g, t, h, u
    <2>3. Append(lc, g) = lc \o << g >> /\ << g >> \in Seq(Entry)
      BY <1>2, <1>4, AppendIsConcat, Singles
    <2>4. lc \o << g >> \in Seq(Entry)
      BY <1>2, <2>3, RangeConcat
    <2>5. (lc \o << g >>) \o t = lc \o (<< g >> \o t)
      BY <1>2, <1>4, <2>3, RegroupEntries
    <2>6. lc' \o pa' \o pb' = lc \o pa \o pb
      BY <1>4, <1>6, <2>3, <2>5
    <2>7. lc' \in Seq(Entry) /\ pa' \in Seq(Entry) /\ pb' \in Seq(Entry)
      BY <1>2, <1>4, <1>6, <2>3, <2>4
    <2>8. Counts!Sorted(lc' \o pa') /\ Counts!Sorted(lc' \o pb')
      BY <1>6, <2>2
    <2> QED
      BY <1>1, <1>3, <2>6, <2>7, <2>8, TurnKeeps
  <1>7. CASE g.value <= h.value /\ lc' = Append(lc, h) /\ pb' = u /\ pa' = pa
    <2>1. h.value >= g.value
      BY <1>4, <1>7
    <2>2. Counts!Sorted(Append(lc, h) \o u) /\ Counts!Sorted(Append(lc, h) \o pa)
      BY <1>1, <1>2, <2>1, TurnSorted
    <2> HIDE DEF g, t, h, u
    <2>3. Append(lc, h) = lc \o << h >>
      BY <1>2, <1>4, AppendIsConcat
    <2>4. << h >> \in Seq(Entry) /\ Range(<< h >>) = {h} /\ NoKeyTwice(<< h >>)
      BY <1>4, Singles
    <2>5. /\ NoKeyTwice(lc) /\ NoKeyTwice(pa) /\ NoKeyTwice(pb)
          /\ Apart(Range(lc), Range(pa)) /\ Apart(Range(lc), Range(pb))
          /\ Apart(Range(pa), Range(pb))
      BY <1>2, <1>3, ThreeParts
    <2>6. Range(lc \o pa \o pb) = Range(lc) \cup Range(pa) \cup Range(pb)
      BY <1>2, ThreeParts
    <2>7. Range(<< h >> \o u) = {h} \cup Range(u)
      <3>1. Range(<< h >> \o u) = Range(<< h >>) \cup Range(u)
        BY <1>4, <2>4, RangeConcat
      <3> QED
        BY <2>4, <3>1
    <2>8. NoKeyTwice(<< h >> \o u) /\ Range(<< h >> \o u) = Range(pb)
      BY <1>4, <2>5
    <2>9. NoKeyTwice(u) /\ Apart({h}, Range(u))
      BY <1>4, <2>4, <2>8, PlacesConcat
    <2>10. /\ lc \o << h >> \in Seq(Entry) /\ Range(lc \o << h >>) = Range(lc) \cup {h}
      <3>1. /\ lc \o << h >> \in Seq(Entry)
            /\ Range(lc \o << h >>) = Range(lc) \cup Range(<< h >>)
        BY <1>2, <2>4, RangeConcat
      <3> QED
        BY <2>4, <3>1
    <2>11. NoKeyTwice(lc \o << h >>)
      <3>1. Apart(Range(lc), Range(<< h >>))
        BY <2>4, <2>5, <2>7, <2>8 DEF Apart
      <3> QED
        BY <1>2, <2>4, <2>5, <3>1, PlacesConcat
    <2>12. /\ Apart(Range(lc) \cup {h}, Range(pa)) /\ Apart(Range(lc) \cup {h}, Range(u))
           /\ Apart(Range(pa), Range(u))
      <3>1. h \in Range(pb) /\ \A e \in Range(u) : e \in Range(pb)
        BY <2>7, <2>8
      <3>2. Apart(Range(lc) \cup {h}, Range(pa))
        <4> SUFFICES ASSUME NEW e \in Range(lc) \cup {h}, NEW f \in Range(pa) PROVE e.key # f.key
          BY DEF Apart
        <4>1. f.key # h.key
          BY <2>5, <3>1 DEF Apart
        <4> QED
          BY <2>5, <4>1 DEF Apart
      <3>3. Apart(Range(lc) \cup {h}, Range(u))
        BY <2>5, <2>9, <3>1 DEF Apart
      <3>4. Apart(Range(pa), Range(u))
        BY <2>5, <3>1 DEF Apart
      <3> QED
        BY <3>2, <3>3, <3>4
    <2> DEFINE l == lc \o << h >>
    <2> HIDE DEF l
    <2>13. l \in Seq(Entry) /\ Range(l) = Range(lc) \cup {h} /\ NoKeyTwice(l)
      BY <2>10, <2>11 DEF l
    <2>14. /\ NoKeyTwice(l \o pa \o u)
           /\ Range(l \o pa \o u) = Range(lc \o pa \o pb)
      <3>1. Apart(Range(l), Range(pa)) /\ Apart(Range(l), Range(u))
        BY <2>12, <2>13
      <3>2. NoKeyTwice(l \o pa \o u)
        BY <1>2, <1>4, <2>5, <2>9, <2>12, <2>13, <3>1, ThreeParts
      <3>3. Range(l \o pa \o u) = Range(l) \cup Range(pa) \cup Range(u)
        <4>1. l \o pa \in Seq(Entry) /\ Range(l \o pa) = Range(l) \cup Range(pa)
          BY <1>2, <2>13, RangeConcat
        <4>2. Range((l \o pa) \o u) = Range(l \o pa) \cup Range(u)
          BY <1>4, <4>1, RangeConcat
        <4> QED
          BY <4>1, <4>2
      <3> QED
        BY <2>6, <2>7, <2>8, <2>13, <3>2, <3>3
    <2>15. lc' = lc \o << h >> /\ pa' = pa /\ pb' = u
      BY <1>7, <2>3
    <2>16. lc' \in Seq(Entry) /\ pa' \in Seq(Entry) /\ pb' \in Seq(Entry)
      BY <1>2, <1>4, <2>10, <2>15
    <2>17. Counts!Sorted(lc' \o pa') /\ Counts!Sorted(lc' \o pb')
      BY <2>2, <2>3, <2>15
    <2>18. NoKeyTwice(lc' \o pa' \o pb') /\ Range(lc' \o pa' \o pb') = Range(lc \o pa \o pb)
      BY <2>14, <2>15 DEF l
    <2> QED
      BY <1>1, <2>16, <2>17, <2>18, TurnKeeps
  <1> QED
    BY <1>5, <1>6, <1>7

\* The merged list becomes that of the first bucket.
LEMMA MergeEndKeeps ==
    ASSUME CountInv, Counts!MergeEnd PROVE CountInv'
  <1> DEFINE a == Counts!ea
  <1> DEFINE c == Counts!eb
  <1> DEFINE merged == lc \o pa \o pb
  <1>1. /\ ht_pc = "merge" /\ ht_pc' = "pair" /\ ht_i' = ht_i + 1 /\ (pa = << >> \/ pb = << >>)
        /\ hashtable' = [hashtable EXCEPT ![a] = merged,
                                          ![c] = Counts!Stale(merged, hashtable[c])]
        /\ pa' = << >> /\ pb' = << >> /\ lc' = << >>
        /\ UNCHANGED <<puts, count, group, stride>>
    BY Merging DEF Counts!MergeEnd
  <1>2. Rounds /\ hashtable = [b \in Counts!Bucket |-> hashtable[b]]
    BY DEF CountInv
  <1>3. /\ a \in Live /\ c \in Live /\ a # c /\ a \in Counts!Bucket /\ c \in Counts!Bucket
        /\ Counts!Lists[a] = merged /\ Counts!Lists[c] = << >>
        /\ \A b \in Counts!Bucket \ {a, c} : Counts!Lists[b] = hashtable[b]
        /\ \A b \in Live : b \in Counts!Bucket
    BY <1>1, Merging
  <1>4. Rounds'
    BY <1>1, <1>2 DEF Rounds
  <1>5. Live' = Live \ {c}
    <2>1. Left(stride, (ht_i + 1) * 2 * stride) = Live \ {c}
      BY <1>1, <1>2, ThePair DEF Rounds
    <2> QED
      BY <1>1, <2>1 DEF Live, Dealt, Counts!ea
  <1>6. Counts!Lists' = hashtable'
    BY <1>1 DEF Counts!Lists
  <1>7. pa \in Seq(Entry) /\ pb \in Seq(Entry) /\ lc \in Seq(Entry)
        /\ Counts!Sorted(lc \o pa) /\ Counts!Sorted(lc \o pb)
    BY <1>1 DEF CountInv, ListsInOrder
  <1>8. Counts!Sorted(merged)
    <2>1. lc \o pa \in Seq(Entry)
      BY <1>7, RangeConcat
    <2>2. pb = << >> => merged = lc \o pa
      BY <2>1, ConcatEmptySeq
    <2>3. pa = << >> => merged = lc \o pb
      BY <1>7, ConcatEmptySeq
    <2> QED
      BY <1>1, <1>7, <2>2, <2>3
  <1> HIDE DEF a, c, merged
  <1>9. /\ hashtable' = [b \in Counts!Bucket |-> hashtable'[b]]
        /\ hashtable'[a] = merged
        /\ \A b \in Counts!Bucket \ {a, c} : hashtable'[b] = hashtable[b]
    BY <1>1, <1>2, <1>3, Updated
  <1>10. \A b \in Live' : hashtable'[b] = Counts!Lists[b]
    BY <1>3, <1>5, <1>9
  <1>11. Holding(Counts!Lists, Live', puts')
    <2>1. Holding(Counts!Lists, Live, puts) /\ Range(Counts!Lists[c]) = {}
      BY <1>3, Empties DEF CountInv
    <2> QED
      BY <1>1, <1>5, <2>1, Dropped
  <1>12. Holding(hashtable', Live', puts')
    BY <1>10, <1>11 DEF Holding
  <1>13. \A b \in Live' : Counts!Sorted(hashtable'[b])
    <2>1. \A b \in Live \ {a, c} : Counts!Sorted(hashtable[b])
      BY DEF CountInv, ListsInOrder, a, c
    <2> QED
      BY <1>3, <1>5, <1>8, <1>9, <2>1
  <1>14. ListsInOrder'
    BY <1>1, <1>13 DEF ListsInOrder
  <1>15. Found' = Found
    BY <1>1 DEF Found
  <1>16. pa' \in Seq(Entry) /\ pb' \in Seq(Entry) /\ lc' \in Seq(Entry) /\ puts' \in [Str -> Nat]
    BY <1>1, Empties DEF CountInv
  <1> QED
    BY <1>1, <1>4, <1>6, <1>9, <1>12, <1>14, <1>15, <1>16 DEF CountInv

\* What the invariant says of the bucket of s while the text is read.
LEMMA BucketOf ==
    ASSUME CountInv, ht_pc = "match", NEW s \in Str
    PROVE  /\ Live = Counts!Bucket /\ Hash[s] \in Counts!Bucket
           /\ Counts!Lists = hashtable
           /\ hashtable[Hash[s]] \in Seq(Entry) /\ NoKeyTwice(hashtable[Hash[s]])
           /\ Counts!Sorted(hashtable[Hash[s]])
           /\ \A c \in Counts!Bucket \ {Hash[s]} : \A e \in Range(hashtable[c]) : e.key # s
           /\ \A e \in Range(hashtable[Hash[s]]) : puts[e.key] > 0 /\ e.value = puts[e.key]
           /\ puts[s] > 0 => \E e \in Range(hashtable[Hash[s]]) : e.key = s
  <1>1. Live = Counts!Bucket
    BY AtStart DEF CountInv, Rounds, Live, Dealt
  <1>2. Hash[s] \in Counts!Bucket
    BY HashAssumption DEF Counts!Bucket
  <1>3. Counts!Lists = hashtable /\ Holding(hashtable, Live, puts) /\ ListsInOrder
    BY WithoutMerge DEF CountInv
  <1>4. \A c \in Counts!Bucket : \A e \in Range(hashtable[c]) : Hash[e.key] = c
    BY DEF CountInv, AtHome
  <1>5. Counts!Sorted(hashtable[Hash[s]])
    BY <1>1, <1>2, <1>3 DEF ListsInOrder
  <1>6. hashtable[Hash[s]] \in Seq(Entry) /\ NoKeyTwice(hashtable[Hash[s]])
    BY <1>1, <1>2, <1>3 DEF Holding
  <1>7. \A e \in Range(hashtable[Hash[s]]) : puts[e.key] > 0 /\ e.value = puts[e.key]
    BY <1>1, <1>2, <1>3 DEF Holding
  <1>8. \A c \in Counts!Bucket \ {Hash[s]} : \A e \in Range(hashtable[c]) : e.key # s
    BY <1>4
  <1>9. puts[s] > 0 => \E e \in Range(hashtable[Hash[s]]) : e.key = s
    <2> SUFFICES ASSUME puts[s] > 0 PROVE \E e \in Range(hashtable[Hash[s]]) : e.key = s
      OBVIOUS
    <2>1. PICK c \in Counts!Bucket : \E e \in Range(hashtable[c]) : e.key = s
      BY <1>1, <1>3 DEF Holding
    <2>2. c = Hash[s]
      BY <1>8, <2>1
    <2> QED
      BY <2>1, <2>2
  <1> QED
    BY <1>1, <1>2, <1>3, <1>5, <1>6, <1>7, <1>8, <1>9

\* s has been counted, in a list of its bucket that is still in order.
LEMMA PutKeeps ==
    ASSUME CountInv, NEW s \in Str, ht_pc = "match",
           UNCHANGED <<ht_pc, group, stride, ht_i, pa, pb, lc>>,
           puts' = [puts EXCEPT ![s] = @ + 1],
           NEW new, hashtable' = [hashtable EXCEPT ![Hash[s]] = new],
           new \in Seq(Entry), NoKeyTwice(new), Counts!Sorted(new),
           Range(new) = {e \in Range(hashtable[Hash[s]]) : e.key # s}
                           \cup {[key |-> s, value |-> puts[s] + 1]},
           count' = IF puts[s] > 0 THEN count ELSE count + 1
    PROVE  CountInv'
  <1> DEFINE h == Hash[s]
  <1>1. Rounds /\ Rounds' /\ puts \in [Str -> Nat] /\ puts[s] \in Nat
    BY DEF CountInv, Rounds, Counts!eb
  <1>2. hashtable = [b \in Counts!Bucket |-> hashtable[b]]
    BY DEF CountInv
  <1>3. /\ Live = Counts!Bucket /\ h \in Counts!Bucket
        /\ \A c \in Counts!Bucket \ {h} : \A e \in Range(hashtable[c]) : e.key # s
    BY BucketOf
  <1>4. Live' = Live
    BY DEF Live, Dealt
  <1>5. Counts!Lists = hashtable /\ Counts!Lists' = hashtable'
    BY DEF Counts!Lists
  <1>6. /\ hashtable' = [b \in Counts!Bucket |-> hashtable'[b]]
        /\ hashtable'[h] = new
        /\ \A b \in Counts!Bucket \ {h} : hashtable'[b] = hashtable[b]
    BY <1>2, <1>3
  <1>7. Holding(hashtable, Live, puts)
    BY <1>5 DEF CountInv
  <1> HIDE DEF h
  <1>8. Holding(hashtable', Live', puts')
    <2>1. \A c \in Live \ {h} : /\ hashtable'[c] = hashtable[c]
                                /\ \A e \in Range(hashtable[c]) : e.key # s
      BY <1>3, <1>6
    <2>2. /\ hashtable'[h] \in Seq(Entry) /\ NoKeyTwice(hashtable'[h])
          /\ Range(hashtable'[h]) = {e \in Range(hashtable[h]) : e.key # s}
                                        \cup {[key |-> s, value |-> puts[s] + 1]}
      BY <1>6 DEF h
    <2>3. Holding(hashtable', Live, [puts EXCEPT ![s] = @ + 1])
      <3> DEFINE M == hashtable'
      <3>1. h \in Live
        BY <1>3
      <3>2. /\ \A c \in Live \ {h} : M[c] = hashtable[c] /\ \A e \in Range(hashtable[c]) : e.key # s
            /\ M[h] \in Seq(Entry) /\ NoKeyTwice(M[h])
            /\ Range(M[h]) = {e \in Range(hashtable[h]) : e.key # s}
                                \cup {[key |-> s, value |-> puts[s] + 1]}
        BY <2>1, <2>2
      <3> HIDE DEF M
      <3>3. Holding(M, Live, [puts EXCEPT ![s] = @ + 1])
        BY <1>1, <1>7, <3>1, <3>2, Counted
      <3> QED
        BY <3>3 DEF M
    <2> QED
      BY <1>4, <2>3
  <1>9. AtHome'
    <2> SUFFICES ASSUME NEW b \in Counts!Bucket, NEW e \in Range(hashtable'[b])
                 PROVE  Hash[e.key] = b
      BY DEF AtHome, Counts!Bucket
    <2>1. \A c \in Counts!Bucket : \A f \in Range(hashtable[c]) : Hash[f.key] = c
      BY DEF CountInv, AtHome
    <2>2. CASE b = h
      <3>1. e \in Range(hashtable[h]) \/ e.key = s
        BY <1>6, <2>2 DEF h
      <3> QED
        BY <1>3, <2>1, <2>2, <3>1 DEF h
    <2>3. CASE b # h
      BY <1>6, <2>1, <2>3
    <2> QED
      BY <2>2, <2>3
  <1>10. ListsInOrder'
    <2>1. \A b \in Live' : Counts!Sorted(hashtable'[b])
      BY <1>3, <1>4, <1>6 DEF CountInv, ListsInOrder
    <2> QED
      BY <2>1 DEF ListsInOrder
  <1>11. Found' = Found \cup {s}
    <2>1. \A t \in Str : puts'[t] = IF t = s THEN puts[s] + 1 ELSE puts[t]
      BY <1>1
    <2>2. puts'[s] > 0
      BY <1>1, <2>1
    <2> QED
      BY <2>1, <2>2 DEF Found
  <1>12. IsFiniteSet(Found') /\ count' = Cardinality(Found')
    <2>1. s \in Found <=> puts[s] > 0
      BY DEF Found
    <2>2. IsFiniteSet(Found) /\ count = Cardinality(Found)
      BY DEF CountInv
    <2> QED
      BY <1>11, <2>1, <2>2, FS_AddElement
  <1>13. puts' \in [Str -> Nat]
    BY <1>1
  <1>14. pa' \in Seq(Entry) /\ pb' \in Seq(Entry) /\ lc' \in Seq(Entry)
    BY DEF CountInv
  <1> QED
    BY <1>1, <1>5, <1>6, <1>8, <1>9, <1>10, <1>12, <1>13, <1>14 DEF CountInv

\* put() counts one more match.
LEMMA MatchKeeps ==
    ASSUME CountInv, NEW s \in Str, Counts!Match(s) PROVE CountInv'
  <1> DEFINE list == hashtable[Hash[s]]
  <1> DEFINE e == Counts!Place(list, s)
  <1> DEFINE v == list[e].value + 1
  <1> DEFINE p == Counts!Behind(list, e, v)
  <1>1. /\ ht_pc = "match" /\ puts' = [puts EXCEPT ![s] = @ + 1]
        /\ UNCHANGED <<ht_pc, group, stride, ht_i, pa, pb, lc>>
    BY DEF Counts!Match, Counts!loops, Counts!lists
  <1>2. \/ /\ Counts!Has(list, s) /\ count' = count
           /\ hashtable' = [hashtable EXCEPT ![Hash[s]] = Counts!Moved(list, e, p, v)]
        \/ /\ ~Counts!Has(list, s) /\ count' = count + 1
           /\ hashtable' = [hashtable EXCEPT ![Hash[s]] =
                               Append(list, [key |-> s, value |-> 1])]
    BY DEF Counts!Match, Counts!put
  <1>3. /\ list \in Seq(Entry) /\ NoKeyTwice(list) /\ Counts!Sorted(list)
        /\ \A f \in Range(list) : puts[f.key] > 0 /\ f.value = puts[f.key]
        /\ puts[s] > 0 => \E f \in Range(list) : f.key = s
    BY <1>1, BucketOf
  <1>4. Counts!Has(list, s) <=> \E x \in DOMAIN list : list[x].key = s
    BY DEF Counts!Has
  <1>5. \A x \in DOMAIN list : list[x] \in Range(list)
    BY DEF Range
  <1>6. \A f \in Range(list) : \E x \in DOMAIN list : list[x] = f
    BY DEF Range
  <1>7. puts[s] \in Nat
    BY DEF CountInv
  <1>8. Counts!Place(list, s) = CHOOSE x \in DOMAIN list : list[x].key = s
    BY DEF Counts!Place
  <1> DEFINE counted == [key |-> s, value |-> puts[s] + 1]
  <1>9. CASE Counts!Has(list, s)
    <2>1. e \in DOMAIN list /\ list[e].key = s
      BY <1>4, <1>8, <1>9
    <2>2. list[e] \in Entry /\ list[e] \in Range(list)
      BY <1>3, <1>5, <2>1, LenProperties, ElementOfSeq
    <2>3. list[e].value = puts[s] /\ puts[s] > 0
      BY <1>3, <2>1, <2>2
    <2>4. [list[e] EXCEPT !.value = v] = counted /\ v \in Nat
      BY <1>7, <2>1, <2>2, <2>3 DEF Entry
    <2>5. {f \in Range(list) : f.key # s} = Range(list) \ {list[e]}
      <3>1. ASSUME NEW f \in Range(list), f.key = s PROVE f = list[e]
        <4>1. PICK x \in DOMAIN list : list[x] = f
          BY <1>6
        <4>2. x = e
          BY <1>3, <2>1, <3>1, <4>1 DEF NoKeyTwice
        <4> QED
          BY <4>1, <4>2
      <3> QED
        BY <2>1, <3>1
    <2> DEFINE new == Counts!Moved(list, e, p, v)
    <2>6. Counts!Sorted(new)
      BY <1>3, <2>1, MovedIsSorted
    <2>7. p \in 0..e - 1
      BY <1>3, <2>1, <2>4, BehindIsRight
    <2>8. /\ new \in Seq(Entry) /\ NoKeyTwice(new)
          /\ Range(new) = (Range(list) \ {list[e]}) \cup {[list[e] EXCEPT !.value = v]}
      BY <1>3, <2>1, <2>4, <2>7, MovedIsRight
    <2>9. /\ hashtable' = [hashtable EXCEPT ![Hash[s]] = new]
          /\ count' = IF puts[s] > 0 THEN count ELSE count + 1
      BY <1>2, <1>9, <2>3
    <2>10. Range(new) = {f \in Range(hashtable[Hash[s]]) : f.key # s}
                           \cup {[key |-> s, value |-> puts[s] + 1]}
      BY <2>4, <2>5, <2>8
    <2> HIDE DEF new
    <2> QED
      BY <1>1, <2>6, <2>8, <2>9, <2>10, PutKeeps
  <1>10. CASE ~Counts!Has(list, s)
    <2>1. \A f \in Range(list) : f.key # s
      BY <1>4, <1>6, <1>10
    <2>2. ~(puts[s] > 0) /\ puts[s] = 0
      BY <1>3, <1>7, <2>1
    <2> DEFINE one == [key |-> s, value |-> 1]
    <2> DEFINE new == Append(list, one)
    <2>3. one \in Entry /\ one.key = s /\ one.value = 1 /\ one = counted
      BY <2>2 DEF Entry
    <2> HIDE DEF one
    <2>4. /\ << one >> \in Seq(Entry) /\ Range(<< one >>) = {one}
          /\ NoKeyTwice(<< one >>) /\ Counts!Sorted(<< one >>)
      BY <2>3, Singles
    <2>5. new = list \o << one >>
      BY <1>3, <2>3, AppendIsConcat
    <2> DEFINE l == list
    <2>6. /\ l \in Seq(Entry) /\ NoKeyTwice(l) /\ Counts!Sorted(l)
          /\ \A f \in Range(l) : f.key # s /\ f.value >= 1
      <3>1. \A f \in Range(list) : f.value >= 1
        <4> SUFFICES ASSUME NEW f \in Range(list) PROVE f.value >= 1
          OBVIOUS
        <4>1. f.value \in Nat /\ f.value > 0
          BY <1>3, Elements
        <4> QED
          BY <4>1
      <3> QED
        BY <1>3, <2>1, <3>1
    <2> HIDE DEF l
    <2>7. /\ l \o << one >> \in Seq(Entry)
          /\ Range(l \o << one >>) = Range(l) \cup Range(<< one >>)
      BY <2>4, <2>6, RangeConcat
    <2>8. Apart(Range(l), Range(<< one >>)) /\ NotLess(Range(l), Range(<< one >>))
      BY <2>3, <2>4, <2>6 DEF Apart, NotLess
    <2>9. NoKeyTwice(l \o << one >>) /\ Counts!Sorted(l \o << one >>)
      BY <2>4, <2>6, <2>8, PlacesConcat
    <2>10. Range(l) = {f \in Range(l) : f.key # s}
      BY <2>6
    <2>11. /\ new \in Seq(Entry) /\ NoKeyTwice(new) /\ Counts!Sorted(new)
           /\ Range(new) = {f \in Range(hashtable[Hash[s]]) : f.key # s}
                              \cup {[key |-> s, value |-> puts[s] + 1]}
      BY <2>3, <2>4, <2>5, <2>7, <2>9, <2>10 DEF l
    <2>12. /\ hashtable' = [hashtable EXCEPT ![Hash[s]] = new]
           /\ count' = IF puts[s] > 0 THEN count ELSE count + 1
      BY <1>2, <1>10, <2>2 DEF one
    <2> HIDE DEF new
    <2> QED
      BY <1>1, <2>11, <2>12, PutKeeps
  <1> QED
    BY <1>9, <1>10

\* The table is empty at first,
LEMMA InitCounts == Counts!Init => CountInv
  <1> SUFFICES ASSUME Counts!Init PROVE CountInv
    OBVIOUS
  <1>1. /\ hashtable = [b \in Counts!Bucket |-> << >>] /\ count = 0
        /\ puts = [s \in Str |-> 0] /\ ht_pc = "match" /\ group = HLEN /\ stride = 1 /\ ht_i = 0
        /\ pa = << >> /\ pb = << >> /\ lc = << >>
    BY DEF Counts!Init
  <1>2. Rounds
    BY <1>1, HashAssumption DEF Rounds
  <1>3. \A b \in Counts!Bucket : hashtable[b] = << >>
    BY <1>1
  <1>4. \A b \in Live : b \in Counts!Bucket
    BY DEF Live, Left
  <1>5. Found = {} /\ \A s \in Str : ~(puts[s] > 0)
    BY <1>1 DEF Found
  <1>6. Holding(hashtable, Live, puts)
    BY <1>3, <1>4, <1>5, Empties DEF Holding, Apart
  <1>7. Counts!Lists = hashtable
    BY <1>1, WithoutMerge
  <1>8. AtHome
    BY <1>3, Empties DEF AtHome
  <1>9. ListsInOrder
    BY <1>1, <1>3, <1>4, Empties DEF ListsInOrder
  <1>10. IsFiniteSet(Found) /\ Cardinality(Found) = 0
    BY <1>5, FS_EmptySet
  <1> QED
    BY <1>1, <1>2, <1>6, <1>7, <1>8, <1>9, <1>10, Empties DEF CountInv

\* and every step keeps the invariant.
LEMMA CountStep == CountInv /\ [Counts!Next]_(Counts!vars) => CountInv'
  <1> SUFFICES ASSUME CountInv, [Counts!Next]_(Counts!vars) PROVE CountInv'
    OBVIOUS
  <1>1. CASE Counts!Done \/ UNCHANGED Counts!vars
    <2>1. UNCHANGED <<hashtable, count, puts, ht_pc, group, stride, ht_i, pa, pb, lc>>
      BY <1>1 DEF Counts!Done, Counts!vars
    <2>2. Rounds' /\ Live' = Live /\ Counts!Lists' = Counts!Lists /\ ListsInOrder' /\ Found' = Found
      BY <2>1 DEF CountInv, Rounds, Live, Dealt, Counts!ea, Counts!eb, Counts!Lists,
                  ListsInOrder, Found
    <2> QED
      BY <2>1, <2>2 DEF CountInv, AtHome
  <1> QED
    BY <1>1, MatchKeeps, EndOfTextKeeps, RoundStartKeeps, RoundEndKeeps, OutputKeepsCounts,
       NoPairKeeps, MergeMoveKeeps, MergeStartKeeps, MergeTurnKeeps, MergeEndKeeps
       DEF Counts!Next

-----------------------------------------------------------------------------
(* What follows from the invariant                                         *)

\* The three parts of CountsKept follow from it.
LEMMA EachHasOneEntry == CountInv => Counts!OneEntryEach
  <1> SUFFICES ASSUME CountInv, NEW s \in Str
               PROVE  IF puts[s] = 0 THEN Counts!Places(s) = {}
                      ELSE \E p \in Counts!Places(s) :
                              /\ Counts!Places(s) = {p}
                              /\ Counts!Lists[p[1]][p[2]].value = puts[s]
    BY DEF Counts!OneEntryEach
  <1> DEFINE L == Counts!Lists
  <1>1. Counts!Live = Live /\ Holding(L, Live, puts) /\ puts[s] \in Nat
    BY LiveIsLive DEF CountInv
  <1>2. Counts!Places(s) = {p \in UNION {{b} \X DOMAIN L[b] : b \in Live} :
                               L[p[1]][p[2]].key = s}
    BY <1>1 DEF Counts!Places
  <1> HIDE DEF L
  <1>3. ASSUME NEW p \in Counts!Places(s)
        PROVE  /\ p[1] \in Live /\ p[2] \in DOMAIN L[p[1]] /\ p = <<p[1], p[2]>>
               /\ L[p[1]][p[2]].key = s /\ L[p[1]][p[2]] \in Range(L[p[1]])
    BY <1>2 DEF Range
  <1>4. ASSUME puts[s] = 0, NEW p \in Counts!Places(s) PROVE FALSE
    <2>1. puts[s] > 0
      BY <1>1, <1>3, <1>4 DEF Holding
    <2> QED
      BY <1>4, <2>1
  <1>5. ASSUME puts[s] # 0
        PROVE  \E p \in Counts!Places(s) : /\ Counts!Places(s) = {p}
                                           /\ L[p[1]][p[2]].value = puts[s]
    <2>1. PICK b \in Live : \E e \in Range(L[b]) : e.key = s
      BY <1>1, <1>5 DEF Holding
    <2>2. PICK x \in DOMAIN L[b] : L[b][x].key = s
      BY <2>1 DEF Range
    <2> DEFINE p == <<b, x>>
    <2>3. p \in Counts!Places(s) /\ p[1] = b /\ p[2] = x
      BY <1>2, <2>2
    <2>4. L[b][x] \in Range(L[b])
      BY <2>2 DEF Range
    <2>5. L[b][x].value = puts[s]
      BY <1>1, <2>2, <2>4 DEF Holding
    <2>6. ASSUME NEW q \in Counts!Places(s) PROVE q = p
      <3>1. q[1] \in Live /\ q[2] \in DOMAIN L[q[1]] /\ q = <<q[1], q[2]>>
            /\ L[q[1]][q[2]].key = s /\ L[q[1]][q[2]] \in Range(L[q[1]])
        BY <1>3
      <3>2. q[1] = b
        BY <1>1, <2>2, <2>4, <3>1 DEF Holding, Apart
      <3>3. q[2] = x
        BY <1>1, <2>2, <3>1, <3>2 DEF Holding, NoKeyTwice
      <3> QED
        BY <3>1, <3>2, <3>3
    <2> HIDE DEF p
    <2> QED
      BY <2>3, <2>5, <2>6
  <1> QED
    BY <1>4, <1>5 DEF L

LEMMA ListsAreInOrder == CountInv => Counts!OrderKept
  <1> SUFFICES ASSUME CountInv PROVE Counts!OrderKept
    OBVIOUS
  <1>1. Counts!Live = Live
    BY LiveIsLive DEF CountInv
  <1> QED
    BY <1>1 DEF CountInv, ListsInOrder, Counts!OrderKept

LEMMA OneListIsLeft == CountInv => Counts!OutputComplete
  <1> SUFFICES ASSUME CountInv, ht_pc = "output"
               PROVE  Counts!Live = {0} /\ Len(hashtable[0]) = count
    BY DEF Counts!OutputComplete
  <1>1. Counts!Live = Live /\ Rounds
    BY LiveIsLive DEF CountInv
  <1>2. stride \in Nat /\ stride > 0 /\ HLEN <= stride
    <2>1. stride \in Nat /\ stride > 0 /\ Covers(1, stride)
      BY <1>1 DEF Rounds
    <2> QED
      BY <2>1 DEF Covers
  <1>3. Live = {0}
    BY <1>2, AtEnd DEF Live, Dealt
  <1> DEFINE list == hashtable[0]
  <1>4. Holding(hashtable, Live, puts)
    BY Unmerged
  <1>5. list \in Seq(Entry) /\ NoKeyTwice(list)
    BY <1>3, <1>4 DEF Holding
  <1>6. Len(list) \in Nat /\ DOMAIN list = 1..Len(list)
    BY <1>5, LenProperties
  <1>7. \A x \in 1..Len(list) : list[x] \in Range(list) /\ list[x].key \in Str
    <2>1. \A x \in 1..Len(list) : list[x] \in Range(list)
      BY <1>6 DEF Range
    <2> QED
      BY <1>5, <2>1, Elements
  <1>8. \A x \in 1..Len(list) : list[x].key \in Found
    BY <1>3, <1>4, <1>7 DEF Holding, Found
  <1>9. \A s \in Found : \E x \in 1..Len(list) : list[x].key = s
    <2> SUFFICES ASSUME NEW s \in Found PROVE \E x \in 1..Len(list) : list[x].key = s
      OBVIOUS
    <2>1. s \in Str /\ puts[s] > 0
      BY DEF Found
    <2>2. PICK e \in Range(list) : e.key = s
      BY <1>3, <1>4, <2>1 DEF Holding
    <2> QED
      BY <1>6, <2>2 DEF Range
  <1> DEFINE f == [x \in 1..Len(list) |-> list[x].key]
  <1>10. f \in Injection(1..Len(list), Found)
    BY <1>5, <1>6, <1>8 DEF Injection, IsInjective, NoKeyTwice
  <1>11. f \in Surjection(1..Len(list), Found)
    BY <1>8, <1>9 DEF Surjection
  <1>12. Cardinality(1..Len(list)) = Cardinality(Found)
    BY <1>10, <1>11, FS_Injection DEF CountInv
  <1>13. Cardinality(1..Len(list)) = Len(list)
    BY <1>6, FS_Interval
  <1> QED
    BY <1>1, <1>3, <1>12, <1>13 DEF CountInv

\* ac_auto's table of counts: each pattern found has one entry with the number
\* of its matches, through every put() and every turn of every merge; no list
\* gets out of order; and the last round leaves one list of all, for every hash
\* function and any number of buckets.
THEOREM TableKeepsCounts == Counts!Spec => []Counts!CountsKept
  <1>1. CountInv => Counts!CountsKept
    BY EachHasOneEntry, ListsAreInOrder, OneListIsLeft DEF Counts!CountsKept
  <1> QED
    BY <1>1, InitCounts, CountStep, PTL DEF Counts!Spec
=============================================================================
