----------------------------- MODULE ScanProofs ------------------------------
(***************************************************************************)
(* Proofs about the two programs of lab3-patmatch that scan the text for   *)
(* each pattern, for any text and any list of patterns: multikmp.c's       *)
(* tables have the longest borders to go on with and its scans count every *)
(* occurrence; so do the scans of strstr.c.                                *)
(***************************************************************************)
EXTENDS Kmp, MatchingProofs

\* What the assumptions say of the text and of a pattern.
LEMMA Strings ==
    ASSUME text \in Texts, patterns \in PatternLists
    PROVE  /\ text \in Seq(Nat) /\ Len(text) \in Nat
           /\ \A y \in Nat : CharAt(text, y) = 0 <=> y >= Len(text)
           /\ patterns \in Seq(Seq(Nat)) /\ Len(patterns) \in Nat /\ Len(patterns) >= 1
           /\ DOMAIN patterns = 1..Len(patterns)
           /\ \A x \in DOMAIN patterns :
                 /\ patterns[x] \in Seq(Nat) /\ Len(patterns[x]) \in Nat
                 /\ Len(patterns[x]) >= 1
                 /\ \A y \in Nat : CharAt(patterns[x], y) = 0 <=> y >= Len(patterns[x])
  BY KmpAssumption, OfStrings

-----------------------------------------------------------------------------
(* Borders                                                                 *)

\* A border of a border is a border.
LEMMA BorderOfBorder ==
    ASSUME NEW s, NEW m \in Nat, NEW n \in 0..m, NEW l \in 0..n,
           Border(s, n, m), Border(s, l, n)
    PROVE  Border(s, l, m)
  <1> SUFFICES ASSUME NEW x \in 0..l - 1
               PROVE  CharAt(s, x) = CharAt(s, m - l + x)
    BY DEF Border
  <1>1. CharAt(s, x) = CharAt(s, n - l + x)
    BY DEF Border
  <1>2. n - l + x \in 0..n - 1 /\ m - n + (n - l + x) = m - l + x
    OBVIOUS
  <1>3. CharAt(s, n - l + x) = CharAt(s, m - n + (n - l + x))
    BY <1>2 DEF Border
  <1> QED
    BY <1>1, <1>2, <1>3

\* Of two borders the shorter is one of the longer.
LEMMA ShorterBorder ==
    ASSUME NEW s, NEW m \in Nat, NEW n \in 0..m, NEW l \in 0..n,
           Border(s, n, m), Border(s, l, m)
    PROVE  Border(s, l, n)
  <1> SUFFICES ASSUME NEW x \in 0..l - 1
               PROVE  CharAt(s, x) = CharAt(s, n - l + x)
    BY DEF Border
  <1>1. CharAt(s, x) = CharAt(s, m - l + x)
    BY DEF Border
  <1>2. n - l + x \in 0..n - 1 /\ m - n + (n - l + x) = m - l + x
    OBVIOUS
  <1>3. CharAt(s, n - l + x) = CharAt(s, m - n + (n - l + x))
    BY <1>2 DEF Border
  <1> QED
    BY <1>1, <1>2, <1>3

\* A border grows by a character when the same one follows it at both places.
LEMMA LongerBorder ==
    ASSUME NEW s, NEW m \in Nat, NEW n \in 0..m
    PROVE  Border(s, n + 1, m + 1) <=>
              Border(s, n, m) /\ CharAt(s, n) = CharAt(s, m)
  <1>1. \A x \in 0..n : (m + 1) - (n + 1) + x = m - n + x
    OBVIOUS
  <1>2. \A x \in 0..n : x = n \/ x \in 0..n - 1
    OBVIOUS
  <1>3. m - n + n = m /\ n \in 0..n /\ (\A x \in 0..n - 1 : x \in 0..n) /\ (n + 1) - 1 = n
    OBVIOUS
  <1>4. ASSUME Border(s, n + 1, m + 1)
        PROVE  Border(s, n, m) /\ CharAt(s, n) = CharAt(s, m)
    <2>1. \A x \in 0..n : CharAt(s, x) = CharAt(s, m - n + x)
      BY <1>1, <1>3, <1>4 DEF Border
    <2> QED
      BY <1>3, <2>1 DEF Border
  <1>5. ASSUME Border(s, n, m), CharAt(s, n) = CharAt(s, m)
        PROVE  Border(s, n + 1, m + 1)
    <2>1. \A x \in 0..n : CharAt(s, x) = CharAt(s, m - n + x)
      BY <1>2, <1>3, <1>5 DEF Border
    <2> QED
      BY <1>1, <1>3, <2>1 DEF Border
  <1> QED
    BY <1>4, <1>5

\* The table t of a pattern has, at each place filled so far, the longest border
\* to go on with.
NextOk(s, t) == \A m \in 0..Len(t) - 1 :
                    /\ t[m + 1] \in GoOn(s, m) \cup {-1}
                    /\ \A n \in GoOn(s, m) : n <= t[m + 1]

\* Every border of s[0..a] that is longer than b is followed by another character.
OnlyShorter(s, a, b) ==
    \A n \in b + 1..a - 1 : Border(s, n, a) => CharAt(s, n) # CharAt(s, a)

\* get_next() with a and b as i and j: the border b grows, it is the longest, and
\* the entry it makes for a + 1 is the longest to go on with.
LEMMA GrowingBorder ==
    ASSUME NEW s, NEW t, NEW a \in Nat, Len(t) = a + 1, NextOk(s, t),
           NEW b \in -1..a - 1, OnlyShorter(s, a, b),
           b # -1 => Border(s, b, a) /\ CharAt(s, b) = CharAt(s, a),
           NEW e, e = IF CharAt(s, a + 1) # CharAt(s, b + 1) THEN b + 1 ELSE t[b + 2]
    PROVE  /\ Border(s, b + 1, a + 1)
           /\ \A n \in b + 2..a : ~Border(s, n, a + 1)
           /\ e \in GoOn(s, a + 1) \cup {-1}
           /\ \A n \in GoOn(s, a + 1) : n <= e
  <1>1. Border(s, b + 1, a + 1)
    <2>1. CASE b = -1
      BY <2>1 DEF Border
    <2>2. CASE b # -1
      <3>1. b \in 0..a
        BY <2>2
      <3> QED
        BY <2>2, <3>1, LongerBorder
    <2> QED
      BY <2>1, <2>2
  <1>2. \A n \in b + 2..a : ~Border(s, n, a + 1)
    <2> SUFFICES ASSUME NEW n \in b + 2..a, Border(s, n, a + 1) PROVE FALSE
      OBVIOUS
    <2>1. n - 1 \in 0..a /\ (n - 1) + 1 = n /\ n - 1 \in b + 1..a - 1
      OBVIOUS
    <2>2. Border(s, n - 1, a) /\ CharAt(s, n - 1) = CharAt(s, a)
      BY <2>1, LongerBorder
    <2> QED
      BY <2>1, <2>2 DEF OnlyShorter
  <1>3. \A n \in GoOn(s, a + 1) : /\ n \in 0..b + 1 /\ Border(s, n, a + 1)
                                    /\ CharAt(s, n) # CharAt(s, a + 1)
    <2> SUFFICES ASSUME NEW n \in GoOn(s, a + 1) PROVE n \in 0..b + 1
      BY DEF GoOn
    <2>1. n \in 0..a /\ Border(s, n, a + 1)
      BY DEF GoOn
    <2> QED
      BY <1>2, <2>1
  <1>4. CASE CharAt(s, a + 1) # CharAt(s, b + 1)
    <2>1. e = b + 1 /\ b + 1 \in 0..(a + 1) - 1
      BY <1>4
    <2>2. e \in GoOn(s, a + 1)
      BY <1>1, <1>4, <2>1 DEF GoOn
    <2> QED
      BY <1>1, <1>2, <1>3, <2>1, <2>2
  <1>5. CASE CharAt(s, a + 1) = CharAt(s, b + 1)
    <2>1. e = t[(b + 1) + 1] /\ b + 1 \in 0..Len(t) - 1 /\ b + 1 \in 0..a + 1 /\ b + 1 \in Nat
      BY <1>5
    <2>2. e \in GoOn(s, b + 1) \cup {-1} /\ \A n \in GoOn(s, b + 1) : n <= e
      BY <2>1 DEF NextOk
    <2>3. GoOn(s, b + 1) \subseteq GoOn(s, a + 1)
      <3> SUFFICES ASSUME NEW n \in GoOn(s, b + 1) PROVE n \in GoOn(s, a + 1)
        OBVIOUS
      <3>1. n \in 0..b + 1 /\ n \in 0..(a + 1) - 1 /\ Border(s, n, b + 1)
            /\ CharAt(s, n) # CharAt(s, b + 1)
        BY <2>1 DEF GoOn
      <3>2. Border(s, n, a + 1)
        BY <1>1, <2>1, <3>1, BorderOfBorder
      <3> QED
        BY <1>5, <3>1, <3>2 DEF GoOn
    <2>4. GoOn(s, a + 1) \subseteq GoOn(s, b + 1)
      <3> SUFFICES ASSUME NEW n \in GoOn(s, a + 1) PROVE n \in GoOn(s, b + 1)
        OBVIOUS
      <3>1. n \in 0..b + 1 /\ Border(s, n, a + 1) /\ CharAt(s, n) # CharAt(s, b + 1)
        BY <1>3, <1>5
      <3>2. n \in 0..(b + 1) - 1
        BY <2>1, <3>1
      <3>3. Border(s, n, b + 1)
        BY <1>1, <2>1, <3>1, ShorterBorder
      <3> QED
        BY <3>1, <3>2, <3>3 DEF GoOn
    <2> QED
      BY <1>1, <1>2, <2>2, <2>3, <2>4
  <1> QED
    BY <1>4, <1>5

\* The border b does not grow: the one its entry names is the next to try.
LEMMA ShorterCandidate ==
    ASSUME NEW s, NEW t, NEW a \in Nat, Len(t) = a + 1, NextOk(s, t),
           NEW b \in 0..a - 1, OnlyShorter(s, a, b),
           Border(s, b, a), CharAt(s, b) # CharAt(s, a)
    PROVE  /\ t[b + 1] \in -1..b - 1
           /\ t[b + 1] # -1 => Border(s, t[b + 1], a)
           /\ OnlyShorter(s, a, t[b + 1])
  <1> DEFINE c == t[b + 1]
  <1>1. c \in GoOn(s, b) \cup {-1} /\ (\A n \in GoOn(s, b) : n <= c) /\ b \in 0..a
    BY DEF NextOk
  <1> HIDE DEF c
  <1>2. c \in -1..b - 1
    BY <1>1 DEF GoOn
  <1>3. c # -1 => Border(s, c, a)
    <2> SUFFICES ASSUME c # -1 PROVE Border(s, c, a)
      OBVIOUS
    <2>1. c \in 0..b /\ Border(s, c, b)
      BY <1>1 DEF GoOn
    <2> QED
      BY <1>1, <2>1, BorderOfBorder
  <1>4. OnlyShorter(s, a, c)
    <2> SUFFICES ASSUME NEW n \in c + 1..a - 1, Border(s, n, a)
                 PROVE  CharAt(s, n) # CharAt(s, a)
      BY DEF OnlyShorter
    <2>1. CASE n \in b + 1..a - 1
      BY <2>1 DEF OnlyShorter
    <2>2. CASE n = b
      BY <2>2
    <2>3. CASE n \in 0..b - 1
      <3>1. n \in 0..b /\ ~(n <= c)
        BY <1>2, <2>3
      <3>2. Border(s, n, b)
        BY <1>1, <3>1, ShorterBorder
      <3>3. n \notin GoOn(s, b)
        BY <1>1, <3>1
      <3>4. CharAt(s, n) = CharAt(s, b)
        BY <2>3, <3>2, <3>3 DEF GoOn
      <3> QED
        BY <3>4
    <2> QED
      BY <1>2, <2>1, <2>2, <2>3
  <1> QED
    BY <1>2, <1>3, <1>4 DEF c

-----------------------------------------------------------------------------
(* The invariant                                                           *)

\* While get_next() fills the table of the pattern at: those before it are
\* full, this one goes to i, j is a border of what is before i, and every longer
\* one has been tried.  Nothing is counted yet.
Building ==
    /\ at \in 1..Len(patterns) /\ Len(tables) = at
    /\ \A x \in 1..at - 1 : Len(tables[x]) = Len(patterns[x]) + 1
    /\ i \in 0..Len(pattern) /\ Len(next) = i + 1
    /\ j \in -1..i - 1
    /\ j # -1 => Border(pattern, j, i)
    /\ OnlyShorter(pattern, i, j)
    /\ k = 0 /\ v = 0
    /\ \A x \in DOMAIN patterns : count[x] = 0

\* Later all tables are full, the patterns not yet looked for have no count, and
\* the position in the pattern is not beyond the one in the text.
Scanning ==
    /\ Len(tables) = Len(patterns)
    /\ \A x \in DOMAIN patterns : Len(tables[x]) = Len(patterns[x]) + 1
    /\ at \in 1..Len(patterns) + 1
    /\ pc = "scan" <=> at <= Len(patterns)
    /\ \A x \in at + 1..Len(patterns) : count[x] = 0
    /\ k \in Nat /\ v \in 0..k

KmpInv ==
    /\ text \in Texts /\ patterns \in PatternLists
    /\ pc \in {"get_next", "scan", "sort", "done"}
    /\ tables \in Seq(Seq(Int)) /\ Len(tables) <= Len(patterns)
    /\ count \in [DOMAIN patterns -> Nat]
    /\ \A x \in DOMAIN tables : NextOk(patterns[x], tables[x])
    /\ pc = "get_next" => Building
    /\ pc # "get_next" => Scanning
    /\ CountExact

-----------------------------------------------------------------------------
(* get_next()                                                              *)

\* The table of the pattern at has the next entry.
LEMMA ExtendKeeps ==
    ASSUME KmpInv, Extend
    PROVE  KmpInv'
  <1> DEFINE e == IF CharAt(pattern, i + 1) # CharAt(pattern, j + 1)
                  THEN j + 1 ELSE next[j + 2]
  <1>1. /\ pc = "get_next" /\ Building /\ text \in Texts /\ patterns \in PatternLists
        /\ tables \in Seq(Seq(Int)) /\ Len(tables) = at /\ at \in DOMAIN tables
        /\ NextOk(pattern, next)
    <2>1. /\ pc = "get_next" /\ Building /\ text \in Texts /\ patterns \in PatternLists
          /\ tables \in Seq(Seq(Int)) /\ Len(tables) = at /\ at \in 1..Len(patterns)
          /\ \A x \in DOMAIN tables : NextOk(patterns[x], tables[x])
      BY DEF KmpInv, Extend, Building
    <2>2. at \in DOMAIN tables
      BY <2>1, Strings
    <2> QED
      BY <2>1, <2>2 DEF pattern, next
  <1>2. /\ UNCHANGED <<text, patterns, pc, at, k, v, count, result>>
        /\ i' = i + 1 /\ j' = j + 1 /\ pattern' = pattern
        /\ i < Len(pattern)
        /\ j # -1 => CharAt(pattern, i) = CharAt(pattern, j)
        /\ tables' = [tables EXCEPT ![at] = Append(next, e)]
    BY DEF Extend, scan_vars, pattern, next
  <1>3. /\ Len(pattern) \in Nat /\ i \in Nat /\ j \in -1..i - 1 /\ Len(next) = i + 1
        /\ OnlyShorter(pattern, i, j) /\ (j # -1 => Border(pattern, j, i))
        /\ next \in Seq(Int)
    <2>1. at \in DOMAIN patterns /\ Len(pattern) \in Nat
      BY <1>1, Strings DEF Building, pattern
    <2> QED
      BY <1>1, <2>1 DEF Building, next
  <1>4. e \in Int
    <2>1. j + 2 \in 1..Len(next)
      BY <1>3
    <2> QED
      BY <1>3, <2>1
  <1> HIDE DEF e
  <1>5. /\ Border(pattern, j + 1, i + 1)
        /\ \A n \in j + 2..i : ~Border(pattern, n, i + 1)
        /\ e \in GoOn(pattern, i + 1) \cup {-1}
        /\ \A n \in GoOn(pattern, i + 1) : n <= e
    BY <1>1, <1>2, <1>3, GrowingBorder DEF e
  <1>6. /\ Append(next, e) \in Seq(Int) /\ Len(Append(next, e)) = i + 2
        /\ \A m \in 1..i + 1 : Append(next, e)[m] = next[m]
        /\ Append(next, e)[i + 2] = e
    BY <1>3, <1>4
  <1>7. /\ tables' \in Seq(Seq(Int)) /\ Len(tables') = Len(tables)
        /\ DOMAIN tables' = DOMAIN tables
        /\ next' = Append(next, e)
        /\ \A x \in DOMAIN tables : x # at => tables'[x] = tables[x]
    BY <1>1, <1>2, <1>6 DEF next
  <1>8. NextOk(pattern, Append(next, e))
    <2> SUFFICES ASSUME NEW m \in 0..i + 1
                 PROVE  /\ Append(next, e)[m + 1] \in GoOn(pattern, m) \cup {-1}
                        /\ \A n \in GoOn(pattern, m) : n <= Append(next, e)[m + 1]
      BY <1>3, <1>6 DEF NextOk
    <2>1. CASE m = i + 1
      BY <1>3, <1>5, <1>6, <2>1
    <2>2. CASE m \in 0..i
      <3>0. m + 1 \in 1..i + 1 /\ m \in 0..Len(next) - 1
        BY <1>3, <2>2
      <3>1. Append(next, e)[m + 1] = next[m + 1]
        BY <1>6, <3>0
      <3> QED
        BY <1>1, <3>0, <3>1 DEF NextOk
    <2> QED
      BY <1>3, <2>1, <2>2
  <1>9. \A x \in DOMAIN tables' : NextOk(patterns'[x], tables'[x])
    <2> SUFFICES ASSUME NEW x \in DOMAIN tables PROVE NextOk(patterns[x], tables'[x])
      BY <1>2, <1>7
    <2>1. CASE x = at
      BY <1>2, <1>7, <1>8, <2>1 DEF pattern, next
    <2>2. CASE x # at
      BY <1>7, <2>2 DEF KmpInv
    <2> QED
      BY <2>1, <2>2
  <1>10. OnlyShorter(pattern, i + 1, j + 1)
    BY <1>3, <1>5 DEF OnlyShorter
  <1>11. Building'
    <2>1. /\ at' \in 1..Len(patterns') /\ Len(tables') = at' /\ k' = 0 /\ v' = 0
          /\ \A x \in DOMAIN patterns' : count'[x] = 0
      BY <1>1, <1>2, <1>7 DEF Building
    <2>2. \A x \in 1..at' - 1 : Len(tables'[x]) = Len(patterns'[x]) + 1
      <3>1. at \in Nat /\ \A x \in 1..at - 1 : x \in 1..at /\ x # at
        BY <1>1 DEF Building
      <3>2. DOMAIN tables = 1..at
        BY <1>1
      <3> QED
        BY <1>1, <1>2, <1>7, <3>1, <3>2 DEF Building
    <2>3. i' \in 0..Len(pattern') /\ Len(next') = i' + 1 /\ j' \in -1..i' - 1
      <3>1. i' = i + 1 /\ j' = j + 1 /\ pattern' = pattern /\ i < Len(pattern)
        BY <1>2
      <3>2. Len(next') = i + 2
        BY <1>6, <1>7
      <3> QED
        BY <1>3, <3>1, <3>2
    <2>4. Border(pattern', j', i') /\ OnlyShorter(pattern', i', j')
      BY <1>2, <1>5, <1>10
    <2> QED
      BY <2>1, <2>2, <2>3, <2>4 DEF Building
  <1>12. CountExact'
    BY <1>1, <1>2 DEF CountExact
  <1> QED
    BY <1>1, <1>2, <1>7, <1>9, <1>11, <1>12 DEF KmpInv

\* A shorter border is tried.
LEMMA ShortenKeeps ==
    ASSUME KmpInv, Shorten
    PROVE  KmpInv'
  <1>1. /\ pc = "get_next" /\ Building /\ at \in DOMAIN tables /\ NextOk(pattern, next)
        /\ i \in Nat /\ j \in 0..i - 1 /\ Len(next) = i + 1
        /\ Border(pattern, j, i) /\ OnlyShorter(pattern, i, j)
        /\ CharAt(pattern, i) # CharAt(pattern, j)
    BY DEF KmpInv, Shorten, Building, pattern, next
  <1>2. /\ UNCHANGED <<text, patterns, pc, at, i, tables, k, v, count, result>>
        /\ j' = next[j + 1] /\ pattern' = pattern /\ next' = next
    BY DEF Shorten, scan_vars, pattern, next
  <1>3. /\ next[j + 1] \in -1..j - 1
        /\ next[j + 1] # -1 => Border(pattern, next[j + 1], i)
        /\ OnlyShorter(pattern, i, next[j + 1])
    BY <1>1, ShorterCandidate
  <1>4. j' \in -1..i - 1 /\ (j' # -1 => Border(pattern, j', i)) /\ OnlyShorter(pattern, i, j')
    BY <1>1, <1>2, <1>3
  <1>5. Building'
    BY <1>1, <1>2, <1>4 DEF Building
  <1>6. CountExact'
    BY <1>1, <1>2 DEF CountExact
  <1> QED
    BY <1>1, <1>2, <1>5, <1>6 DEF KmpInv

\* A table that begins has only the entry -1, for a mismatch at once.
LEMMA FirstEntry ==
    ASSUME NEW s
    PROVE  NextOk(s, << -1 >>) /\ OnlyShorter(s, 0, -1)
  BY DEF NextOk, OnlyShorter, GoOn

\* A table is full; the next begins, or the scan of the text.
LEMMA NextTableKeeps ==
    ASSUME KmpInv, NextTable
    PROVE  KmpInv'
  <1>1. /\ pc = "get_next" /\ Building /\ text \in Texts /\ patterns \in PatternLists
        /\ tables \in Seq(Seq(Int)) /\ Len(tables) = at /\ at \in 1..Len(patterns)
        /\ i = Len(pattern) /\ Len(next) = i + 1 /\ count \in [DOMAIN patterns -> Nat]
    BY DEF KmpInv, NextTable, Building
  <1>2. UNCHANGED <<text, patterns, k, v, count, result>>
    BY DEF NextTable, scan_vars
  <1>3. /\ DOMAIN patterns = 1..Len(patterns) /\ Len(patterns) \in Nat
        /\ \A x \in 1..Len(patterns) : Len(patterns[x]) \in Nat /\ Len(patterns[x]) >= 1
        /\ Len(text) \in Nat
    BY <1>1, Strings
  <1>4. at \in Nat /\ DOMAIN tables = 1..at
    BY <1>1, <1>3
  <1>5. \A x \in 1..at : Len(tables[x]) = Len(patterns[x]) + 1
    <2>1. Len(tables[at]) = Len(patterns[at]) + 1
      BY <1>1 DEF pattern, next
    <2>2. \A x \in 1..at : x = at \/ x \in 1..at - 1
      BY <1>4
    <2> QED
      BY <1>1, <2>1, <2>2 DEF Building
  <1>6. CASE at < Len(patterns)
    <2>1. /\ at' = at + 1 /\ i' = 0 /\ j' = -1 /\ pc' = pc
          /\ tables' = Append(tables, << -1 >>)
      BY <1>6 DEF NextTable
    <2>2. << -1 >> \in Seq(Int) /\ Len(<< -1 >>) = 1
      OBVIOUS
    <2>3. /\ tables' \in Seq(Seq(Int)) /\ Len(tables') = at + 1
          /\ DOMAIN tables' = 1..at + 1
          /\ \A x \in 1..at : tables'[x] = tables[x]
          /\ tables'[at + 1] = << -1 >>
      BY <1>1, <1>4, <2>1, <2>2
    <2>4. at + 1 \in 1..Len(patterns) /\ (at + 1) - 1 = at
      BY <1>3, <1>4, <1>6
    <2>5. \A x \in DOMAIN tables' : NextOk(patterns'[x], tables'[x])
      <3> SUFFICES ASSUME NEW x \in 1..at + 1 PROVE NextOk(patterns[x], tables'[x])
        BY <1>2, <2>3
      <3>1. CASE x = at + 1
        BY <2>3, <3>1, FirstEntry
      <3>2. CASE x \in 1..at
        BY <1>4, <2>3, <3>2 DEF KmpInv
      <3> QED
        BY <1>4, <3>1, <3>2
    <2>6. pattern' = patterns[at + 1] /\ next' = << -1 >>
      BY <1>2, <2>1, <2>3 DEF pattern, next
    <2>7. Building'
      <3>1. /\ at' \in 1..Len(patterns') /\ Len(tables') = at' /\ k' = 0 /\ v' = 0
            /\ \A x \in DOMAIN patterns' : count'[x] = 0
        BY <1>1, <1>2, <2>1, <2>3, <2>4 DEF Building
      <3>2. \A x \in 1..at' - 1 : Len(tables'[x]) = Len(patterns'[x]) + 1
        BY <1>2, <1>5, <2>1, <2>3, <2>4
      <3>3. i' \in 0..Len(pattern') /\ Len(next') = i' + 1 /\ j' \in -1..i' - 1
        BY <1>3, <2>1, <2>2, <2>4, <2>6
      <3>4. j' = -1 /\ OnlyShorter(pattern', i', j')
        BY <2>1, FirstEntry
      <3> QED
        BY <3>1, <3>2, <3>3, <3>4 DEF Building
    <2>8. CountExact'
      BY <1>1, <2>1 DEF CountExact
    <2> QED
      BY <1>1, <1>2, <2>1, <2>3, <2>4, <2>5, <2>7, <2>8 DEF KmpInv
  <1>7. CASE ~(at < Len(patterns))
    <2>1. at' = 1 /\ pc' = "scan" /\ tables' = tables
      BY <1>7 DEF NextTable, get_next_vars
    <2>2. at = Len(patterns) /\ 1 \in 1..Len(patterns)
      <3>1. at <= Len(patterns) /\ at >= 1 /\ at \in Nat /\ Len(patterns) \in Nat
        BY <1>1, <1>3, <1>4
      <3> QED
        BY <1>7, <3>1
    <2>3. k = 0 /\ v = 0 /\ \A x \in 1..Len(patterns) : count[x] = 0
      BY <1>1, <1>3 DEF Building
    <2>4. Scanning'
      <3>1. \A x \in 2..Len(patterns) : x \in 1..Len(patterns)
        OBVIOUS
      <3>2. \A x \in at' + 1..Len(patterns') : count'[x] = 0
        BY <1>2, <2>1, <2>3, <3>1
      <3>3. Len(tables') = Len(patterns') /\ at' \in 1..Len(patterns') + 1
            /\ at' <= Len(patterns') /\ pc' = "scan" /\ k' \in Nat /\ v' \in 0..k'
        BY <1>1, <1>2, <1>3, <2>1, <2>2, <2>3
      <3>4. \A x \in DOMAIN patterns' : Len(tables'[x]) = Len(patterns'[x]) + 1
        BY <1>2, <1>3, <1>5, <2>1, <2>2
      <3> QED
        BY <3>2, <3>3, <3>4 DEF Scanning
    <2>5. CountExact'
      <3>1. /\ k' <= Len(text') /\ v' <= Len(pattern') /\ 0..v' - 1 = {}
            /\ count'[at'] = OccurrencesBefore(text', pattern', k' - v')
            /\ 1..at' - 1 = {}
        BY <1>2, <1>3, <2>1, <2>2, <2>3, NoneBeforeZero DEF pattern
      <3> QED
        BY <2>1, <3>1 DEF CountExact
    <2> QED
      BY <1>1, <1>2, <2>1, <2>4, <2>5 DEF KmpInv
  <1> QED
    BY <1>6, <1>7

-----------------------------------------------------------------------------
(* The scans                                                               *)

\* The attempt fails after b characters, at index a of the text: an occurrence
\* that begins later but not behind a begins with a border to go on with.
LEMMA NothingSkipped ==
    ASSUME NEW t, NEW p, Len(p) \in Nat, NEW a \in Nat, NEW b \in 0..a, b < Len(p),
           \A x \in 0..b - 1 : CharAt(t, a - b + x) = CharAt(p, x),
           CharAt(t, a) # CharAt(p, b),
           NEW n \in 0..b, Occurs(t, p, a - n)
    PROVE  n \in GoOn(p, b)
  <1>1. \A x \in 0..Len(p) - 1 : CharAt(t, (a - n) + x) = CharAt(p, x)
    BY DEF Occurs
  <1>2. CharAt(p, n) = CharAt(t, a)
    <2>1. n \in 0..Len(p) - 1 /\ (a - n) + n = a
      OBVIOUS
    <2> QED
      BY <1>1, <2>1
  <1>3. n \in 0..b - 1
    <2>1. n # b
      BY <1>2
    <2> QED
      BY <2>1
  <1>4. Border(p, n, b)
    <2> SUFFICES ASSUME NEW x \in 0..n - 1 PROVE CharAt(p, x) = CharAt(p, b - n + x)
      BY DEF Border
    <2>1. x \in 0..Len(p) - 1 /\ b - n + x \in 0..b - 1
          /\ a - b + (b - n + x) = (a - n) + x
      OBVIOUS
    <2>2. CharAt(t, (a - n) + x) = CharAt(p, x)
      BY <1>1, <2>1
    <2>3. CharAt(t, a - b + (b - n + x)) = CharAt(p, b - n + x)
      BY <2>1
    <2> QED
      BY <2>1, <2>2, <2>3
  <1> QED
    BY <1>2, <1>3, <1>4 DEF GoOn

\* The b characters before index a of the text are the first b of the pattern.
Matched(t, p, a, b) == \A x \in 0..b - 1 : CharAt(t, a - b + x) = CharAt(p, x)

\* The occurrences that begin before this attempt.
Before(t, p, a, b) == OccurrencesBefore(t, p, a - b)

\* After b characters the attempt fails: where the entry e of the table says to
\* go on, as many occurrences have begun, and the characters before it match.
LEMMA GoingOn ==
    ASSUME NEW t, NEW p, Len(p) \in Nat, NEW a \in Nat, NEW b \in 0..a, b < Len(p),
           Matched(t, p, a, b), CharAt(t, a) # CharAt(p, b),
           NEW e \in GoOn(p, b) \cup {-1}, \A n \in GoOn(p, b) : n <= e
    PROVE  /\ e \in -1..b - 1
           /\ Before(t, p, a, e) = Before(t, p, a, b)
           /\ Matched(t, p, a, e)
  <1>1. e \in -1..b - 1
    BY DEF GoOn
  <1>2. Before(t, p, a, e) = Before(t, p, a, b)
    <2>1. \A x \in a - b..a - e - 1 : ~Occurs(t, p, x)
      <3> SUFFICES ASSUME NEW x \in a - b..a - e - 1, Occurs(t, p, x) PROVE FALSE
        OBVIOUS
      <3> DEFINE n == a - x
      <3>1. n \in 0..b /\ x = a - n /\ ~(n <= e)
        BY <1>1
      <3> HIDE DEF n
      <3>2. n \in GoOn(p, b)
        BY <3>1, NothingSkipped DEF Matched
      <3> QED
        BY <3>1, <3>2
    <2>2. a - b \in Nat /\ a - e \in Nat /\ a - b <= a - e
      BY <1>1
    <2> QED
      BY <2>1, <2>2, NoMore DEF Before
  <1>3. Matched(t, p, a, e)
    <2> SUFFICES ASSUME NEW x \in 0..e - 1 PROVE CharAt(t, a - e + x) = CharAt(p, x)
      BY DEF Matched
    <2>1. e \in 0..b - 1 /\ Border(p, e, b)
      BY <1>1 DEF GoOn
    <2>2. CharAt(p, x) = CharAt(p, b - e + x)
      BY <2>1 DEF Border
    <2>3. b - e + x \in 0..b - 1 /\ a - b + (b - e + x) = a - e + x
      BY <1>1, <2>1
    <2>4. CharAt(t, a - b + (b - e + x)) = CharAt(p, b - e + x)
      BY <2>3 DEF Matched
    <2> QED
      BY <2>2, <2>3, <2>4
  <1> QED
    BY <1>1, <1>2, <1>3

\* A turn of the loop: a match is counted and the attempt after it begins; then
\* the attempt goes on, or fails and goes on where the table says.
LEMMA ScanKeeps ==
    ASSUME KmpInv, Scan
    PROVE  KmpInv'
  <1> DEFINE found == v = Len(pattern)
             a == IF found THEN k - (Len(pattern) - 1) ELSE k
             b == IF found THEN 0 ELSE v
             e == next[b + 1]
  <1>1. /\ pc = "scan" /\ Scanning /\ text \in Texts /\ patterns \in PatternLists
        /\ at \in 1..Len(patterns) /\ k \in Nat /\ v \in 0..k
        /\ count \in [DOMAIN patterns -> Nat]
        /\ tables \in Seq(Seq(Int)) /\ Len(tables) = Len(patterns)
        /\ k < Len(text) /\ v <= Len(pattern)
        /\ count[at] = OccurrencesBefore(text, pattern, k - v)
    <2>1. pc = "scan" /\ k < Len(text)
      BY DEF Scan
    <2>2. Scanning /\ text \in Texts /\ patterns \in PatternLists
      BY <2>1 DEF KmpInv
    <2>3. at \in 1..Len(patterns)
      <3>1. Len(patterns) \in Nat
        BY <2>2, Strings
      <3> QED
        BY <2>1, <2>2, <3>1 DEF Scanning
    <2> QED
      BY <2>1, <2>2, <2>3 DEF KmpInv, Scanning, CountExact
  <1>2. \A x \in 0..v - 1 : CharAt(text, k - v + x) = CharAt(pattern, x)
    BY <1>1 DEF KmpInv, CountExact
  <1>3. /\ UNCHANGED <<text, patterns, pc, at, i, j, tables, result>>
        /\ pattern' = pattern
    BY DEF Scan, get_next_vars, pattern
  <1>4. /\ count' = IF found THEN [count EXCEPT ![at] = @ + 1] ELSE count
        /\ k' = IF CharAt(text, a) = CharAt(pattern, b) \/ e = -1 THEN a + 1 ELSE a
        /\ v' = IF CharAt(text, a) = CharAt(pattern, b) THEN b + 1
                ELSE IF e = -1 THEN 0 ELSE e
    BY DEF Scan, Rewind
  <1>5. /\ DOMAIN patterns = 1..Len(patterns) /\ Len(patterns) \in Nat
        /\ Len(pattern) \in Nat /\ Len(pattern) >= 1 /\ Len(text) \in Nat
    BY <1>1, Strings DEF pattern
  <1>6. a \in Nat /\ a <= k /\ b \in 0..a /\ b < Len(pattern)
    BY <1>1, <1>5
  <1>7. \A x \in 0..b - 1 : CharAt(text, a - b + x) = CharAt(pattern, x)
    BY <1>2
  <1>8. count'[at] = OccurrencesBefore(text, pattern, a - b)
    <2>1. CASE found
      <3>1. Occurs(text, pattern, k - v)
        BY <1>1, <1>2, <1>5, <2>1 DEF Occurs
      <3>2. k - v \in Nat /\ a - b = (k - v) + 1
        BY <1>1, <1>5, <2>1
      <3>3. count'[at] = count[at] + 1
        BY <1>1, <1>4, <1>5, <2>1
      <3> QED
        BY <1>1, <3>1, <3>2, <3>3, OneMore
    <2>2. CASE ~found
      BY <1>1, <1>4, <2>2
    <2> QED
      BY <2>1, <2>2
  <1>9. /\ count' \in [DOMAIN patterns -> Nat]
        /\ \A x \in DOMAIN patterns : x # at => count'[x] = count[x]
    <2>1. at \in DOMAIN patterns
      BY <1>1, <1>5
    <2>2. count' = [count EXCEPT ![at] = @ + 1] \/ count' = count
      BY <1>4
    <2>3. count \in [DOMAIN patterns -> Nat]
      BY <1>1
    <2> QED
      BY <2>1, <2>2, <2>3
  <1>10. /\ e \in GoOn(pattern, b) \cup {-1}
         /\ \A n \in GoOn(pattern, b) : n <= e
    <2>0. at \in DOMAIN patterns /\ at \in DOMAIN tables
      BY <1>1, <1>5
    <2>1. NextOk(pattern, next) /\ Len(next) = Len(pattern) + 1
      BY <1>1, <2>0 DEF KmpInv, Scanning, pattern, next
    <2>2. b \in 0..Len(next) - 1
      BY <1>5, <1>6, <2>1
    <2> QED
      BY <2>1, <2>2 DEF NextOk
  <1> HIDE DEF found, a, b, e
  <1>11. /\ k' \in Nat /\ v' \in 0..k' /\ k' <= Len(text) /\ v' <= Len(pattern)
         /\ \A x \in 0..v' - 1 : CharAt(text, k' - v' + x) = CharAt(pattern, x)
         /\ count'[at] = OccurrencesBefore(text, pattern, k' - v')
    <2>1. CASE CharAt(text, a) = CharAt(pattern, b)
      <3>1. k' = a + 1 /\ v' = b + 1
        BY <1>4, <2>1
      <3>2. k' - v' = a - b /\ a - b + b = a /\ a - b \in Nat
        BY <1>6, <3>1
      <3>3. \A x \in 0..b : CharAt(text, a - b + x) = CharAt(pattern, x)
        <4>1. \A x \in 0..b : x = b \/ x \in 0..b - 1
          BY <1>6
        <4> QED
          BY <1>7, <2>1, <3>2, <4>1
      <3>4. v' - 1 = b /\ k' \in Nat /\ v' \in 0..k' /\ k' <= Len(text)
            /\ v' <= Len(pattern)
        BY <1>1, <1>5, <1>6, <3>1
      <3> QED
        BY <1>8, <3>2, <3>3, <3>4
    <2>2. CASE CharAt(text, a) # CharAt(pattern, b)
      <3>1. /\ e \in -1..b - 1
            /\ Before(text, pattern, a, e) = Before(text, pattern, a, b)
            /\ Matched(text, pattern, a, e)
        <4>1. Len(pattern) \in Nat /\ Matched(text, pattern, a, b)
          BY <1>5, <1>7 DEF Matched
        <4> QED
          BY <4>1, <1>6, <1>10, <2>2, GoingOn
      <3>2. CASE e = -1
        <4>1. k' = a + 1 /\ v' = 0
          BY <1>4, <2>2, <3>2
        <4>2. k' - v' = a - e /\ 0..v' - 1 = {} /\ k' \in Nat /\ v' \in 0..k'
              /\ k' <= Len(text) /\ v' <= Len(pattern)
          BY <1>1, <1>5, <1>6, <3>2, <4>1
        <4> QED
          BY <1>8, <3>1, <4>2 DEF Before
      <3>3. CASE e # -1
        <4>1. k' = a /\ v' = e
          BY <1>4, <2>2, <3>3
        <4>2. k' \in Nat /\ v' \in 0..k' /\ k' <= Len(text) /\ v' <= Len(pattern)
          BY <1>1, <1>5, <1>6, <3>1, <3>3, <4>1
        <4> QED
          BY <1>8, <3>1, <4>1, <4>2 DEF Before, Matched
      <3> QED
        BY <3>2, <3>3
    <2> QED
      BY <2>1, <2>2
  <1>12. Scanning'
    <2>1. at \in Nat /\ \A x \in at + 1..Len(patterns) : x \in DOMAIN patterns /\ x # at
      BY <1>1, <1>5
    <2>2. \A x \in at' + 1..Len(patterns') : count'[x] = 0
      BY <1>1, <1>3, <1>9, <2>1 DEF Scanning
    <2> QED
      BY <1>1, <1>3, <1>11, <2>2 DEF Scanning
  <1>13. CountExact'
    <2>1. at \in Nat /\ \A x \in 1..at - 1 : x \in DOMAIN patterns /\ x # at
      BY <1>1, <1>5
    <2>2. \A x \in 1..at' - 1 : count'[x] = Occurrences(text', patterns'[x])
      BY <1>1, <1>3, <1>9, <2>1 DEF KmpInv, CountExact
    <2> QED
      BY <1>1, <1>3, <1>11, <2>2 DEF CountExact
  <1> QED
    BY <1>1, <1>3, <1>9, <1>12, <1>13 DEF KmpInv

\* The text is at its end: with the match that may end there all are counted.
LEMMA FinishKeeps ==
    ASSUME KmpInv, Finish
    PROVE  KmpInv'
  <1>1. /\ pc = "scan" /\ Scanning /\ text \in Texts /\ patterns \in PatternLists
        /\ count \in [DOMAIN patterns -> Nat] /\ k \in Nat /\ v \in 0..k
        /\ k <= Len(text) /\ v <= Len(pattern) /\ k >= Len(text)
        /\ count[at] = OccurrencesBefore(text, pattern, k - v)
        /\ tables \in Seq(Seq(Int)) /\ Len(tables) = Len(patterns)
    <2>1. pc = "scan" /\ k >= Len(text)
      BY DEF Finish
    <2> QED
      BY <2>1 DEF KmpInv, Scanning, CountExact
  <1>2. \A x \in 0..v - 1 : CharAt(text, k - v + x) = CharAt(pattern, x)
    BY <1>1 DEF KmpInv, CountExact
  <1>3. /\ UNCHANGED <<text, patterns, i, j, tables, result>>
        /\ at' = at + 1 /\ k' = 0 /\ v' = 0
        /\ pc' = IF at = Len(patterns) THEN "sort" ELSE "scan"
        /\ count' = IF v = Len(pattern) THEN [count EXCEPT ![at] = @ + 1] ELSE count
    BY DEF Finish, get_next_vars
  <1>4. DOMAIN patterns = 1..Len(patterns) /\ Len(patterns) \in Nat /\ Len(text) \in Nat
    BY <1>1, Strings
  <1>5. at \in Nat /\ at >= 1 /\ at <= Len(patterns)
    BY <1>1, <1>4 DEF Scanning
  <1>6. at' = at + 1 /\ at' \in Nat /\ at' - 1 = at /\ at \in DOMAIN patterns
    <2>1. at' = at + 1
      BY <1>3
    <2> QED
      BY <1>4, <1>5, <2>1
  <1>7. Len(pattern) \in Nat /\ Len(pattern) >= 1
    BY <1>1, <1>6, Strings DEF pattern
  <1>8. k = Len(text)
    BY <1>1, <1>4
  <1>9. count'[at] = Occurrences(text, pattern)
    <2>1. Occurrences(text, pattern) = OccurrencesBefore(text, pattern, k - v)
                                       + (IF v = Len(pattern) THEN 1 ELSE 0)
      BY <1>1, <1>2, <1>4, <1>7, <1>8, LastOnes
    <2>2. count[at] \in Nat /\ count'[at] = count[at] + (IF v = Len(pattern) THEN 1 ELSE 0)
      BY <1>1, <1>3, <1>6
    <2> QED
      BY <1>1, <2>1, <2>2
  <1>10. /\ count' \in [DOMAIN patterns -> Nat]
         /\ \A x \in DOMAIN patterns : x # at => count'[x] = count[x]
    BY <1>1, <1>3, <1>6
  <1>11. \A x \in at + 1..Len(patterns) : count'[x] = 0
    <2>1. \A x \in at + 1..Len(patterns) : x \in DOMAIN patterns /\ x # at
      BY <1>4, <1>5
    <2> QED
      BY <1>1, <1>10, <2>1 DEF Scanning
  <1>12. Scanning'
    <2>1. pc' = "scan" <=> at' <= Len(patterns)
      <3>1. at = Len(patterns) <=> ~(at' <= Len(patterns))
        <4>1. at \in Nat /\ Len(patterns) \in Nat /\ at <= Len(patterns) /\ at' = at + 1
          BY <1>4, <1>5, <1>6
        <4> QED
          BY <4>1
      <3>2. pc' = "scan" <=> at # Len(patterns)
        BY <1>3
      <3> QED
        BY <3>1, <3>2
    <2>2. at' \in 1..Len(patterns) + 1
      BY <1>4, <1>5, <1>6
    <2>3. \A x \in at' + 1..Len(patterns) : x \in at + 1..Len(patterns)
      BY <1>4, <1>5, <1>6
    <2>4. k' \in Nat /\ v' \in 0..k'
      BY <1>3
    <2> QED
      BY <1>1, <1>3, <1>11, <2>1, <2>2, <2>3, <2>4 DEF Scanning
  <1>13. CountExact'
    <2>1. \A x \in 1..at' - 1 : count'[x] = Occurrences(text', patterns'[x])
      <3> SUFFICES ASSUME NEW x \in 1..at PROVE count'[x] = Occurrences(text, patterns[x])
        BY <1>3, <1>6
      <3>1. CASE x = at
        BY <1>9, <3>1 DEF pattern
      <3>2. CASE x # at
        <4>1. x \in 1..at - 1 /\ x \in DOMAIN patterns
          BY <1>4, <1>5, <3>2
        <4> QED
          BY <1>1, <1>10, <3>2, <4>1 DEF KmpInv, CountExact
      <3> QED
        BY <3>1, <3>2
    <2>2. ASSUME pc' = "scan"
          PROVE  /\ k' <= Len(text') /\ v' <= Len(pattern') /\ 0..v' - 1 = {}
                 /\ count'[at'] = OccurrencesBefore(text', pattern', k' - v')
      <3>1. at' \in at + 1..Len(patterns) /\ at' \in DOMAIN patterns
        <4>1. at # Len(patterns)
          BY <1>3, <2>2
        <4>2. at \in Nat /\ Len(patterns) \in Nat /\ at >= 1 /\ at <= Len(patterns)
              /\ at' = at + 1
          BY <1>4, <1>5, <1>6
        <4>3. at' \in at + 1..Len(patterns) /\ at' \in 1..Len(patterns)
          BY <4>1, <4>2
        <4> QED
          BY <1>4, <4>3
      <3>2. pattern' = patterns[at'] /\ Len(pattern') \in Nat
        BY <1>1, <1>3, <3>1, Strings DEF pattern
      <3> QED
        BY <1>3, <1>4, <1>11, <3>1, <3>2, NoneBeforeZero
    <2> QED
      BY <1>3, <2>1, <2>2 DEF CountExact
  <1>14. pc' \in {"get_next", "scan", "sort", "done"} /\ pc' # "get_next"
    BY <1>3
  <1> QED
    BY <1>1, <1>3, <1>10, <1>12, <1>13, <1>14 DEF KmpInv

\* The patterns are sorted.
LEMMA OutputKeeps ==
    ASSUME KmpInv, Output
    PROVE  KmpInv'
  <1>1. /\ UNCHANGED <<text, patterns, at, tables, k, v, count>>
        /\ pc = "sort" /\ pc' = "done"
        /\ result' \in qsort([x \in DOMAIN patterns |->
                                 [p |-> patterns[x], count |-> count[x]]])
    BY DEF Output, get_next_vars, scan_vars
  <1>2. Scanning /\ text \in Texts /\ patterns \in PatternLists
    BY <1>1 DEF KmpInv
  <1>3. /\ text \in Seq(Nat) /\ patterns \in Seq(Seq(Nat))
        /\ DOMAIN patterns = 1..Len(patterns) /\ Len(patterns) \in Nat
    BY <1>2, Strings
  <1>4. at - 1 = Len(patterns)
    BY <1>1, <1>2, <1>3 DEF Scanning
  <1>5. \A x \in DOMAIN patterns : count[x] = Occurrences(text, patterns[x])
    BY <1>1, <1>3, <1>4 DEF KmpInv, CountExact
  <1>6. ResultExact(result', text, patterns)
    BY <1>1, <1>3, <1>5, SortedIsExact
  <1>7. CountExact'
    BY <1>1, <1>3, <1>4, <1>5, <1>6 DEF CountExact
  <1>8. Scanning'
    BY <1>1, <1>2 DEF Scanning
  <1> QED
    BY <1>1, <1>7, <1>8 DEF KmpInv

-----------------------------------------------------------------------------
(* The theorem                                                             *)

\* get_next() begins with the first table.
LEMMA InitOk ==
    ASSUME Init
    PROVE  KmpInv
  <1>1. /\ text \in Texts /\ patterns \in PatternLists /\ pc = "get_next"
        /\ at = 1 /\ i = 0 /\ j = -1 /\ tables = << << -1 >> >> /\ k = 0 /\ v = 0
        /\ count = [x \in DOMAIN patterns |-> 0]
    BY DEF Init
  <1>2. /\ Len(patterns) \in Nat /\ Len(patterns) >= 1 /\ Len(pattern) \in Nat
    BY <1>1, Strings DEF pattern
  <1>3. /\ tables \in Seq(Seq(Int)) /\ Len(tables) = 1 /\ DOMAIN tables = {1}
        /\ tables[1] = << -1 >> /\ Len(tables[1]) = 1
    BY <1>1
  <1>4. \A x \in DOMAIN tables : NextOk(patterns[x], tables[x])
    BY <1>3, FirstEntry
  <1>5. Building
    <2>1. at \in 1..Len(patterns) /\ Len(tables) = at /\ 1..at - 1 = {}
      BY <1>1, <1>2, <1>3
    <2>2. i \in 0..Len(pattern) /\ Len(next) = i + 1 /\ j \in -1..i - 1
      BY <1>1, <1>2, <1>3 DEF next
    <2>3. OnlyShorter(pattern, i, j)
      BY <1>1, FirstEntry
    <2> QED
      BY <1>1, <2>1, <2>2, <2>3 DEF Building
  <1>6. CountExact
    BY <1>1 DEF CountExact
  <1>7. count \in [DOMAIN patterns -> Nat] /\ Len(tables) <= Len(patterns)
    BY <1>1, <1>2, <1>3
  <1> QED
    BY <1>1, <1>3, <1>4, <1>5, <1>6, <1>7 DEF KmpInv

\* While get_next() and the scans run, the tables filled so far are right, the
\* border being extended is the longest candidate, and the counts are those of
\* the text scanned so far.
THEOREM KmpInvariant == Spec => []KmpInv
  <1>1. Init => KmpInv
    BY InitOk
  <1>2. KmpInv /\ [Next]_vars => KmpInv'
    <2> SUFFICES ASSUME KmpInv, [Next]_vars PROVE KmpInv'
      OBVIOUS
    <2>1. CASE Extend
      BY <2>1, ExtendKeeps
    <2>2. CASE Shorten
      BY <2>2, ShortenKeeps
    <2>3. CASE NextTable
      BY <2>3, NextTableKeeps
    <2>4. CASE Scan
      BY <2>4, ScanKeeps
    <2>5. CASE Finish
      BY <2>5, FinishKeeps
    <2>6. CASE Output
      BY <2>6, OutputKeeps
    <2>7. CASE Done \/ UNCHANGED vars
      BY <2>7 DEF Done, vars, get_next_vars, scan_vars, KmpInv, Building, Scanning,
                  CountExact, pattern, next
    <2> QED
      BY <2>1, <2>2, <2>3, <2>4, <2>5, <2>6, <2>7 DEF Next
  <1> QED
    BY <1>1, <1>2, PTL DEF Spec

\* Every table get_next() fills has, at each place, the longest border to go on
\* with, and the scans that use the tables count every occurrence, those that
\* overlap included, while they go on and in the end, for any text and patterns.
THEOREM KmpIsExact == Spec => []KmpExact
  <1>1. KmpInv => NextIsLongest
    BY DEF KmpInv, NextIsLongest, NextOk
  <1>2. KmpInv => CountExact
    BY DEF KmpInv
  <1>3. KmpInv => KmpExact
    BY <1>1, <1>2 DEF KmpExact
  <1> QED
    BY <1>3, KmpInvariant, PTL

-----------------------------------------------------------------------------
(* strstr.c                                                                *)

VARIABLES naive_pc, naive_at, sp, pp, naive_count, naive_result

Naive == INSTANCE StrStr WITH pc <- naive_pc, at <- naive_at, count <- naive_count,
                              result <- naive_result

\* StrStr and Kmp share the notions of Matching.
LEMMA SameNotions ==
    /\ \A s, x : Naive!CharAt(s, x) = CharAt(s, x)
    /\ \A t, p, n : Naive!OccurrencesBefore(t, p, n) = OccurrencesBefore(t, p, n)
    /\ \A t, p : Naive!Occurrences(t, p) = Occurrences(t, p)
    /\ \A a : Naive!qsort(a) = qsort(a)
    /\ \A r, t, list : Naive!ResultExact(r, t, list) <=> ResultExact(r, t, list)
  <1>1. \A s, x : Naive!CharAt(s, x) = CharAt(s, x)
    BY DEF Naive!CharAt, CharAt
  <1>2. \A t, p, x : Naive!Occurs(t, p, x) <=> Occurs(t, p, x)
    BY <1>1 DEF Naive!Occurs, Occurs
  <1>3. \A t, p, n : Naive!OccurrencesBefore(t, p, n) = OccurrencesBefore(t, p, n)
    <2> SUFFICES ASSUME NEW t, NEW p, NEW n
                 PROVE  Naive!OccurrencesBefore(t, p, n) = OccurrencesBefore(t, p, n)
      OBVIOUS
    <2>1. {x \in 0..n - 1 : Naive!Occurs(t, p, x)} = {x \in 0..n - 1 : Occurs(t, p, x)}
      BY <1>2
    <2>2. \A S : Naive!Cardinality(S) = Cardinality(S)
      BY DEF Naive!Cardinality, Cardinality
    <2> QED
      BY <2>1, <2>2 DEF Naive!OccurrencesBefore, OccurrencesBefore
  <1>4. \A t, p : Naive!Occurrences(t, p) = Occurrences(t, p)
    BY <1>3 DEF Naive!Occurrences, Occurrences
  <1>5. \A S, T : Naive!Bijection(S, T) = Bijection(S, T)
    BY DEF Naive!Bijection, Naive!Injection, Naive!Surjection, Naive!IsInjective,
           Bijection, Injection, Surjection, IsInjective
  <1>6. \A a : Naive!qsort(a) = qsort(a)
    BY <1>5 DEF Naive!qsort, qsort, Naive!cmp, cmp
  <1>7. \A r, t, list : Naive!ResultExact(r, t, list) <=> ResultExact(r, t, list)
    BY <1>4, <1>5 DEF Naive!ResultExact, ResultExact
  <1> QED
    BY <1>1, <1>3, <1>4, <1>6, <1>7

\* The inductive invariant: beside CountExact, the variables' types, and that
\* the patterns not yet looked for have no count.
NaiveInv ==
    /\ text \in Texts /\ patterns \in PatternLists
    /\ naive_pc \in {"scan", "sort", "done"}
    /\ naive_at \in 1..Len(patterns) + 1
    /\ naive_pc = "scan" => naive_at <= Len(patterns)
    /\ naive_pc # "scan" => naive_at = Len(patterns) + 1
    /\ naive_count \in [DOMAIN patterns -> Nat]
    /\ \A x \in naive_at + 1..Len(patterns) : naive_count[x] = 0
    /\ Naive!CountExact

\* A turn of the loop: the attempt goes on, or it is over and the next begins
\* one character later.
LEMMA NaiveScanKeeps ==
    ASSUME NaiveInv, Naive!Scan
    PROVE  NaiveInv'
  <1> DEFINE n == sp - pp
  <1>1. /\ text \in Texts /\ patterns \in PatternLists /\ naive_pc = "scan"
        /\ naive_at \in DOMAIN patterns /\ naive_count \in [DOMAIN patterns -> Nat]
        /\ pp \in 0..Len(Naive!pattern) /\ sp \in pp..Len(text) /\ n \in Nat
        /\ sp \in Nat /\ pp \in Nat
    BY Strings DEF NaiveInv, Naive!CountExact, Naive!Scan, Naive!pattern
  <1>2. /\ UNCHANGED <<text, patterns, naive_pc, naive_at, naive_result>> /\ Naive!pattern' = Naive!pattern
        /\ CharAt(text, sp) # 0
    BY SameNotions DEF Naive!Scan, Naive!pattern
  <1>3. /\ sp < Len(text) /\ Len(Naive!pattern) \in Nat /\ Len(text) \in Nat
        /\ CharAt(Naive!pattern, pp) = 0 <=> pp = Len(Naive!pattern)
    BY <1>1, <1>2, Strings DEF Naive!pattern
  <1>4. \A x \in 0..pp - 1 : CharAt(text, n + x) = CharAt(Naive!pattern, x)
    BY SameNotions DEF NaiveInv, Naive!CountExact, Naive!Scan
  <1>5. naive_count[naive_at] = OccurrencesBefore(text, Naive!pattern, n)
    BY SameNotions DEF NaiveInv, Naive!CountExact, Naive!Scan
  <1>6. \A x \in 1..naive_at - 1 : naive_count[x] = Occurrences(text, patterns[x])
    BY SameNotions DEF NaiveInv, Naive!CountExact
  <1>7. naive_count' = IF pp = Len(Naive!pattern) THEN [naive_count EXCEPT ![naive_at] = @ + 1] ELSE naive_count
    BY DEF Naive!Scan, Naive!Count
  <1>8. /\ naive_count' \in [DOMAIN patterns -> Nat]
        /\ \A x \in 1..naive_at - 1 : naive_count'[x] = Occurrences(text, patterns[x])
        /\ \A x \in naive_at + 1..Len(patterns) : naive_count'[x] = 0
    <2>1. naive_count' \in [DOMAIN patterns -> Nat]
      BY <1>1, <1>7
    <2>2. naive_at \in 1..Len(patterns) /\ DOMAIN patterns = 1..Len(patterns)
          /\ Len(patterns) \in Nat
      BY <1>1, Strings
    <2>3. \A x \in 1..Len(patterns) : x # naive_at => naive_count'[x] = naive_count[x]
      BY <1>1, <1>7, <2>2
    <2>4. \A x \in 1..naive_at - 1 : x \in 1..Len(patterns) /\ x # naive_at
      BY <2>2
    <2>5. \A x \in naive_at + 1..Len(patterns) : x \in 1..Len(patterns) /\ x # naive_at
      BY <2>2
    <2> QED
      BY <1>6, <2>1, <2>3, <2>4, <2>5 DEF NaiveInv
  <1>9. CASE CharAt(Naive!pattern, pp) = CharAt(text, sp)
    <2>1. pp < Len(Naive!pattern) /\ sp' = sp + 1 /\ pp' = pp + 1 /\ naive_count' = naive_count
      BY <1>1, <1>2, <1>3, <1>7, <1>9, SameNotions DEF Naive!Scan
    <2>2. sp' - pp' = n /\ pp' \in 0..Len(Naive!pattern) /\ sp' \in pp'..Len(text)
      BY <1>1, <1>3, <2>1
    <2>3. \A x \in 0..pp' - 1 : CharAt(text, (sp' - pp') + x) = CharAt(Naive!pattern, x)
      <3> SUFFICES ASSUME NEW x \in 0..pp
                   PROVE  CharAt(text, n + x) = CharAt(Naive!pattern, x)
        BY <1>1, <2>1, <2>2
      <3>1. CASE x = pp
        BY <1>1, <1>9, <3>1
      <3>2. CASE x \in 0..pp - 1
        BY <1>4, <3>2
      <3> QED
        BY <1>1, <3>1, <3>2
    <2>4. naive_count'[naive_at] = OccurrencesBefore(text, Naive!pattern, sp' - pp')
      BY <1>5, <2>1, <2>2
    <2>5. Naive!CountExact'
      BY <1>1, <1>2, <1>8, <2>2, <2>3, <2>4, SameNotions DEF Naive!CountExact
    <2> QED
      BY <1>1, <1>2, <1>8, <2>5 DEF NaiveInv
  <1>10. CASE CharAt(Naive!pattern, pp) # CharAt(text, sp)
    <2>1. sp' = n + 1 /\ pp' = 0
      BY <1>10, SameNotions DEF Naive!Scan
    <2>2. Occurs(text, Naive!pattern, n) <=> pp = Len(Naive!pattern)
      <3>1. CASE pp = Len(Naive!pattern)
        BY <1>1, <1>3, <1>4, <3>1 DEF Occurs
      <3>2. CASE pp # Len(Naive!pattern)
        <4>1. pp \in 0..Len(Naive!pattern) - 1 /\ n + pp = sp
          BY <1>1, <1>3, <3>2
        <4> QED
          BY <1>10, <3>2, <4>1 DEF Occurs
      <3> QED
        BY <3>1, <3>2
    <2>3. naive_count'[naive_at] = OccurrencesBefore(text, Naive!pattern, n + 1)
      BY <1>1, <1>5, <1>7, <2>2, OneMore
    <2>4. sp' - pp' = n + 1 /\ pp' \in 0..Len(Naive!pattern) /\ sp' \in pp'..Len(text)
          /\ 0..pp' - 1 = {}
      BY <1>1, <1>3, <2>1
    <2>5. Naive!CountExact'
      BY <1>1, <1>2, <1>8, <2>3, <2>4, SameNotions DEF Naive!CountExact
    <2> QED
      BY <1>1, <1>2, <1>8, <2>5 DEF NaiveInv
  <1> QED
    BY <1>9, <1>10

\* The scan for a pattern is over.  It stops in the middle of an attempt, but
\* from there on the pattern no longer fits.
LEMMA NaiveFinishKeeps ==
    ASSUME NaiveInv, Naive!Finish
    PROVE  NaiveInv'
  <1> DEFINE n == sp - pp
             m == IF pp = Len(Naive!pattern) THEN n + 1 ELSE n
  <1>1. /\ text \in Texts /\ patterns \in PatternLists /\ naive_pc = "scan"
        /\ naive_at \in DOMAIN patterns /\ naive_count \in [DOMAIN patterns -> Nat]
        /\ pp \in 0..Len(Naive!pattern) /\ sp \in pp..Len(text) /\ n \in Nat
        /\ sp \in Nat /\ pp \in Nat
    <2>1. naive_pc = "scan"
      BY SameNotions DEF Naive!Finish
    <2> QED
      BY <2>1, Strings DEF NaiveInv, Naive!CountExact, Naive!pattern
  <1>2. UNCHANGED <<text, patterns, naive_result>> /\ CharAt(text, sp) = 0
        /\ naive_at' = naive_at + 1 /\ sp' = 0 /\ pp' = 0
        /\ naive_pc' = IF naive_at = Len(patterns) THEN "sort" ELSE "scan"
    BY SameNotions DEF Naive!Finish
  <1>3. /\ Len(Naive!pattern) \in Nat /\ Len(Naive!pattern) >= 1 /\ Len(text) \in Nat
        /\ Len(patterns) \in Nat /\ DOMAIN patterns = 1..Len(patterns)
    BY <1>1, Strings DEF Naive!pattern
  <1>18. naive_at \in Nat /\ naive_at >= 1 /\ naive_at <= Len(patterns) /\ Len(patterns) \in Nat
    BY <1>1, <1>3
  <1>19. naive_at' = naive_at + 1 /\ naive_at' - 1 = naive_at /\ naive_at' \in Nat
    BY <1>2, <1>18
  <1>4. sp = Len(text) /\ m \in Nat /\ m <= Len(text)
    BY <1>1, <1>2, <1>3, Strings
  <1>5. \A x \in 0..pp - 1 : CharAt(text, n + x) = CharAt(Naive!pattern, x)
    BY SameNotions DEF NaiveInv, Naive!CountExact, Naive!Finish
  <1>6. naive_count[naive_at] = OccurrencesBefore(text, Naive!pattern, n)
    BY SameNotions DEF NaiveInv, Naive!CountExact, Naive!Finish
  <1>7. \A x \in 1..naive_at - 1 : naive_count[x] = Occurrences(text, patterns[x])
    BY SameNotions DEF NaiveInv, Naive!CountExact
  <1>8. naive_count' = IF pp = Len(Naive!pattern) THEN [naive_count EXCEPT ![naive_at] = @ + 1] ELSE naive_count
    BY DEF Naive!Finish, Naive!Count
  <1>9. pp = Len(Naive!pattern) => Occurs(text, Naive!pattern, n)
    BY <1>1, <1>3, <1>4, <1>5 DEF Occurs
  <1>10. naive_count'[naive_at] = OccurrencesBefore(text, Naive!pattern, m)
    BY <1>1, <1>6, <1>8, <1>9, OneMore
  <1>11. \A x \in m..Len(text) - 1 : ~Occurs(text, Naive!pattern, x)
    BY <1>1, <1>3, <1>4 DEF Occurs
  <1>12. naive_count'[naive_at] = Occurrences(text, Naive!pattern)
    BY <1>3, <1>4, <1>10, <1>11, NoMore DEF Occurrences
  <1>13. /\ naive_count' \in [DOMAIN patterns -> Nat]
         /\ \A x \in 1..Len(patterns) : x # naive_at => naive_count'[x] = naive_count[x]
    BY <1>1, <1>3, <1>8
  <1>14. \A x \in 1..naive_at' - 1 : naive_count'[x] = Occurrences(text, patterns[x])
    <2> SUFFICES ASSUME NEW x \in 1..naive_at PROVE naive_count'[x] = Occurrences(text, patterns[x])
      BY <1>19
    <2>1. CASE x = naive_at
      BY <1>12, <2>1 DEF Naive!pattern
    <2>2. CASE x \in 1..naive_at - 1
      <3>1. x \in 1..Len(patterns) /\ x # naive_at
        BY <1>3, <1>18, <2>2
      <3> QED
        BY <1>7, <1>13, <2>2, <3>1
    <2> QED
      BY <1>18, <2>1, <2>2
  <1>15. \A x \in naive_at'..Len(patterns) : naive_count'[x] = 0
    <2>1. \A x \in naive_at + 1..Len(patterns) : x \in 1..Len(patterns) /\ x # naive_at
      BY <1>3, <1>18
    <2> QED
      BY <1>19, <1>13, <2>1 DEF NaiveInv
  <1>16. Naive!CountExact'
    <2>1. ASSUME naive_pc' = "scan"
          PROVE  /\ 0 \in 0..Len(patterns[naive_at']) /\ 0 \in 0..Len(text)
                 /\ naive_count'[naive_at'] = 0
                 /\ OccurrencesBefore(text, patterns[naive_at'], 0) = 0
      <3>0. naive_at # Len(patterns)
        BY <1>2, <2>1
      <3>1. naive_at' \in 1..Len(patterns)
        BY <1>18, <1>19, <3>0
      <3>2. Len(patterns[naive_at']) \in Nat /\ naive_at' \in naive_at'..Len(patterns)
        BY <1>1, <1>3, <3>1, Strings
      <3> QED
        BY <1>3, <1>15, <3>2, NoneBeforeZero
    <2> QED
      BY <1>2, <1>14, <2>1, SameNotions DEF Naive!CountExact, Naive!pattern
  <1>17. \A x \in naive_at' + 1..Len(patterns) : naive_count'[x] = 0
    <2>1. \A x \in naive_at' + 1..Len(patterns) : x \in naive_at'..Len(patterns)
      BY <1>3, <1>19
    <2> QED
      BY <1>15, <2>1
  <1> QED
    BY <1>1, <1>2, <1>3, <1>18, <1>19, <1>13, <1>16, <1>17 DEF NaiveInv

\* The patterns are sorted.
LEMMA NaiveOutputKeeps ==
    ASSUME NaiveInv, Naive!Output
    PROVE  NaiveInv'
  <1>1. /\ UNCHANGED <<text, patterns, naive_at, naive_count>> /\ naive_pc = "sort" /\ naive_pc' = "done"
        /\ naive_result' \in qsort([x \in DOMAIN patterns |->
                                 [p |-> patterns[x], count |-> naive_count[x]]])
    BY SameNotions DEF Naive!Output
  <1>2. /\ text \in Seq(Nat) /\ patterns \in Seq(Seq(Nat))
        /\ DOMAIN patterns = 1..Len(patterns) /\ Len(patterns) \in Nat
    BY Strings DEF NaiveInv
  <1>3. \A x \in DOMAIN patterns : naive_count[x] = Occurrences(text, patterns[x])
    BY <1>1, <1>2, SameNotions DEF NaiveInv, Naive!CountExact
  <1>4. ResultExact(naive_result', text, patterns)
    BY <1>1, <1>2, <1>3, SortedIsExact
  <1>5. Naive!CountExact'
    BY <1>1, <1>4, SameNotions DEF NaiveInv, Naive!CountExact
  <1> QED
    BY <1>1, <1>5 DEF NaiveInv

\* Every occurrence of every pattern is counted, those that overlap included,
\* while the scans go on and in the end, for any text and any patterns.
THEOREM NaiveCountExact == Naive!Spec => []Naive!CountExact
  <1>1. Naive!Init => NaiveInv
    <2> SUFFICES ASSUME Naive!Init PROVE NaiveInv
      OBVIOUS
    <2>1. /\ text \in Texts /\ patterns \in PatternLists
          /\ Len(patterns) \in Nat /\ Len(patterns) >= 1 /\ Len(text) \in Nat
          /\ DOMAIN patterns = 1..Len(patterns)
      BY Strings DEF Naive!Init
    <2>2. naive_at = 1 /\ sp = 0 /\ pp = 0 /\ naive_pc = "scan" /\ Len(patterns[1]) \in Nat
      BY <2>1, Strings DEF Naive!Init
    <2>3. naive_count \in [DOMAIN patterns -> Nat] /\ \A x \in DOMAIN patterns : naive_count[x] = 0
      BY DEF Naive!Init
    <2>4. Naive!CountExact
      BY <2>1, <2>2, <2>3, NoneBeforeZero, SameNotions DEF Naive!CountExact, Naive!pattern
    <2> QED
      BY <2>1, <2>2, <2>3, <2>4 DEF NaiveInv
  <1>2. NaiveInv /\ [Naive!Next]_(Naive!vars) => NaiveInv'
    <2> SUFFICES ASSUME NaiveInv, [Naive!Next]_(Naive!vars) PROVE NaiveInv'
      OBVIOUS
    <2>1. CASE Naive!Scan
      BY <2>1, NaiveScanKeeps
    <2>2. CASE Naive!Finish
      BY <2>2, NaiveFinishKeeps
    <2>3. CASE Naive!Output
      BY <2>3, NaiveOutputKeeps
    <2>4. CASE Naive!Done \/ UNCHANGED Naive!vars
      BY <2>4 DEF Naive!Done, Naive!vars, NaiveInv, Naive!CountExact, Naive!pattern
    <2> QED
      BY <2>1, <2>2, <2>3, <2>4 DEF Naive!Next
  <1>3. NaiveInv => Naive!CountExact
    BY DEF NaiveInv
  <1> QED
    BY <1>1, <1>2, <1>3, PTL DEF Naive!Spec
=============================================================================
