--------------------------- MODULE AcAutoProofs -----------------------------
(***************************************************************************)
(* Proof that the automaton of ac_auto falls back to the longest string    *)
(* that can still become a match and counts every occurrence of every      *)
(* pattern, for any lines of patterns and any text.                        *)
(***************************************************************************)
EXTENDS AcAuto, MatchingProofs

-----------------------------------------------------------------------------
(* The inductive invariant                                                 *)

Symbol == Nat \ {0}

NODE == [str : Seq(Symbol), fs : Nat, edgelist : Seq([c : Symbol, p : Nat]),
         matchlist : Seq(Lines)]

Depth(n) == Len(node[n].str)

\* c leads from n to m.
Leads(n, c, m) == node[m].str = Append(node[n].str, c)

\* The nodes are a trie: a string has at most one node, and the edges lead from
\* the root to each node along the characters of its string.
Trie ==
    /\ node \in Seq(NODE) /\ Root \in Node
    /\ node[Root].str = << >> /\ node[Root].fs = Root /\ node[Root].matchlist = << >>
    /\ \A n, m \in Node : node[n].str = node[m].str => n = m
    /\ \A n \in Node : \A e \in ToSet(node[n].edgelist) : e.p \in Node /\ Leads(n, e.c, e.p)
    /\ \A m \in Node \ {Root} : \E n \in Node : \E e \in ToSet(node[n].edgelist) : e.p = m

EndsOf(t) == {s \in Patterns : Suffix(s, t)}

\* Each pattern has a node, which lists it; a node lists only patterns that end
\* its string, and none twice.
Lists ==
    /\ lines \subseteq Lines
    /\ \A s \in lines : \E n \in Node : node[n].str = s
    /\ \A n \in Node :
          /\ node[n].str \in Patterns => node[n].str \in ToSet(node[n].matchlist)
          /\ ToSet(node[n].matchlist) \subseteq EndsOf(node[n].str)
          /\ IsInjective(node[n].matchlist)

\* What is known of the nodes that have a fail state.
Fails ==
    \A n \in Ready : /\ Deepest(node[n].fs, Node \ {n}, node[n].str)
                     /\ ToSet(node[n].matchlist) = EndsOf(node[n].str)

\* While the trie is built no node has a fail state.  current_node is where the
\* part of str that has been read leads.
Building ==
    /\ Ready = {} /\ queue = << >> /\ edges = << >>
    /\ pc = "advance" =>
          /\ str \in Lines /\ i \in 0..Len(str) /\ current_node \in Node
          /\ node[current_node].str = SubSeq(str, 1, i)

\* The breadth-first order: the queue has nodes of two depths at most, those less
\* deep first; while the edges of current_node are dealt with it is the least deep.
Breadth ==
    /\ queue \in Seq(Ready)
    /\ \A x, y \in DOMAIN queue : x <= y => Depth(queue[x]) <= Depth(queue[y])
    /\ \A x, y \in DOMAIN queue : Depth(queue[y]) <= Depth(queue[x]) + 1
    /\ edges # << >> =>
          /\ current_node \in Ready
          /\ \A x \in DOMAIN queue : Depth(queue[x]) \in Depth(current_node)..Depth(current_node) + 1
    /\ edges \in Seq([c : Symbol, p : Node])
    /\ \A e \in ToSet(edges) : Leads(current_node, e.c, e.p)

\* A node is ready when the one it is reached from has been dealt with.
Closed ==
    \A n \in Ready \cup {Root}, m \in Node, c \in Symbol :
        Leads(n, c, m) => \/ m \in Ready
                          \/ n \in ToSet(queue)
                          \/ n = current_node /\ \E e \in ToSet(edges) : e.p = m

\* The walk for c has come to n: its string ends t, and from the nodes among ns
\* passed so far, those whose longer strings end t, c leads nowhere.
Walk(n, c, ns, t) ==
    /\ n \in ns /\ Suffix(node[n].str, t)
    /\ \A y \in ns, m \in Node :
          Suffix(node[y].str, t) /\ Depth(y) > Depth(n) => ~Leads(y, c, m)

\* Before the text is read.
NothingRead == state = Root /\ text = << >> /\ count = [s \in Lines |-> 0]

\* While it is read.
Reading ==
    /\ Ready = Node \ {Root}
    /\ text \in Seq(Symbol) /\ count \in [Lines -> Nat]
    /\ Deepest(state, Node, text)
    /\ CountsExact
    /\ pc = "process" => char \in Symbol /\ Walk(fail_state, char, Node, text)

AutoInv ==
    /\ pc \in {"build", "advance", "set_fs", "fail", "match", "process", "done"}
    /\ Trie /\ Lists /\ Fails
    /\ pc \in {"build", "advance"} => Building /\ NothingRead
    /\ pc \in {"set_fs", "fail"} => Breadth /\ Closed /\ NothingRead
    /\ pc = "fail" =>
          /\ edges # << >> /\ char = Head(edges).c
          /\ Walk(fail_state, char, Node \ {current_node}, node[current_node].str)
    /\ pc \in {"match", "process", "done"} => Reading
-----------------------------------------------------------------------------
(* Ends of strings                                                         *)

\* What it means for s to end t.
LEMMA SuffixIs ==
    ASSUME NEW S, NEW s \in Seq(S), NEW t \in Seq(S)
    PROVE  Suffix(s, t) <=> /\ Len(s) <= Len(t)
                            /\ \A x \in 1..Len(s) : s[x] = t[Len(t) - Len(s) + x]
  <1> DEFINE n == Len(s)
             m == Len(t)
             rs == Reverse(s)
             rt == Reverse(t)
  <1>1. n \in Nat /\ m \in Nat
    BY LenProperties
  <1>2. /\ rs \in Seq(S) /\ Len(rs) = n /\ \A x \in 1..n : rs[x] = s[(n - x) + 1]
        /\ rt \in Seq(S) /\ Len(rt) = m /\ \A x \in 1..m : rt[x] = t[(m - x) + 1]
    <2>1. rs = [x \in 1..n |-> s[(n - x) + 1]] /\ rt = [x \in 1..m |-> t[(m - x) + 1]]
      BY DEF Reverse
    <2>2. \A x \in 1..n : (n - x) + 1 \in 1..n
      BY <1>1
    <2>3. \A x \in 1..m : (m - x) + 1 \in 1..m
      BY <1>1
    <2>4. (\A x \in 1..n : s[(n - x) + 1] \in S) /\ (\A x \in 1..m : t[(m - x) + 1] \in S)
      BY <2>2, <2>3, ElementOfSeq
    <2>5. rs \in [1..n -> S] /\ rt \in [1..m -> S]
      BY <2>1, <2>4
    <2> QED
      BY <1>1, <2>1, <2>5
  <1> HIDE DEF rs, rt
  <1>3. Suffix(s, t) <=> n <= m /\ SubSeq(rs, 1, n) = SubSeq(rt, 1, n)
    BY <1>2 DEF Suffix, IsSuffix, IsPrefix, rs, rt
  <1>4. ASSUME n <= m
        PROVE  SubSeq(rs, 1, n) = SubSeq(rt, 1, n) <=> \A x \in 1..n : rs[x] = rt[x]
    <2>1. SubSeq(rs, 1, n) = [x \in 1..n |-> rs[x]] /\ SubSeq(rt, 1, n) = [x \in 1..n |-> rt[x]]
      BY <1>1, <1>2, <1>4
    <2> QED
      BY <2>1
  <1>5. ASSUME n <= m
        PROVE  (\A x \in 1..n : rs[x] = rt[x]) <=> (\A x \in 1..n : s[x] = t[m - n + x])
    <2>1. ASSUME \A x \in 1..n : rs[x] = rt[x], NEW x \in 1..n
          PROVE  s[x] = t[m - n + x]
      <3>1. /\ (n - x) + 1 \in 1..n /\ (n - x) + 1 \in 1..m
            /\ (n - ((n - x) + 1)) + 1 = x /\ (m - ((n - x) + 1)) + 1 = m - n + x
        BY <1>1, <1>5
      <3> QED
        BY <1>2, <2>1, <3>1
    <2>2. ASSUME \A x \in 1..n : s[x] = t[m - n + x], NEW x \in 1..n
          PROVE  rs[x] = rt[x]
      <3>1. /\ x \in 1..m /\ (n - x) + 1 \in 1..n
            /\ m - n + ((n - x) + 1) = (m - x) + 1
        BY <1>1, <1>5
      <3> QED
        BY <1>2, <2>2, <3>1
    <2> QED
      BY <2>1, <2>2
  <1> QED
    BY <1>3, <1>4, <1>5

\* Every string ends itself.
LEMMA SuffixSelf ==
    ASSUME NEW S, NEW s \in Seq(S)
    PROVE  Suffix(s, s)
  <1>1. Len(s) \in Nat /\ \A x \in 1..Len(s) : Len(s) - Len(s) + x = x
    BY LenProperties
  <1> QED
    BY <1>1, SuffixIs

\* What ends an end of a string ends the string.
LEMMA SuffixTrans ==
    ASSUME NEW S, NEW r \in Seq(S), NEW s \in Seq(S), NEW t \in Seq(S),
           Suffix(r, s), Suffix(s, t)
    PROVE  Suffix(r, t)
  <1>1. /\ Len(r) \in Nat /\ Len(s) \in Nat /\ Len(t) \in Nat
        /\ Len(r) <= Len(s) /\ Len(s) <= Len(t)
    BY SuffixIs, LenProperties
  <1>2. \A x \in 1..Len(r) : /\ Len(s) - Len(r) + x \in 1..Len(s)
                             /\ Len(t) - Len(s) + (Len(s) - Len(r) + x) = Len(t) - Len(r) + x
    BY <1>1
  <1>3. \A x \in 1..Len(r) : r[x] = t[Len(t) - Len(r) + x]
    BY <1>2, SuffixIs
  <1> QED
    BY <1>1, <1>3, SuffixIs

\* Of two ends of a string the shorter ends the longer.
LEMMA ShorterSuffix ==
    ASSUME NEW S, NEW r \in Seq(S), NEW s \in Seq(S), NEW t \in Seq(S),
           Suffix(r, t), Suffix(s, t), Len(r) <= Len(s)
    PROVE  Suffix(r, s)
  <1>1. /\ Len(r) \in Nat /\ Len(s) \in Nat /\ Len(t) \in Nat
    BY LenProperties
  <1>2. \A x \in 1..Len(r) : /\ Len(s) - Len(r) + x \in 1..Len(s)
                             /\ Len(t) - Len(s) + (Len(s) - Len(r) + x) = Len(t) - Len(r) + x
    BY <1>1
  <1>3. \A x \in 1..Len(r) : r[x] = s[Len(s) - Len(r) + x]
    BY <1>2, SuffixIs
  <1> QED
    BY <1>3, SuffixIs

\* Two ends of a string that are as long as each other are the same.
LEMMA SameSuffix ==
    ASSUME NEW S, NEW r \in Seq(S), NEW s \in Seq(S),
           Suffix(r, s), Len(s) <= Len(r)
    PROVE  r = s
  <1>1. Len(r) \in Nat /\ Len(s) \in Nat /\ Len(r) = Len(s)
    BY SuffixIs, LenProperties
  <1>2. \A x \in 1..Len(r) : Len(s) - Len(r) + x = x
    BY <1>1
  <1>3. \A x \in 1..Len(r) : r[x] = s[x]
    BY <1>2, SuffixIs
  <1> QED
    BY <1>1, <1>3, SeqEqual

\* The empty string ends every string, and only itself is an end of it.
LEMMA EmptySuffix ==
    ASSUME NEW S, NEW s \in Seq(S)
    PROVE  Suffix(<< >>, s) /\ (Suffix(s, << >>) => s = << >>)
  <1>1. << >> \in Seq(S) /\ Len(<< >>) = 0 /\ Len(s) \in Nat /\ (Len(s) = 0 => s = << >>)
    BY LenProperties, EmptySeq
  <1>2. Suffix(<< >>, s)
    <2>1. 1..Len(<< >>) = {} /\ Len(<< >>) <= Len(s)
      BY <1>1
    <2> QED
      BY <1>1, <2>1, SuffixIs
  <1>3. Suffix(s, << >>) => Len(s) <= Len(<< >>)
    BY <1>1, SuffixIs
  <1> QED
    BY <1>1, <1>2, <1>3

\* An end grows by the character that the string grows by.
LEMMA SuffixAppend ==
    ASSUME NEW S, NEW s \in Seq(S), NEW t \in Seq(S), NEW c \in S, NEW d \in S
    PROVE  Suffix(Append(s, c), Append(t, d)) <=> c = d /\ Suffix(s, t)
  <1> DEFINE sc == Append(s, c)
             td == Append(t, d)
             n == Len(s)
             m == Len(t)
  <1>1. /\ n \in Nat /\ m \in Nat /\ sc \in Seq(S) /\ td \in Seq(S)
        /\ Len(sc) = n + 1 /\ Len(td) = m + 1 /\ sc[n + 1] = c /\ td[m + 1] = d
        /\ \A x \in 1..n : sc[x] = s[x]
        /\ \A x \in 1..m : td[x] = t[x]
    BY LenProperties
  <1> HIDE DEF sc, td
  <1>2. Suffix(sc, td) <=> n + 1 <= m + 1 /\ \A x \in 1..n + 1 : sc[x] = td[(m + 1) - (n + 1) + x]
    <2>1. Suffix(sc, td) <=> /\ Len(sc) <= Len(td)
                             /\ \A x \in 1..Len(sc) : sc[x] = td[Len(td) - Len(sc) + x]
      BY <1>1, SuffixIs
    <2> QED
      BY <1>1, <2>1
  <1>3. Suffix(s, t) <=> n <= m /\ \A x \in 1..n : s[x] = t[m - n + x]
    BY SuffixIs
  <1>4. ASSUME n <= m
        PROVE  (\A x \in 1..n + 1 : sc[x] = td[(m + 1) - (n + 1) + x])
                  <=> c = d /\ \A x \in 1..n : s[x] = t[m - n + x]
    <2>1. \A x \in 1..n : m - n + x \in 1..m /\ (m + 1) - (n + 1) + x = m - n + x
      BY <1>1, <1>4
    <2>2. (m + 1) - (n + 1) + (n + 1) = m + 1 /\ n + 1 \in 1..n + 1
          /\ \A x \in 1..n + 1 : x = n + 1 \/ x \in 1..n
      BY <1>1
    <2>3. \A x \in 1..n : x \in 1..n + 1
      BY <1>1
    <2>4. \A x \in 1..n : sc[x] = td[(m + 1) - (n + 1) + x] <=> s[x] = t[m - n + x]
      BY <1>1, <2>1
    <2>5. sc[n + 1] = td[(m + 1) - (n + 1) + (n + 1)] <=> c = d
      BY <1>1, <2>2
    <2> QED
      BY <2>2, <2>3, <2>4, <2>5
  <1>5. n + 1 <= m + 1 <=> n <= m
    BY <1>1
  <1> QED
    BY <1>2, <1>3, <1>4, <1>5 DEF sc, td

-----------------------------------------------------------------------------
(* The trie                                                                *)

\* The types of a node, and of what its edges are.
LEMMA Nodes ==
    ASSUME Trie
    PROVE  /\ Node = 1..Len(node) /\ Len(node) \in Nat /\ Root \in Node /\ Null \notin Node
           /\ \A n \in Node : /\ node[n] \in NODE /\ node[n].str \in Seq(Symbol)
                              /\ Depth(n) \in Nat
                              /\ node[n].edgelist \in Seq([c : Symbol, p : Nat])
                              /\ node[n].matchlist \in Seq(Lines)
                              /\ \A e \in ToSet(node[n].edgelist) : e.c \in Symbol /\ e.p \in Nat
           /\ Depth(Root) = 0
           /\ \A n \in Node \ {Root} : Depth(n) > 0
  <1>1. Node = 1..Len(node) /\ Len(node) \in Nat
    BY LenProperties DEF Trie, Node
  <1>2. \A n \in Node : /\ node[n] \in NODE /\ node[n].str \in Seq(Symbol)
                        /\ node[n].edgelist \in Seq([c : Symbol, p : Nat])
                        /\ node[n].matchlist \in Seq(Lines)
    <2>1. \A n \in Node : node[n] \in NODE
      BY <1>1, ElementOfSeq DEF Trie
    <2> QED
      BY <2>1 DEF NODE
  <1>6. \A n \in Node : \A e \in ToSet(node[n].edgelist) : e.c \in Symbol /\ e.p \in Nat
    <2> SUFFICES ASSUME NEW n \in Node, NEW e \in ToSet(node[n].edgelist)
                 PROVE  e.c \in Symbol /\ e.p \in Nat
      OBVIOUS
    <2>1. PICK x \in DOMAIN node[n].edgelist : e = node[n].edgelist[x]
      BY DEF ToSet
    <2>2. e \in [c : Symbol, p : Nat]
      BY <1>2, <2>1, LenProperties, ElementOfSeq
    <2> QED
      BY <2>2
  <1>7. Root \in Node /\ Null \notin Node
    <2>1. Root \in Node
      BY DEF Trie
    <2> QED
      BY <1>1, <2>1 DEF Null
  <1>3. Depth(Root) = 0
    BY EmptySeq DEF Trie, Depth
  <1>4. \A n \in Node : Depth(n) \in Nat /\ (Depth(n) = 0 => node[n].str = << >>)
    BY <1>2, LenProperties, EmptySeq DEF Depth
  <1>5. \A n \in Node : node[n].str = << >> => n = Root
    BY DEF Trie
  <1> QED
    <2>1. \A n \in Node \ {Root} : Depth(n) > 0
      BY <1>4, <1>5
    <2> QED
      BY <1>1, <1>2, <1>3, <1>4, <1>6, <1>7, <2>1

\* A node has one parent, and is the child of it by one character.
LEMMA Parents ==
    ASSUME Trie
    PROVE  /\ \A m \in Node \ {Root} : \E n \in Node, c \in Symbol :
                 Leads(n, c, m) /\ \E e \in ToSet(node[n].edgelist) : e.c = c /\ e.p = m
           /\ \A n, y, m \in Node, c, d \in Symbol :
                 Leads(n, c, m) /\ Leads(y, d, m) => n = y /\ c = d
           /\ \A n, m, z \in Node, c \in Symbol : Leads(n, c, m) /\ Leads(n, c, z) => m = z
           /\ \A n, m \in Node, c \in Symbol :
                 Leads(n, c, m) => m # Root /\ Depth(m) = Depth(n) + 1
  <1>1. \A m \in Node \ {Root} : \E n \in Node, c \in Symbol :
           Leads(n, c, m) /\ \E e \in ToSet(node[n].edgelist) : e.c = c /\ e.p = m
    <2> SUFFICES ASSUME NEW m \in Node \ {Root}
                 PROVE  \E n \in Node, c \in Symbol :
                           Leads(n, c, m) /\ \E e \in ToSet(node[n].edgelist) : e.c = c /\ e.p = m
      OBVIOUS
    <2>1. PICK n \in Node : \E e \in ToSet(node[n].edgelist) : e.p = m
      BY DEF Trie
    <2>2. PICK e \in ToSet(node[n].edgelist) : e.p = m
      BY <2>1
    <2>3. Leads(n, e.c, m)
      BY <2>2 DEF Trie
    <2>4. e.c \in Symbol
      BY Nodes
    <2> QED
      BY <2>2, <2>3, <2>4
  <1>2. \A n, y, m \in Node, c, d \in Symbol :
           Leads(n, c, m) /\ Leads(y, d, m) => n = y /\ c = d
    <2> SUFFICES ASSUME NEW n \in Node, NEW y \in Node, NEW m \in Node,
                        NEW c \in Symbol, NEW d \in Symbol, Leads(n, c, m), Leads(y, d, m)
                 PROVE  n = y /\ c = d
      OBVIOUS
    <2> DEFINE s == node[n].str
               t == node[y].str
    <2>1. s \in Seq(Symbol) /\ t \in Seq(Symbol)
      BY Nodes
    <2>2. Append(s, c) = Append(t, d)
      BY DEF Leads
    <2> HIDE DEF s, t
    <2>3. s = t /\ c = d
      BY ONLY <2>1, <2>2, AppendInjective
    <2> QED
      BY <2>3 DEF Trie, s, t
  <1>3. \A n, m, z \in Node, c \in Symbol : Leads(n, c, m) /\ Leads(n, c, z) => m = z
    <2> SUFFICES ASSUME NEW n \in Node, NEW m \in Node, NEW z \in Node, NEW c \in Symbol,
                        Leads(n, c, m), Leads(n, c, z)
                 PROVE  m = z
      OBVIOUS
    <2>1. node[m].str = node[z].str
      BY DEF Leads
    <2> QED
      BY <2>1 DEF Trie
  <1>4. \A n, m \in Node, c \in Symbol : Leads(n, c, m) => m # Root /\ Depth(m) = Depth(n) + 1
    BY Nodes, Appended DEF Leads, Trie, Depth
  <1> QED
    BY <1>1, <1>2, <1>3, <1>4

\* ac_goto() finds the child, if there is one.
LEMMA GotoIs ==
    ASSUME Trie, NEW n \in Node, NEW c \in Symbol
    PROVE  /\ \A m \in Node : Leads(n, c, m) => ac_goto(n, c) = m
           /\ (\A m \in Node : ~Leads(n, c, m)) => ac_goto(n, c) = IF n = Root THEN Root ELSE Null
  <1> DEFINE list == node[n].edgelist
             hits == {x \in DOMAIN list : list[x].c = c}
  <1>1. list \in Seq([c : Symbol, p : Nat]) /\ hits \in SUBSET Nat
    <2>1. list \in Seq([c : Symbol, p : Nat])
      BY Nodes
    <2> QED
      BY <2>1, LenProperties
  <1>2. \A x \in hits : list[x].p \in Node /\ Leads(n, c, list[x].p)
    BY DEF Trie, ToSet
  <1>3. CASE hits # {}
    <2>1. \E x \in hits : \A y \in hits : x <= y
      BY <1>1, <1>3, LeastNumber
    <2>2. Min(hits) \in hits
      BY <2>1 DEF Min
    <2>3. ac_goto(n, c) = list[Min(hits)].p
      BY <1>3 DEF ac_goto
    <2> HIDE DEF hits, list
    <2>4. ac_goto(n, c) \in Node /\ Leads(n, c, ac_goto(n, c))
      BY <1>2, <2>2, <2>3
    <2> QED
      BY <2>4, Parents
  <1>4. CASE hits = {}
    <2>1. ac_goto(n, c) = IF n = Root THEN Root ELSE Null
      BY <1>4 DEF ac_goto
    <2>2. ASSUME NEW m \in Node, Leads(n, c, m) PROVE FALSE
      <3>1. m # Root
        BY <2>2, Parents
      <3>2. PICK y \in Node, d \in Symbol :
               Leads(y, d, m) /\ \E e \in ToSet(node[y].edgelist) : e.c = d /\ e.p = m
        BY <3>1, Parents
      <3>3. y = n /\ d = c
        BY <2>2, <3>2, Parents
      <3>4. PICK e \in ToSet(list) : e.c = c
        BY <3>2, <3>3
      <3> QED
        BY <1>4, <3>4 DEF ToSet
    <2> QED
      BY <2>1, <2>2
  <1> QED
    BY <1>3, <1>4

\* What its answers mean.
LEMMA GotoNull ==
    ASSUME Trie, NEW n \in Node, NEW c \in Symbol, ac_goto(n, c) = Null
    PROVE  n # Root /\ \A m \in Node : ~Leads(n, c, m)
  BY GotoIs, Nodes DEF Null, Root

LEMMA GotoNode ==
    ASSUME Trie, NEW n \in Node, NEW c \in Symbol, ac_goto(n, c) # Null
    PROVE  /\ ac_goto(n, c) \in Node
           /\ \/ Leads(n, c, ac_goto(n, c))
              \/ n = Root /\ ac_goto(n, c) = Root /\ \A m \in Node : ~Leads(n, c, m)
  <1>1. CASE \E m \in Node : Leads(n, c, m)
    BY <1>1, GotoIs
  <1>2. CASE \A m \in Node : ~Leads(n, c, m)
    BY <1>2, GotoIs, Nodes
  <1> QED
    BY <1>1, <1>2

-----------------------------------------------------------------------------
(* The walk over the fail states                                           *)

\* A proper end of a node's string is shorter.
LEMMA ShorterEnd ==
    ASSUME Trie, NEW n \in Node, NEW m \in Node, n # m, Suffix(node[m].str, node[n].str)
    PROVE  Depth(m) < Depth(n)
  <1>1. node[n].str # node[m].str
    BY DEF Trie
  <1> QED
    BY <1>1, Nodes, SameSuffix DEF Depth

\* It goes on at the fail state: no end in between has a child for c.
LEMMA WalkOn ==
    ASSUME Trie, NEW ns \in SUBSET Node, NEW t \in Seq(Symbol), NEW c \in Symbol,
           NEW n \in ns, Walk(n, c, ns, t), ac_goto(n, c) = Null,
           NEW f \in ns, Deepest(f, Node \ {n}, node[n].str)
    PROVE  Walk(f, c, ns, t)
  <1>1. /\ f \in Node /\ n \in Node
        /\ node[f].str \in Seq(Symbol) /\ node[n].str \in Seq(Symbol)
        /\ Suffix(node[n].str, t) /\ Suffix(node[f].str, node[n].str)
    BY Nodes DEF Walk, Deepest
  <1>2. Suffix(node[f].str, t)
    BY <1>1, SuffixTrans
  <1>3. ASSUME NEW y \in ns, NEW m \in Node,
               Suffix(node[y].str, t), Depth(y) > Depth(f), Leads(y, c, m)
        PROVE  FALSE
    <2>1. y \in Node /\ node[y].str \in Seq(Symbol) /\ Depth(y) \in Nat /\ Depth(n) \in Nat
          /\ Depth(f) \in Nat
      BY <1>1, Nodes
    <2>2. ~(Depth(y) > Depth(n))
      BY <1>3 DEF Walk
    <2>3. y # n
      BY <1>3, GotoNull
    <2>4. Suffix(node[y].str, node[n].str)
      BY <1>1, <1>3, <2>1, <2>2, ShorterSuffix DEF Depth
    <2>5. Depth(y) <= Depth(f)
      BY <2>1, <2>3, <2>4 DEF Deepest, Depth
    <2> QED
      BY <1>3, <2>1, <2>5
  <1> QED
    BY <1>2, <1>3 DEF Walk

\* It ends: the node that c leads to is the deepest that can be reached.
LEMMA WalkEnds ==
    ASSUME Trie, NEW ns \in SUBSET Node, NEW t \in Seq(Symbol), NEW c \in Symbol,
           NEW n \in ns, Walk(n, c, ns, t), ac_goto(n, c) # Null
    PROVE  /\ ac_goto(n, c) \in Node
           /\ Suffix(node[ac_goto(n, c)].str, Append(t, c))
           /\ \A z \in Node, y \in ns, d \in Symbol :
                 Leads(y, d, z) /\ Suffix(node[z].str, Append(t, c))
                    => d = c /\ Suffix(node[y].str, t) /\ Depth(z) <= Depth(ac_goto(n, c))
  <1> DEFINE g == ac_goto(n, c)
  <1>1. /\ n \in Node /\ node[n].str \in Seq(Symbol) /\ Suffix(node[n].str, t)
        /\ t \in Seq(Symbol) /\ Append(t, c) \in Seq(Symbol)
    BY Nodes DEF Walk
  <1>2. /\ g \in Node
        /\ \/ Leads(n, c, g)
           \/ n = Root /\ g = Root /\ \A m \in Node : ~Leads(n, c, m)
    BY <1>1, GotoNode
  <1> HIDE DEF g
  <1>3. Suffix(node[g].str, Append(t, c))
    <2>1. CASE Leads(n, c, g)
      BY <1>1, <2>1, SuffixAppend DEF Leads
    <2>2. CASE g = Root
      BY <1>1, <2>2, EmptySuffix DEF Trie
    <2> QED
      BY <1>2, <2>1, <2>2
  <1>4. ASSUME NEW z \in Node, NEW y \in ns, NEW d \in Symbol,
               Leads(y, d, z), Suffix(node[z].str, Append(t, c))
        PROVE  d = c /\ Suffix(node[y].str, t) /\ Depth(z) <= Depth(g)
    <2>1. y \in Node /\ node[y].str \in Seq(Symbol) /\ Depth(y) \in Nat /\ Depth(n) \in Nat
          /\ Depth(g) \in Nat /\ Depth(z) = Depth(y) + 1
      BY <1>1, <1>2, <1>4, Nodes, Parents
    <2>2. d = c /\ Suffix(node[y].str, t)
      BY <1>1, <1>4, <2>1, SuffixAppend DEF Leads
    <2>3. Depth(y) <= Depth(n)
      BY <1>4, <2>1, <2>2 DEF Walk
    <2>4. CASE Leads(n, c, g)
      <3>1. Depth(g) = Depth(n) + 1
        BY <1>1, <1>2, <2>4, Parents
      <3> QED
        BY <2>1, <2>2, <2>3, <3>1
    <2>5. CASE n = Root /\ \A m \in Node : ~Leads(n, c, m)
      <3>1. Depth(y) = 0
        BY <2>1, <2>3, <2>5, Nodes
      <3>2. y = Root
        BY <2>1, <3>1, Nodes
      <3> QED
        BY <1>4, <2>2, <2>5, <3>2
    <2> QED
      BY <1>2, <2>4, <2>5
  <1> QED
    BY <1>2, <1>3, <1>4 DEF g

\* In set_fs(): it is the deepest but for the child itself.
LEMMA WalkFindsFail ==
    ASSUME Trie, NEW cur \in Node, NEW c \in Symbol, NEW m \in Node, Leads(cur, c, m),
           NEW n \in Node, Walk(n, c, Node \ {cur}, node[cur].str), ac_goto(n, c) # Null
    PROVE  Deepest(ac_goto(n, c), Node \ {m}, node[m].str)
  <1> DEFINE g == ac_goto(n, c)
             ns == Node \ {cur}
             t == node[cur].str
  <1>1. /\ n \in ns /\ t \in Seq(Symbol) /\ node[m].str = Append(t, c) /\ m # Root
    <2>1. n \in ns /\ node[m].str = Append(t, c)
      BY DEF Walk, Leads
    <2> QED
      BY <2>1, Nodes, Parents
  <1>2. /\ g \in Node /\ Suffix(node[g].str, Append(t, c))
        /\ \A z \in Node, y \in ns, d \in Symbol :
              Leads(y, d, z) /\ Suffix(node[z].str, Append(t, c))
                 => d = c /\ Suffix(node[y].str, t) /\ Depth(z) <= Depth(g)
    BY <1>1, WalkEnds
  <1>3. g # m
    <2>1. Leads(n, c, g) \/ g = Root
      BY GotoNode
    <2> QED
      BY <1>1, <2>1, Parents
  <1>4. ASSUME NEW z \in Node \ {m}, Suffix(node[z].str, Append(t, c))
        PROVE  Depth(z) <= Depth(g)
    <2>1. CASE z = Root
      BY <1>2, <2>1, Nodes
    <2>2. CASE z # Root
      <3>1. PICK y \in Node, d \in Symbol : Leads(y, d, z)
        BY <2>2, Parents
      <3>2. node[y].str \in Seq(Symbol) /\ node[z].str = Append(node[y].str, d)
        BY <3>1, Nodes DEF Leads
      <3>5. d = c
        BY <1>1, <1>4, <3>2, SuffixAppend
      <3>3. y # cur
        BY <1>4, <3>1, <3>5, Parents
      <3> QED
        BY <1>2, <1>4, <3>1, <3>3
    <2> QED
      BY <2>1, <2>2
  <1> QED
    BY <1>1, <1>2, <1>3, <1>4 DEF Deepest, Depth

\* In processing(): it is the deepest of all.
LEMMA WalkFindsState ==
    ASSUME Trie, NEW t \in Seq(Symbol), NEW c \in Symbol,
           NEW n \in Node, Walk(n, c, Node, t), ac_goto(n, c) # Null
    PROVE  Deepest(ac_goto(n, c), Node, Append(t, c))
  <1> DEFINE g == ac_goto(n, c)
  <1>1. /\ g \in Node /\ Suffix(node[g].str, Append(t, c))
        /\ \A z \in Node, y \in Node, d \in Symbol :
              Leads(y, d, z) /\ Suffix(node[z].str, Append(t, c))
                 => d = c /\ Suffix(node[y].str, t) /\ Depth(z) <= Depth(g)
    BY WalkEnds
  <1>2. ASSUME NEW z \in Node, Suffix(node[z].str, Append(t, c))
        PROVE  Depth(z) <= Depth(g)
    <2>1. CASE z = Root
      BY <1>1, <2>1, Nodes
    <2>2. CASE z # Root
      BY <1>1, <1>2, <2>2, Parents
    <2> QED
      BY <2>1, <2>2
  <1> QED
    BY <1>1, <1>2 DEF Deepest, Depth

-----------------------------------------------------------------------------
(* The lists of strings                                                    *)

\* put() adds what a list lacks, and nothing twice.
LEMMA PutAdds ==
    ASSUME NEW T, NEW list \in Seq(T), NEW s \in T, IsInjective(list)
    PROVE  /\ Put(list, s) \in Seq(T)
           /\ IsInjective(Put(list, s))
           /\ ToSet(Put(list, s)) = ToSet(list) \cup {s}
  <1> DEFINE new == << s >> \o list
  <1>1. DOMAIN list = 1..Len(list)
    BY LenProperties
  <1>2. CASE Contains(list, s)
    <2>1. s \in ToSet(list) /\ Put(list, s) = list
      BY <1>1, <1>2 DEF Contains, ToSet, Put, no_such_string
    <2> QED
      BY <2>1
  <1>3. CASE ~Contains(list, s)
    <2>1. Put(list, s) = new
      BY <1>3 DEF Put, no_such_string
    <2>2. new \in Seq(T) /\ ToSet(new) = ToSet(list) \cup {s} /\ IsInjective(new)
      BY <1>3, ConsAdds, ConsInjective
    <2> QED
      BY <2>1, <2>2
  <1> QED
    BY <1>2, <1>3

\* What merge_matchlist() has made of target after each of the first n turns.
IsMerged(f, target, source, n) ==
    f = [k \in 0..n |-> IF k = 0 THEN target ELSE Put(f[k - 1], source[k])]

LEMMA MergedExists ==
    ASSUME NEW target, NEW source, NEW n \in Nat
    PROVE  \E f : IsMerged(f, target, source, n)
  <1> DEFINE T == {m \in Nat : \E f : IsMerged(f, target, source, m)}
  <1>1. 0 \in T
    <2> DEFINE f == [k \in 0..0 |-> target]
    <2>1. f = [k \in 0..0 |-> IF k = 0 THEN target ELSE Put(f[k - 1], source[k])]
      OBVIOUS
    <2>2. IsMerged(f, target, source, 0)
      BY <2>1 DEF IsMerged
    <2> QED
      BY <2>2
  <1>2. ASSUME NEW m \in T PROVE m + 1 \in T
    <2>1. m \in Nat
      OBVIOUS
    <2>2. PICK f : IsMerged(f, target, source, m)
      OBVIOUS
    <2> DEFINE g == [k \in 0..m + 1 |-> IF k = m + 1 THEN Put(f[m], source[k]) ELSE f[k]]
    <2>3. \A k \in 0..m : f[k] = IF k = 0 THEN target ELSE Put(f[k - 1], source[k])
      BY <2>2 DEF IsMerged
    <2>4. /\ m + 1 \in 0..m + 1 /\ m + 1 # 0 /\ (m + 1) - 1 = m /\ m \in 0..m
          /\ \A k \in 0..m : k \in 0..m + 1 /\ k # m + 1 /\ (k # 0 => k - 1 \in 0..m)
          /\ \A k \in 0..m + 1 : k = m + 1 \/ k \in 0..m
      BY <2>1
    <2>5. g[m + 1] = Put(f[m], source[m + 1]) /\ \A k \in 0..m : g[k] = f[k]
      BY <2>4
    <2>6. DOMAIN g = 0..m + 1 /\ g = [k \in DOMAIN g |-> g[k]]
      OBVIOUS
    <2> HIDE DEF g
    <2>7. \A k \in 0..m + 1 : g[k] = IF k = 0 THEN target ELSE Put(g[k - 1], source[k])
      <3> SUFFICES ASSUME NEW k \in 0..m + 1
                   PROVE  g[k] = IF k = 0 THEN target ELSE Put(g[k - 1], source[k])
        OBVIOUS
      <3>1. CASE k = m + 1
        BY <2>4, <2>5, <3>1
      <3>2. CASE k \in 0..m
        BY <2>3, <2>4, <2>5, <3>2
      <3> QED
        BY <2>4, <3>1, <3>2
    <2>8. IsMerged(g, target, source, m + 1)
      BY <2>6, <2>7 DEF IsMerged
    <2> QED
      BY <2>1, <2>8
  <1>3. T \in SUBSET Nat
    OBVIOUS
  <1>4. n \in T
    <2> HIDE DEF T
    <2> QED
      BY <1>1, <1>2, <1>3, SetInduction
  <1> QED
    BY <1>4

\* merge_matchlist() adds what target lacks, and nothing twice.
LEMMA MergeAdds ==
    ASSUME NEW T, NEW target \in Seq(T), NEW source \in Seq(T), IsInjective(target)
    PROVE  /\ merge_matchlist(target, source) \in Seq(T)
           /\ IsInjective(merge_matchlist(target, source))
           /\ ToSet(merge_matchlist(target, source)) = ToSet(target) \cup ToSet(source)
  <1> DEFINE n == Len(source)
             f == CHOOSE g : IsMerged(g, target, source, n)
             Right(k) == /\ f[k] \in Seq(T) /\ IsInjective(f[k])
                         /\ ToSet(f[k]) = ToSet(target) \cup {source[x] : x \in 1..k}
             D == {k \in Nat : k <= n => Right(k)}
  <1>1. n \in Nat /\ ToSet(source) = {source[x] : x \in 1..n}
    BY LenProperties DEF ToSet
  <1>2. IsMerged(f, target, source, n)
    BY <1>1, MergedExists
  <1>3. merge_matchlist(target, source) = f[n]
    BY DEF merge_matchlist, IsMerged
  <1> HIDE DEF f
  <1>4. \A k \in 0..n : f[k] = IF k = 0 THEN target ELSE Put(f[k - 1], source[k])
    BY <1>2 DEF IsMerged
  <1>5. 0 \in D
    <2>1. {source[x] : x \in 1..0} = {} /\ 0 \in 0..n
      BY <1>1
    <2> QED
      BY <1>1, <1>4, <2>1
  <1>6. ASSUME NEW k \in D PROVE k + 1 \in D
    <2> SUFFICES ASSUME k + 1 <= n PROVE Right(k + 1)
      <3> HIDE DEF Right
      <3> QED
        BY <1>6
    <2>1. k \in Nat /\ k <= n /\ k + 1 \in 0..n /\ k + 1 # 0 /\ (k + 1) - 1 = k /\ k + 1 \in 1..n
      BY <1>1
    <2>2. f[k] \in Seq(T) /\ IsInjective(f[k])
          /\ ToSet(f[k]) = ToSet(target) \cup {source[x] : x \in 1..k}
      BY <2>1
    <2>3. f[k + 1] = Put(f[k], source[k + 1])
      BY <1>4, <2>1
    <2>4. source[k + 1] \in T
      BY <2>1, ElementOfSeq
    <2>5. {source[x] : x \in 1..k + 1} = {source[x] : x \in 1..k} \cup {source[k + 1]}
      <3>1. 1..k + 1 = (1..k) \cup {k + 1}
        BY <2>1
      <3> QED
        BY <3>1
    <2>6. /\ f[k + 1] \in Seq(T) /\ IsInjective(f[k + 1])
          /\ ToSet(f[k + 1]) = ToSet(f[k]) \cup {source[k + 1]}
      BY <2>2, <2>3, <2>4, PutAdds
    <2> QED
      BY <2>2, <2>5, <2>6
  <1>7. D \in SUBSET Nat
    OBVIOUS
  <1>8. n \in D
    <2> HIDE DEF D
    <2> QED
      BY <1>1, <1>5, <1>6, <1>7, SetInduction
  <1> QED
    BY <1>1, <1>3, <1>8

-----------------------------------------------------------------------------
(* The breadth-first order                                                 *)

\* When the queue, and current_node while its edges are dealt with, are at least
\* at the depth b, all nodes down to there have their fail states.
LEMMA ReadyDownTo ==
    ASSUME Trie, Closed, Breadth, NEW b \in Nat,
           \A x \in DOMAIN queue : Depth(queue[x]) >= b,
           edges # << >> => Depth(current_node) >= b
    PROVE  \A m \in Node \ {Root} : Depth(m) <= b => m \in Ready
  <1> DEFINE T == {Depth(m) : m \in {z \in Node \ {Root} : Depth(z) <= b /\ z \notin Ready}}
  <1>1. T \in SUBSET Nat
    BY Nodes
  <1>2. ASSUME T # {} PROVE FALSE
    <2>1. PICK d \in T : \A y \in T : d <= y
      <3> HIDE DEF T
      <3> QED
        BY <1>1, <1>2, LeastNumber
    <2>2. PICK m \in Node \ {Root} : Depth(m) = d /\ d <= b /\ m \notin Ready
      BY <2>1
    <2>3. PICK n \in Node, c \in Symbol : Leads(n, c, m)
      BY <2>2, Parents
    <2>4. Depth(n) \in Nat /\ Depth(m) = Depth(n) + 1
      BY <2>2, <2>3, Nodes, Parents
    <2>5. n \in Ready \cup {Root}
      <3> SUFFICES ASSUME n # Root, n \notin Ready PROVE FALSE
        OBVIOUS
      <3>1. Depth(n) <= b
        BY <2>2, <2>4
      <3>2. Depth(n) \in T
        BY <3>1
      <3>3. d <= Depth(n)
        BY <2>1, <3>2
      <3> QED
        BY <2>2, <2>4, <3>3
    <2>6. ~(Depth(n) >= b)
      BY <1>1, <2>2, <2>4
    <2>7. CASE n \in ToSet(queue)
      BY <2>6, <2>7 DEF ToSet
    <2>8. CASE n = current_node /\ \E e \in ToSet(edges) : e.p = m
      <3>1. edges # << >>
        BY <2>8 DEF ToSet
      <3> QED
        BY <2>6, <2>8, <3>1
    <2> QED
      BY <2>2, <2>3, <2>5, <2>7, <2>8 DEF Closed
  <1> QED
    BY <1>2

-----------------------------------------------------------------------------
(* What a step leaves as it is                                             *)

\* A step that changes no string and no edge.
LEMMA SameStrings ==
    ASSUME Trie, node' \in Seq(NODE), Len(node') = Len(node),
           \A n \in Node : node'[n].str = node[n].str /\ node'[n].edgelist = node[n].edgelist,
           node'[Root].fs = Root, node'[Root].matchlist = << >>
    PROVE  /\ Trie' /\ Node' = Node
           /\ \A n \in Node : Depth(n)' = Depth(n)
           /\ \A n, m \in Node : \A c : Leads(n, c, m)' <=> Leads(n, c, m)
           /\ \A ns \in SUBSET Node : \A n, t : Deepest(n, ns, t)' <=> Deepest(n, ns, t)
  <1>1. Node' = Node
    <2>1. node \in Seq(NODE)
      BY DEF Trie
    <2> QED
      BY <2>1, LenProperties DEF Node
  <1>2. \A n \in Node : Depth(n)' = Depth(n)
    BY DEF Depth
  <1>3. \A n, m \in Node : \A c : Leads(n, c, m)' <=> Leads(n, c, m)
    BY DEF Leads
  <1>4. Trie'
    <2>1. /\ Root \in Node /\ node[Root].str = << >>
          /\ \A n, m \in Node : node[n].str = node[m].str => n = m
      BY DEF Trie
    <2>2. \A n \in Node : \A e \in ToSet(node[n].edgelist) : e.p \in Node /\ Leads(n, e.c, e.p)
      BY DEF Trie
    <2>3. \A m \in Node \ {Root} : \E n \in Node : \E e \in ToSet(node[n].edgelist) : e.p = m
      BY DEF Trie
    <2>4. (Root \in Node /\ node[Root].str = << >>)'
      BY <1>1, <2>1 DEF Root
    <2>5. (\A n, m \in Node : node[n].str = node[m].str => n = m)'
      BY <1>1, <2>1
    <2>6. (\A n \in Node : \A e \in ToSet(node[n].edgelist) : e.p \in Node /\ Leads(n, e.c, e.p))'
      BY <1>1, <1>3, <2>2
    <2>7. (\A m \in Node \ {Root} : \E n \in Node : \E e \in ToSet(node[n].edgelist) : e.p = m)'
      BY <1>1, <2>3 DEF Root
    <2> QED
      BY <2>4, <2>5, <2>6, <2>7 DEF Trie, Root
  <1>5. \A ns \in SUBSET Node : \A n, t : Deepest(n, ns, t)' <=> Deepest(n, ns, t)
    BY DEF Deepest
  <1> QED
    BY <1>1, <1>2, <1>3, <1>4, <1>5

\* One that changes no line either, nor what a node lists.
LEMMA SameLists ==
    ASSUME Lists, lines' = lines, Node' = Node,
           \A n \in Node : node'[n].str = node[n].str /\ node'[n].matchlist = node[n].matchlist
    PROVE  Lists' /\ Patterns' = Patterns /\ \A t : EndsOf(t)' = EndsOf(t)
  <1>1. Patterns' = Patterns
    BY DEF Patterns
  <1>2. \A t : {s \in Patterns' : Suffix(s, t)} = EndsOf(t)
    BY <1>1 DEF EndsOf
  <1>3. \A n \in Node :
           /\ node'[n].str \in Patterns => node'[n].str \in ToSet(node'[n].matchlist)
           /\ ToSet(node'[n].matchlist) \subseteq EndsOf(node'[n].str)
           /\ IsInjective(node'[n].matchlist)
    BY DEF Lists
  <1>4. lines' \subseteq Lines /\ \A s \in lines' : \E n \in Node' : node'[n].str = s
    BY DEF Lists
  <1>5. Lists'
    BY <1>1, <1>2, <1>3, <1>4 DEF Lists, EndsOf
  <1> QED
    BY <1>1, <1>2, <1>5 DEF EndsOf

\* A step that changes no node and no line.
LEMMA SameNodes ==
    ASSUME UNCHANGED <<node, lines>>
    PROVE  /\ Trie' = Trie /\ Lists' = Lists /\ Fails' = Fails /\ Ready' = Ready
           /\ Node' = Node /\ Patterns' = Patterns
           /\ \A n : Depth(n)' = Depth(n)
           /\ \A n, c, m : Leads(n, c, m)' = Leads(n, c, m)
           /\ \A n, c, ns, t : Walk(n, c, ns, t)' = Walk(n, c, ns, t)
           /\ \A n, ns, t : Deepest(n, ns, t)' = Deepest(n, ns, t)
  BY DEF Trie, Lists, Fails, Ready, Node, Patterns, Depth, Leads, Walk, Deepest, EndsOf

\* One that does not change the queue either, nor the edges to be dealt with.
LEMMA SameOrder ==
    ASSUME UNCHANGED <<node, queue, edges, current_node>>
    PROVE  Breadth' = Breadth /\ Closed' = Closed
  BY DEF Breadth, Closed, Ready, Node, Depth, Leads

-----------------------------------------------------------------------------
(* The trie is built                                                       *)

LEMMA InitAutoInv == Init => AutoInv
  <1> SUFFICES ASSUME Init PROVE AutoInv
    OBVIOUS
  <1> DEFINE root == [str |-> << >>, fs |-> Root, edgelist |-> << >>, matchlist |-> << >>]
  <1>1. node = << root >> /\ lines = {}
    BY DEF Init, NewNode
  <1>2. /\ Len(node) = 1 /\ Node = {Root} /\ node[Root] = root /\ node \in Seq(NODE)
    <2>1. root \in NODE
      BY DEF NODE, Root
    <2> HIDE DEF root
    <2> QED
      BY <1>1, <2>1 DEF Node, Root
  <1>3. ToSet(<< >>) = {} /\ IsInjective(<< >>)
    BY DEF ToSet, IsInjective
  <1>4. Trie
    BY <1>2, <1>3 DEF Trie
  <1>5. Patterns = {} /\ Lists
    BY <1>1, <1>2, <1>3 DEF Lists, Patterns, EndsOf
  <1>6. Ready = {} /\ Fails
    BY <1>2 DEF Ready, Fails
  <1> QED
    BY <1>4, <1>5, <1>6 DEF Init, AutoInv, Building, NothingRead

\* A line begins at the root.
LEMMA ReadLineKeeps ==
    ASSUME AutoInv, NEW s \in Lines, ReadLine(s)
    PROVE  AutoInv'
  <1>1. /\ pc = "build" /\ pc' = "advance" /\ str' = s /\ current_node' = Root /\ i' = 0
        /\ UNCHANGED <<node, lines>>
        /\ UNCHANGED <<queue, edges, state, text, count>>
    BY DEF ReadLine, set_fs_vars, match_vars
  <1>2. Trie /\ Lists /\ Fails /\ Building /\ NothingRead
    BY <1>1 DEF AutoInv
  <1>3. Trie' /\ Lists' /\ Fails' /\ Ready' = {} /\ NothingRead'
    BY <1>1, <1>2, SameNodes DEF Building, NothingRead
  <1>4. s \in Seq(Symbol) /\ Len(s) \in Nat
    BY AcAutoAssumption DEF Symbol
  <1>5. SubSeq(s, 1, 0) = << >> /\ 0 \in 0..Len(s)
    BY <1>4
  <1>6. Root \in Node' /\ node'[Root].str = << >>
    BY <1>1, <1>2 DEF Trie, Node
  <1>7. Building'
    BY <1>1, <1>2, <1>3, <1>5, <1>6 DEF Building
  <1> QED
    BY <1>1, <1>3, <1>7 DEF AutoInv

\* The place in the trie moves along with the one in the string.
LEMMA FollowEdgeKeeps ==
    ASSUME AutoInv, FollowEdge
    PROVE  AutoInv'
  <1> DEFINE c == str[i + 1]
             temp == ac_goto(current_node, c)
  <1>1. /\ pc = "advance" /\ pc' = "advance" /\ str' = str /\ current_node' = temp /\ i' = i + 1
        /\ i < Len(str) /\ temp \notin {Null, current_node}
        /\ UNCHANGED <<node, lines>>
        /\ UNCHANGED <<queue, edges, state, text, count>>
    BY DEF FollowEdge, set_fs_vars, match_vars
  <1>2. Trie /\ Lists /\ Fails /\ Building /\ NothingRead
    BY <1>1 DEF AutoInv
  <1>3. Trie' /\ Lists' /\ Fails' /\ Ready' = {} /\ NothingRead' /\ Node' = Node
    BY <1>1, <1>2, SameNodes DEF Building, NothingRead
  <1>4. /\ str \in Lines /\ str \in Seq(Symbol) /\ i \in 0..Len(str) /\ current_node \in Node
        /\ node[current_node].str = SubSeq(str, 1, i)
    BY <1>1, <1>2, AcAutoAssumption DEF Building, Symbol
  <1>5. c \in Symbol /\ i + 1 \in 0..Len(str)
        /\ SubSeq(str, 1, i + 1) = Append(SubSeq(str, 1, i), c)
    BY <1>1, <1>4, OneMoreRead
  <1>6. temp \in Node /\ Leads(current_node, c, temp)
    BY <1>1, <1>2, <1>4, <1>5, GotoNode
  <1> HIDE DEF temp, c
  <1>7. node[temp].str = SubSeq(str, 1, i + 1)
    BY <1>4, <1>5, <1>6 DEF Leads
  <1>8. Building'
    BY <1>1, <1>2, <1>3, <1>4, <1>5, <1>6, <1>7 DEF Building
  <1> QED
    BY <1>1, <1>3, <1>8 DEF AutoInv


\* A new node stands for a string that none had.
LEMMA AddEdgeKeeps ==
    ASSUME AutoInv, AddEdge
    PROVE  AutoInv'
  <1> DEFINE c == str[i + 1]
             cur == current_node
             new == Len(node) + 1
             s == Append(node[cur].str, c)
             e0 == [c |-> c, p |-> new]
             list == node[cur].edgelist
             grown == [node EXCEPT ![cur].edgelist = << e0 >> \o list]
  <1>1. /\ pc = "advance" /\ pc' = "advance" /\ str' = str /\ current_node' = new /\ i' = i + 1
        /\ i < Len(str) /\ ac_goto(cur, c) \in {Null, cur}
        /\ node' = Append(grown, NewNode(s))
        /\ UNCHANGED <<queue, edges, state, text, count, lines>>
    BY DEF AddEdge, set_fs_vars, match_vars
  <1>2. Trie /\ Lists /\ Fails /\ Building /\ NothingRead
    BY <1>1 DEF AutoInv
  <1>3. /\ str \in Lines /\ str \in Seq(Symbol) /\ i \in 0..Len(str) /\ cur \in Node
        /\ node[cur].str = SubSeq(str, 1, i)
    BY <1>1, <1>2, AcAutoAssumption DEF Building, Symbol
  <1>4. c \in Symbol /\ i + 1 \in 0..Len(str)
        /\ SubSeq(str, 1, i + 1) = s
    BY <1>1, <1>3, OneMoreRead
  <1>5. \A m \in Node : ~Leads(cur, c, m)
    <2> SUFFICES ASSUME NEW m \in Node, Leads(cur, c, m) PROVE FALSE
      OBVIOUS
    <2>1. ac_goto(cur, c) = m
      BY <1>2, <1>3, <1>4, GotoIs
    <2>2. m # Null /\ Depth(m) = Depth(cur) + 1 /\ Depth(cur) \in Nat
      BY <1>2, <1>3, <1>4, Nodes, Parents
    <2> QED
      BY <1>1, <2>1, <2>2
  <1>6. /\ node \in Seq(NODE) /\ Len(node) \in Nat /\ Node = 1..Len(node) /\ new \notin Node
        /\ node[cur] \in NODE /\ list \in Seq([c : Symbol, p : Nat])
        /\ node[cur].str \in Seq(Symbol) /\ new \in Nat
    <2>1. node \in Seq(NODE)
      BY <1>2 DEF Trie
    <2>2. /\ Len(node) \in Nat /\ Node = 1..Len(node)
          /\ node[cur] \in NODE /\ list \in Seq([c : Symbol, p : Nat])
          /\ node[cur].str \in Seq(Symbol)
      BY <1>2, <1>3, Nodes
    <2> QED
      BY <2>1, <2>2
  <1>7. /\ << e0 >> \o list \in Seq([c : Symbol, p : Nat])
        /\ ToSet(<< e0 >> \o list) = ToSet(list) \cup {e0}
    <2>1. e0 \in [c : Symbol, p : Nat]
      BY <1>4, <1>6
    <2> DEFINE T == [c : Symbol, p : Nat]
    <2>2. e0 \in T /\ list \in Seq(T)
      BY <1>6, <2>1
    <2> HIDE DEF e0, list, T
    <2>3. << e0 >> \o list \in Seq(T) /\ ToSet(<< e0 >> \o list) = ToSet(list) \cup {e0}
      BY ONLY <2>2, ConsAdds
    <2> QED
      BY <2>3 DEF T
  <1>8. s \in Seq(Symbol) /\ NewNode(s) \in NODE
    <2>1. s \in Seq(Symbol)
      BY <1>4, <1>6, Appended
    <2> HIDE DEF s
    <2> QED
      BY <2>1 DEF NewNode, NODE, Null
  <1>9. /\ grown \in Seq(NODE) /\ Len(grown) = Len(node)
        /\ grown[cur] = [node[cur] EXCEPT !.edgelist = << e0 >> \o list]
        /\ \A n \in Node \ {cur} : grown[n] = node[n]
    <2>1. [node[cur] EXCEPT !.edgelist = << e0 >> \o list] \in NODE
      BY <1>6, <1>7 DEF NODE
    <2>2. grown = [node EXCEPT ![cur] = [node[cur] EXCEPT !.edgelist = << e0 >> \o list]]
      OBVIOUS
    <2> DEFINE more == [node[cur] EXCEPT !.edgelist = << e0 >> \o list]
    <2>3. grown = [node EXCEPT ![cur] = more] /\ more \in NODE /\ cur \in 1..Len(node)
      BY <1>3, <1>6, <2>1, <2>2
    <2> HIDE DEF grown, more
    <2>4. grown \in Seq(NODE) /\ Len(grown) = Len(node)
      BY <1>6, <2>3
    <2>5. grown[cur] = more /\ \A n \in Node \ {cur} : grown[n] = node[n]
      BY <1>6, <2>3 DEF Node
    <2> QED
      BY <2>4, <2>5 DEF more
  <1> HIDE DEF s, grown, c, list, e0
  <1>10. /\ node' \in Seq(NODE) /\ Node' = Node \cup {new} /\ node'[new] = NewNode(s)
         /\ \A n \in Node : node'[n] = grown[n]
    <2>1. node' \in Seq(NODE) /\ Len(node') = new /\ node'[new] = NewNode(s)
      BY <1>1, <1>6, <1>8, <1>9
    <2>2. \A n \in 1..Len(node) : node'[n] = grown[n]
      BY <1>1, <1>6, <1>8, <1>9
    <2>3. Node' = 1..new
      BY <2>1, LenProperties DEF Node
    <2>4. 1..new = (1..Len(node)) \cup {new}
      BY <1>6
    <2> QED
      BY <1>6, <2>1, <2>2, <2>3, <2>4
  <1>11. \A n \in Node : /\ node'[n].str = node[n].str /\ node'[n].fs = node[n].fs
                         /\ node'[n].matchlist = node[n].matchlist
                         /\ (n # cur => node'[n].edgelist = node[n].edgelist)
    <2> SUFFICES ASSUME NEW n \in Node
                 PROVE  /\ node'[n].str = node[n].str /\ node'[n].fs = node[n].fs
                        /\ node'[n].matchlist = node[n].matchlist
                        /\ (n # cur => node'[n].edgelist = node[n].edgelist)
      OBVIOUS
    <2>1. CASE n = cur
      BY <1>6, <1>9, <1>10, <2>1 DEF NODE
    <2>2. CASE n # cur
      BY <1>9, <1>10, <2>2
    <2> QED
      BY <2>1, <2>2
  <1>12. node'[new].str = s /\ node'[new].fs = Null /\ node'[new].edgelist = << >>
         /\ node'[new].matchlist = << >>
    BY <1>10 DEF NewNode
  <1>13. /\ ToSet(node'[cur].edgelist) = ToSet(list) \cup {e0}
         /\ ToSet(node'[new].edgelist) = {}
    <2>1. node'[cur].edgelist = << e0 >> \o list
      BY <1>3, <1>6, <1>9, <1>10 DEF NODE
    <2>2. ToSet(<< >>) = {}
      BY DEF ToSet
    <2> QED
      BY <1>7, <1>12, <2>1, <2>2
  <1>14. \A n \in Node : node[n].str # s
    BY <1>5 DEF Leads, s
  <1>15. Trie'
    <2>1. Root \in Node' /\ node'[Root].str = << >> /\ node'[Root].fs = Root
          /\ node'[Root].matchlist = << >>
      BY <1>2, <1>10, <1>11 DEF Trie
    <2>2. \A n, m \in Node \cup {new} : node'[n].str = node'[m].str => n = m
      <3>1. \A n, m \in Node : node[n].str = node[m].str => n = m
        BY <1>2 DEF Trie
      <3> QED
        BY <1>11, <1>12, <1>14, <3>1
    <2>3. \A n \in Node \cup {new} : \A e \in ToSet(node'[n].edgelist) :
             e.p \in Node \cup {new} /\ node'[e.p].str = Append(node'[n].str, e.c)
      <3> SUFFICES ASSUME NEW n \in Node \cup {new}, NEW e \in ToSet(node'[n].edgelist)
                   PROVE  e.p \in Node \cup {new} /\ node'[e.p].str = Append(node'[n].str, e.c)
        OBVIOUS
      <3>1. n \in Node
        BY <1>13
      <3>2. CASE e \in ToSet(node[n].edgelist)
        <4>1. e.p \in Node /\ node[e.p].str = Append(node[n].str, e.c)
          BY <1>2, <3>1, <3>2 DEF Trie, Leads
        <4> QED
          BY <1>11, <3>1, <4>1
      <3>3. CASE n = cur /\ e = e0
        <4>1. e.p = new /\ e.c = c
          BY <3>3 DEF e0
        <4> QED
          BY <1>3, <1>11, <1>12, <3>3, <4>1 DEF s
      <3> QED
        BY <1>11, <1>13, <3>1, <3>2, <3>3 DEF list
    <2>4. \A m \in (Node \cup {new}) \ {Root} : \E n \in Node \cup {new} :
             \E e \in ToSet(node'[n].edgelist) : e.p = m
      <3> SUFFICES ASSUME NEW m \in (Node \cup {new}) \ {Root}
                   PROVE  \E n \in Node : \E e \in ToSet(node'[n].edgelist) : e.p = m
        OBVIOUS
      <3>1. CASE m \in Node
        <4>1. PICK n \in Node : \E e \in ToSet(node[n].edgelist) : e.p = m
          BY <1>2, <3>1 DEF Trie
        <4>2. ToSet(node[n].edgelist) \subseteq ToSet(node'[n].edgelist)
          BY <1>11, <1>13 DEF list
        <4> QED
          BY <4>1, <4>2
      <3>2. CASE m = new
        <4>1. e0 \in ToSet(node'[cur].edgelist) /\ e0.p = m
          BY <1>13, <3>2 DEF e0
        <4> QED
          BY <1>3, <4>1
      <3> QED
        BY <3>1, <3>2
    <2> QED
      BY <1>10, <2>1, <2>2, <2>3, <2>4 DEF Trie, Leads, Root
  <1>16. Lists'
    <2>1. Patterns' = Patterns /\ \A t : EndsOf(t)' = EndsOf(t)
      BY <1>1 DEF Patterns, EndsOf
    <2>2. \A x \in lines : \E n \in Node' : node'[n].str = x
      BY <1>2, <1>10, <1>11 DEF Lists
    <2>3. \A n \in Node :
             /\ node'[n].str \in Patterns => node'[n].str \in ToSet(node'[n].matchlist)
             /\ ToSet(node'[n].matchlist) \subseteq EndsOf(node'[n].str)
             /\ IsInjective(node'[n].matchlist)
      BY <1>2, <1>11 DEF Lists
    <2>4. /\ node'[new].str \in Patterns => node'[new].str \in ToSet(node'[new].matchlist)
          /\ ToSet(node'[new].matchlist) \subseteq EndsOf(node'[new].str)
          /\ IsInjective(node'[new].matchlist)
      <3>1. s \notin Patterns
        BY <1>2, <1>14 DEF Lists, Patterns
      <3>2. ToSet(<< >>) = {} /\ IsInjective(<< >>)
        BY DEF ToSet, IsInjective
      <3> QED
        BY <1>12, <3>1, <3>2
    <2>5. \A n \in Node' :
             /\ node'[n].str \in Patterns => node'[n].str \in ToSet(node'[n].matchlist)
             /\ ToSet(node'[n].matchlist) \subseteq EndsOf(node'[n].str)
             /\ IsInjective(node'[n].matchlist)
      BY <1>10, <2>3, <2>4
    <2>6. lines' \subseteq Lines
      BY <1>1, <1>2 DEF Lists
    <2> QED
      BY <1>1, <2>1, <2>2, <2>5, <2>6 DEF Lists
  <1>17. Ready' = {} /\ Fails'
    <2>1. \A n \in Node \ {Root} : node[n].fs = Null
      BY <1>2 DEF Building, Ready
    <2>2. \A n \in Node' \ {Root} : node'[n].fs = Null
      BY <1>10, <1>11, <1>12, <2>1
    <2>3. Ready' = {}
      BY <2>2 DEF Ready, Root, Null
    <2> QED
      BY <2>3 DEF Fails
  <1>18. Building' /\ NothingRead'
    <2>1. node'[new].str = SubSeq(str, 1, i + 1) /\ new \in Node'
      BY <1>4, <1>10, <1>12
    <2> QED
      BY <1>1, <1>2, <1>3, <1>4, <1>17, <2>1 DEF Building, NothingRead
  <1> QED
    BY <1>1, <1>15, <1>16, <1>17, <1>18 DEF AutoInv

\* The node that a line leads to lists it.
LEMMA EndOfLineKeeps ==
    ASSUME AutoInv, EndOfLine
    PROVE  AutoInv'
  <1> DEFINE cur == current_node
             list == node[cur].matchlist
             ends(t) == {s \in Patterns' : Suffix(s, t)}
             more == [node[cur] EXCEPT !.matchlist = Put(list, str)]
  <1>1. /\ pc = "advance" /\ pc' = "build" /\ i = Len(str) /\ lines' = lines \cup {str}
        /\ node' = IF cur = Root THEN node ELSE [node EXCEPT ![cur] = more]
        /\ UNCHANGED <<queue, edges, state, text, count>>
    BY DEF EndOfLine, set_fs_vars, match_vars
  <1>2. Trie /\ Lists /\ Fails /\ Building /\ NothingRead
    BY <1>1 DEF AutoInv
  <1>3. /\ str \in Lines /\ str \in Seq(Symbol) /\ cur \in Node
        /\ node[cur].str = SubSeq(str, 1, Len(str))
    BY <1>1, <1>2, AcAutoAssumption DEF Building, Symbol
  <1>4. node[cur].str = str
    <2>1. Len(str) \in Nat
      BY <1>3, LenProperties
    <2>2. /\ SubSeq(str, 1, Len(str)) \in Seq(Symbol) /\ Len(SubSeq(str, 1, Len(str))) = Len(str)
          /\ \A x \in 1..Len(str) : SubSeq(str, 1, Len(str))[x] = str[x]
      BY <1>3, <2>1
    <2> QED
      BY <1>3, <2>2, SeqEqual
  <1>5. /\ cur = Root <=> str = << >>
        /\ \A n \in Node : node[n].str = str => n = cur
    BY <1>2, <1>3, <1>4 DEF Trie
  <1>6. /\ node \in Seq(NODE) /\ Len(node) \in Nat /\ Node = 1..Len(node)
        /\ node[cur] \in NODE /\ list \in Seq(Lines) /\ IsInjective(list)
        /\ ToSet(list) \subseteq EndsOf(str)
    <2>1. node \in Seq(NODE)
      BY <1>2 DEF Trie
    <2>2. Len(node) \in Nat /\ Node = 1..Len(node) /\ node[cur] \in NODE /\ list \in Seq(Lines)
      BY <1>2, <1>3, Nodes
    <2>3. IsInjective(list) /\ ToSet(list) \subseteq EndsOf(str)
      BY <1>2, <1>3, <1>4 DEF Lists
    <2> QED
      BY <2>1, <2>2, <2>3
  <1> HIDE DEF list
  <1>7. /\ Put(list, str) \in Seq(Lines) /\ IsInjective(Put(list, str))
        /\ ToSet(Put(list, str)) = ToSet(list) \cup {str}
    BY <1>3, <1>6, PutAdds
  <1>8. /\ more \in NODE /\ more.str = node[cur].str /\ more.fs = node[cur].fs
        /\ more.edgelist = node[cur].edgelist /\ more.matchlist = Put(list, str)
    BY <1>6, <1>7 DEF NODE
  <1> HIDE DEF more, ends
  <1>9. /\ node' \in Seq(NODE) /\ Len(node') = Len(node)
        /\ \A n \in Node : n # cur \/ cur = Root => node'[n] = node[n]
        /\ cur # Root => node'[cur] = more
    <2>1. CASE cur = Root
      BY <1>1, <1>6, <2>1
    <2>2. CASE cur # Root
      <3>1. node' = [node EXCEPT ![cur] = more] /\ cur \in 1..Len(node)
        BY <1>1, <1>3, <1>6, <2>2
      <3>2. node' \in Seq(NODE) /\ Len(node') = Len(node)
        BY <1>6, <1>8, <3>1
      <3>3. node'[cur] = more /\ \A n \in Node \ {cur} : node'[n] = node[n]
        BY <1>6, <3>1 DEF Node
      <3> QED
        BY <2>2, <3>2, <3>3
    <2> QED
      BY <2>1, <2>2
  <1>10. \A n \in Node : node'[n].str = node[n].str /\ node'[n].edgelist = node[n].edgelist
                         /\ node'[n].fs = node[n].fs
    BY <1>8, <1>9
  <1>11. Trie' /\ Node' = Node
    <2>1. node'[Root] = node[Root]
      BY <1>2, <1>9 DEF Trie
    <2> QED
      BY <1>2, <1>9, <1>10, <2>1, SameStrings DEF Trie
  <1>12. /\ Patterns \subseteq Patterns' /\ Patterns' \subseteq Patterns \cup {str}
         /\ (str # << >> => str \in Patterns')
         /\ (str = << >> => Patterns' = Patterns)
    BY <1>1 DEF Patterns
  <1>13. \A t : EndsOf(t) \subseteq ends(t)
    BY <1>12 DEF EndsOf, ends
  <1>14. Lists'
    <2>1. lines' \subseteq Lines
      BY <1>1, <1>2, <1>3 DEF Lists
    <2>2. \A x \in lines' : \E n \in Node' : node'[n].str = x
      <3>1. \A x \in lines : \E n \in Node : node'[n].str = x
        BY <1>2, <1>10 DEF Lists
      <3>2. node'[cur].str = str
        BY <1>3, <1>4, <1>10
      <3> QED
        BY <1>1, <1>3, <1>11, <3>1, <3>2
    <2>3. ASSUME NEW n \in Node
          PROVE  /\ node'[n].str \in Patterns' => node'[n].str \in ToSet(node'[n].matchlist)
                 /\ ToSet(node'[n].matchlist) \subseteq ends(node'[n].str)
                 /\ IsInjective(node'[n].matchlist)
      <3>1. /\ node[n].str \in Patterns => node[n].str \in ToSet(node[n].matchlist)
            /\ ToSet(node[n].matchlist) \subseteq EndsOf(node[n].str)
            /\ IsInjective(node[n].matchlist)
        BY <1>2 DEF Lists
      <3>2. CASE n # cur
        <4>1. node'[n] = node[n] /\ node[n].str # str
          BY <1>5, <1>9, <3>2
        <4> QED
          BY <1>12, <1>13, <3>1, <4>1
      <3>3. CASE n = cur /\ cur = Root
        <4>1. node'[n] = node[n] /\ Patterns' = Patterns
          BY <1>5, <1>9, <1>12, <3>3
        <4> QED
          BY <1>13, <3>1, <4>1
      <3>4. CASE n = cur /\ cur # Root
        <4>1. node'[n].str = str /\ node'[n].matchlist = Put(list, str)
          BY <1>4, <1>8, <1>9, <3>4
        <4>2. str \in ends(str)
          BY <1>3, <1>5, <1>12, <3>4, SuffixSelf DEF ends
        <4> QED
          BY <1>6, <1>7, <1>13, <4>1, <4>2
      <3> QED
        BY <3>2, <3>3, <3>4
    <2> QED
      BY <1>11, <2>1, <2>2, <2>3 DEF Lists, EndsOf, ends
  <1>15. Ready' = {} /\ Fails'
    <2>1. Ready' = {}
      BY <1>2, <1>10, <1>11 DEF Building, Ready, Root, Null
    <2> QED
      BY <2>1 DEF Fails
  <1>16. Building' /\ NothingRead'
    BY <1>1, <1>2, <1>15 DEF Building, NothingRead
  <1> QED
    BY <1>1, <1>11, <1>14, <1>15, <1>16 DEF AutoInv

-----------------------------------------------------------------------------
(* set_fs()                                                                *)

\* A sequence is its head and its tail,
LEMMA HeadAndTail ==
    ASSUME NEW T, NEW q \in Seq(T), q # << >>
    PROVE  /\ Head(q) \in T /\ Tail(q) \in Seq(T) /\ Head(q) = q[1]
           /\ \A x \in DOMAIN Tail(q) : x + 1 \in DOMAIN q /\ x + 1 # 1 /\ Tail(q)[x] = q[x + 1]
           /\ 1 \in DOMAIN q
           /\ ToSet(q) = ToSet(Tail(q)) \cup {Head(q)}
  <1> DEFINE n == Len(q)
             tail == Tail(q)
  <1>1. n \in Nat /\ n >= 1 /\ DOMAIN q = 1..n /\ Head(q) = q[1] /\ 1 \in 1..n
    BY LenProperties, EmptySeq
  <1>2. tail \in Seq(T) /\ DOMAIN tail = 1..n - 1 /\ \A x \in 1..n - 1 : tail[x] = q[x + 1]
    BY <1>1, LenProperties
  <1>3. Head(q) \in T
    BY <1>1, ElementOfSeq
  <1> HIDE DEF tail
  <1>4. \A x \in 1..n - 1 : x + 1 \in 1..n /\ x + 1 # 1
    BY <1>1
  <1>5. \A x \in 1..n : x = 1 \/ (x - 1 \in 1..n - 1 /\ (x - 1) + 1 = x)
    BY <1>1
  <1>6. ToSet(q) = {q[x] : x \in 1..n} /\ ToSet(tail) = {tail[x] : x \in 1..n - 1}
    BY <1>1, <1>2 DEF ToSet
  <1>7. ToSet(q) \subseteq ToSet(tail) \cup {Head(q)}
    <2>1. \A x \in 1..n : q[x] \in {tail[y] : y \in 1..n - 1} \cup {Head(q)}
      <3> SUFFICES ASSUME NEW x \in 1..n
                   PROVE  q[x] \in {tail[y] : y \in 1..n - 1} \cup {Head(q)}
        OBVIOUS
      <3>1. CASE x = 1
        BY <1>1, <3>1
      <3>2. CASE x - 1 \in 1..n - 1 /\ (x - 1) + 1 = x
        <4>1. tail[x - 1] = q[x]
          BY <1>2, <3>2
        <4> QED
          BY <3>2, <4>1
      <3> QED
        BY <1>5, <3>1, <3>2
    <2> QED
      BY <1>6, <2>1
  <1>8. ToSet(tail) \subseteq ToSet(q)
    <2>1. \A x \in 1..n - 1 : tail[x] \in {q[y] : y \in 1..n}
      BY <1>2, <1>4
    <2> QED
      BY <1>6, <2>1
  <1>9. Head(q) \in ToSet(q)
    BY <1>1, <1>6
  <1>10. ToSet(q) = ToSet(tail) \cup {Head(q)}
    BY <1>7, <1>8, <1>9
  <1> QED
    BY <1>1, <1>2, <1>3, <1>4, <1>10 DEF tail

\* and grows at its end.
LEMMA AppendAdds ==
    ASSUME NEW T, NEW q \in Seq(T), NEW e \in T
    PROVE  /\ Append(q, e) \in Seq(T)
           /\ \A x \in DOMAIN Append(q, e) : \/ x \in DOMAIN q /\ Append(q, e)[x] = q[x]
                                             \/ x = Len(q) + 1 /\ Append(q, e)[x] = e
           /\ \A x \in DOMAIN q : x < Len(q) + 1
           /\ Len(q) + 1 \in Nat
           /\ ToSet(Append(q, e)) = ToSet(q) \cup {e}
  <1> DEFINE n == Len(q)
             long == Append(q, e)
  <1>1. n \in Nat /\ DOMAIN q = 1..n
    BY LenProperties
  <1>2. /\ long \in Seq(T) /\ Len(long) = n + 1 /\ long[n + 1] = e
        /\ \A x \in 1..n : long[x] = q[x]
    BY <1>1
  <1>3. DOMAIN long = 1..n + 1
    BY <1>2, LenProperties
  <1> HIDE DEF long
  <1>4. /\ \A x \in 1..n + 1 : x \in 1..n \/ x = n + 1
        /\ \A x \in 1..n : x \in 1..n + 1 /\ x < n + 1
        /\ n + 1 \in 1..n + 1 /\ n + 1 \in Nat
    BY <1>1
  <1>5. ToSet(q) = {q[x] : x \in 1..n} /\ ToSet(long) = {long[x] : x \in 1..n + 1}
    BY <1>1, <1>3 DEF ToSet
  <1>6. ToSet(long) \subseteq ToSet(q) \cup {e}
    BY <1>2, <1>4, <1>5
  <1>7. ToSet(q) \subseteq ToSet(long)
    <2>1. \A x \in 1..n : q[x] \in {long[y] : y \in 1..n + 1}
      BY <1>2, <1>4
    <2> QED
      BY <1>5, <2>1
  <1>8. e \in ToSet(long)
    BY <1>2, <1>4, <1>5
  <1>9. ToSet(long) = ToSet(q) \cup {e}
    BY <1>6, <1>7, <1>8
  <1> QED
    BY <1>1, <1>2, <1>3, <1>4, <1>9 DEF long

\* The nodes next to the root are the first.
LEMMA SetFirstLevelKeeps ==
    ASSUME AutoInv, SetFirstLevel
    PROVE  AutoInv'
  <1> DEFINE list == node[Root].edgelist
             first == Targets(Root)
  <1>1. /\ pc = "build" /\ pc' = "set_fs" /\ queue' = first
        /\ node' = [n \in DOMAIN node |-> IF Contains(first, n)
                                          THEN [node[n] EXCEPT !.fs = Root] ELSE node[n]]
        /\ UNCHANGED <<lines, edges, current_node, state, text, count>>
    BY DEF SetFirstLevel, build_vars, match_vars
  <1>2. Trie /\ Lists /\ Building /\ NothingRead
    BY <1>1 DEF AutoInv
  <1>3. /\ Node = 1..Len(node) /\ Len(node) \in Nat /\ Root \in Node
        /\ \A n \in Node : node[n] \in NODE /\ Depth(n) \in Nat /\ node[n].str \in Seq(Symbol)
        /\ list \in Seq([c : Symbol, p : Nat]) /\ Depth(Root) = 0
        /\ \A n \in Node \ {Root} : Depth(n) > 0
    BY <1>2, Nodes
  <1>4. /\ DOMAIN first = 1..Len(list) /\ Len(list) \in Nat
        /\ \A x \in DOMAIN first : first[x] = list[x].p /\ list[x] \in ToSet(list)
        /\ ToSet(first) = {e.p : e \in ToSet(list)}
    <2>1. Len(list) \in Nat /\ DOMAIN list = 1..Len(list)
      BY <1>3, LenProperties
    <2>2. first = [x \in DOMAIN list |-> list[x].p]
      BY DEF Targets
    <2> QED
      BY <2>1, <2>2 DEF ToSet
  <1>5. \A n \in ToSet(first) : n \in Node /\ n # Root /\ Depth(n) = 1
    <2> SUFFICES ASSUME NEW e \in ToSet(list)
                 PROVE  e.p \in Node /\ e.p # Root /\ Depth(e.p) = 1
      BY <1>4
    <2>1. e.c \in Symbol
      BY <1>2, <1>3, Nodes
    <2>2. e.p \in Node /\ Leads(Root, e.c, e.p)
      BY <1>2, <1>3 DEF Trie
    <2> QED
      BY <1>2, <1>3, <2>1, <2>2, Parents
  <1>6. \A c \in Symbol, m \in Node : Leads(Root, c, m) => m \in ToSet(first)
    <2> SUFFICES ASSUME NEW c \in Symbol, NEW m \in Node, Leads(Root, c, m)
                 PROVE  m \in ToSet(first)
      OBVIOUS
    <2>1. m # Root
      BY <1>2, <1>3, Parents
    <2>2. PICK n \in Node, d \in Symbol :
             Leads(n, d, m) /\ \E e \in ToSet(node[n].edgelist) : e.c = d /\ e.p = m
      BY <1>2, <2>1, Parents
    <2>3. n = Root
      BY <1>2, <1>3, <2>2, Parents
    <2> QED
      BY <1>4, <2>2, <2>3
  <1>7. /\ first \in Seq(ToSet(first))
        /\ \A n : Contains(first, n) <=> n \in ToSet(first)
    <2>1. \A x \in 1..Len(list) : first[x] \in ToSet(first)
      BY <1>4 DEF ToSet
    <2>2. first = [x \in 1..Len(list) |-> first[x]]
      BY <1>4 DEF Targets
    <2> HIDE DEF first
    <2> QED
      BY <1>4, <2>1, <2>2 DEF Contains, ToSet
  <1> HIDE DEF first, list
  <1>8. /\ node' \in Seq(NODE) /\ Len(node') = Len(node)
        /\ \A n \in Node : /\ node'[n].str = node[n].str /\ node'[n].edgelist = node[n].edgelist
                           /\ node'[n].matchlist = node[n].matchlist
                           /\ node'[n].fs = IF n \in ToSet(first) THEN Root ELSE node[n].fs
    <2> DEFINE f(n) == IF n \in ToSet(first) THEN [node[n] EXCEPT !.fs = Root] ELSE node[n]
    <2>1. node' = [n \in 1..Len(node) |-> f(n)]
      BY <1>1, <1>3, <1>7 DEF Node
    <2>2. \A n \in Node : /\ f(n) \in NODE
                          /\ f(n).str = node[n].str /\ f(n).edgelist = node[n].edgelist
                          /\ f(n).matchlist = node[n].matchlist
                          /\ f(n).fs = IF n \in ToSet(first) THEN Root ELSE node[n].fs
      BY <1>3 DEF NODE, Root
    <2> HIDE DEF f
    <2> QED
      BY <1>3, <2>1, <2>2
  <1>9. /\ Trie' /\ Node' = Node
        /\ \A n \in Node : Depth(n)' = Depth(n)
        /\ \A n, m \in Node : \A c : Leads(n, c, m)' <=> Leads(n, c, m)
        /\ \A ns \in SUBSET Node : \A n, t : Deepest(n, ns, t)' <=> Deepest(n, ns, t)
    <2>1. node'[Root].fs = Root /\ node'[Root].matchlist = << >>
      BY <1>2, <1>3, <1>8 DEF Trie
    <2> QED
      BY <1>2, <1>8, <2>1, SameStrings
  <1>10. /\ Lists'
         /\ Patterns' = Patterns
         /\ \A t : EndsOf(t)' = EndsOf(t)
    BY <1>1, <1>2, <1>8, <1>9, SameLists
  <1>11. Ready' = ToSet(first)
    <2>1. \A n \in Node \ {Root} : node[n].fs = Null
      BY <1>2 DEF Building, Ready
    <2>2. \A n \in Node \ {Root} : node'[n].fs # Null <=> n \in ToSet(first)
      BY <1>8, <2>1 DEF Root, Null
    <2> QED
      BY <1>5, <1>9, <2>2 DEF Ready, Root, Null
  <1>12. Fails'
    <2>1. ASSUME NEW n \in ToSet(first)
          PROVE  /\ Deepest(Root, Node \ {n}, node[n].str)
                 /\ ToSet(node[n].matchlist) = EndsOf(node[n].str)
      <3>1. \A m \in Node \ {n} : Suffix(node[m].str, node[n].str) => m = Root
        BY <1>2, <1>3, <1>5, ShorterEnd
      <3>2. Suffix(node[Root].str, node[n].str) /\ Root \in Node \ {n}
        BY <1>2, <1>3, <1>5, EmptySuffix DEF Trie
      <3>3. EndsOf(node[n].str) \subseteq ToSet(node[n].matchlist)
        <4> SUFFICES ASSUME NEW s \in Patterns, Suffix(s, node[n].str)
                     PROVE  s \in ToSet(node[n].matchlist)
          BY DEF EndsOf
        <4>1. PICK k \in Node : node[k].str = s
          BY <1>2 DEF Lists, Patterns
        <4>2. k # Root
          BY <1>2, <4>1 DEF Patterns, Trie
        <4>3. k = n
          BY <3>1, <4>1, <4>2
        <4> QED
          BY <1>2, <4>1, <4>3 DEF Lists
      <3>4. ToSet(node[n].matchlist) \subseteq EndsOf(node[n].str)
        BY <1>2, <1>5 DEF Lists
      <3> QED
        BY <1>3, <3>1, <3>2, <3>3, <3>4 DEF Deepest, Depth
    <2>2. \A n \in ToSet(first) :
             /\ node'[n].fs = Root /\ node'[n].str = node[n].str
             /\ node'[n].matchlist = node[n].matchlist
      BY <1>5, <1>8
    <2>3. \A n \in ToSet(first) :
             /\ Deepest(Root, Node \ {n}, node[n].str)'
             /\ ToSet(node'[n].matchlist) = EndsOf(node'[n].str)
      <3> SUFFICES ASSUME NEW n \in ToSet(first)
                   PROVE  /\ Deepest(Root, Node \ {n}, node[n].str)'
                          /\ ToSet(node'[n].matchlist) = EndsOf(node'[n].str)
        OBVIOUS
      <3> DEFINE ns == Node \ {n}
                 t == node[n].str
      <3>1. Deepest(Root, ns, t) /\ ns \in SUBSET Node
        BY <2>1
      <3>2. ns' = ns /\ t' = t
        BY <1>9, <2>2
      <3>3. \A m \in ns : node'[m].str = node[m].str
        BY <1>8
      <3> HIDE DEF ns, t
      <3>4. Deepest(Root, ns, t)'
        BY <3>1, <3>2, <3>3 DEF Deepest, Root
      <3> QED
        BY <2>1, <2>2, <3>4 DEF ns, t
    <2> QED
      BY <1>10, <1>11, <2>2, <2>3 DEF Fails, EndsOf, Root, Deepest
  <1>13. Breadth'
    <2>1. \A x \in DOMAIN queue' : Len(node'[queue'[x]].str) = 1
      BY <1>1, <1>5, <1>8 DEF ToSet, Depth
    <2>2. edges' = << >> /\ ToSet(<< >>) = {}
      BY <1>1, <1>2 DEF Building, ToSet
    <2>3. queue' \in Seq(Ready')
      BY <1>1, <1>7, <1>11
    <2>4. \A x, y \in DOMAIN queue' :
             /\ Len(node'[queue'[x]].str) <= Len(node'[queue'[y]].str)
             /\ Len(node'[queue'[y]].str) <= Len(node'[queue'[x]].str) + 1
      BY <2>1
    <2> QED
      BY <2>2, <2>3, <2>4 DEF Breadth, Depth
  <1>14. Closed'
    <2> SUFFICES ASSUME NEW n \in ToSet(first) \cup {Root}, NEW m \in Node, NEW c \in Symbol,
                        Leads(n, c, m)'
                 PROVE  m \in ToSet(first) \/ n \in ToSet(first)
      BY <1>1, <1>9, <1>11 DEF Closed, Root
    <2>1. Leads(n, c, m)
      BY <1>3, <1>5, <1>9
    <2> QED
      BY <1>6, <2>1
  <1>15. NothingRead'
    BY <1>1, <1>2 DEF NothingRead
  <1> QED
    BY <1>1, <1>9, <1>10, <1>12, <1>13, <1>14, <1>15 DEF AutoInv

\* What the walks start from is known of the nodes in the queue.
LEMMA DequeueKeeps ==
    ASSUME AutoInv, Dequeue
    PROVE  AutoInv'
  <1> DEFINE h == Head(queue)
  <1>1. /\ pc = "set_fs" /\ pc' = "set_fs" /\ edges = << >> /\ queue # << >>
        /\ current_node' = h /\ queue' = Tail(queue) /\ edges' = node[h].edgelist
        /\ UNCHANGED <<node, lines, state, text, count>>
    BY DEF Dequeue, match_vars
  <1>2. Trie /\ Lists /\ Fails /\ Breadth /\ Closed /\ NothingRead
    BY <1>1 DEF AutoInv
  <1>3. /\ Trie' /\ Lists' /\ Fails' /\ Ready' = Ready /\ Node' = Node
        /\ (\A n : Depth(n)' = Depth(n))
        /\ \A n, c, m : Leads(n, c, m)' = Leads(n, c, m)
    BY <1>1, <1>2, SameNodes
  <1>4. /\ h \in Ready /\ Tail(queue) \in Seq(Ready) /\ h = queue[1] /\ 1 \in DOMAIN queue
        /\ \A x \in DOMAIN Tail(queue) : /\ x + 1 \in DOMAIN queue /\ x + 1 # 1
                                         /\ Tail(queue)[x] = queue[x + 1]
        /\ ToSet(queue) = ToSet(Tail(queue)) \cup {h}
    <2>1. queue \in Seq(Ready)
      BY <1>2 DEF Breadth
    <2> QED
      BY <1>1, <2>1, HeadAndTail
  <1>5. \A x \in DOMAIN queue : x \in Nat /\ x >= 1 /\ Depth(queue[x]) \in Nat
    <2>1. queue \in Seq(Ready)
      BY <1>2 DEF Breadth
    <2>2. \A x \in DOMAIN queue : x \in Nat /\ x >= 1 /\ queue[x] \in Ready
      BY <2>1, LenProperties, ElementOfSeq
    <2>3. \A n \in Ready : Depth(n) \in Nat
      BY <1>2, Nodes DEF Ready
    <2> QED
      BY <2>2, <2>3
  <1>6. h \in Node
    BY <1>4 DEF Ready
  <1> HIDE DEF h
  <1>7. Breadth'
    <2>1. queue' \in Seq(Ready')
      BY <1>1, <1>3, <1>4
    <2>2. \A x, y \in DOMAIN queue' : x <= y => Depth(queue'[x]) <= Depth(queue'[y])
      <3> SUFFICES ASSUME NEW x \in DOMAIN Tail(queue), NEW y \in DOMAIN Tail(queue), x <= y
                   PROVE  Depth(Tail(queue)[x]) <= Depth(Tail(queue)[y])
        BY <1>1
      <3>1. x \in Nat /\ y \in Nat /\ x + 1 <= y + 1
        <4>1. Tail(queue) \in Seq(Ready)
          BY <1>4
        <4>2. x \in Nat /\ y \in Nat
          BY <4>1, LenProperties
        <4> QED
          BY <4>2
      <3> QED
        BY <1>2, <1>4, <3>1 DEF Breadth
    <2>3. \A x, y \in DOMAIN queue' : Depth(queue'[y]) <= Depth(queue'[x]) + 1
      BY <1>1, <1>2, <1>4 DEF Breadth
    <2>4. \A x \in DOMAIN queue' : Depth(queue'[x]) \in Depth(h)..Depth(h) + 1
      <3> SUFFICES ASSUME NEW x \in DOMAIN Tail(queue)
                   PROVE  Depth(Tail(queue)[x]) \in Depth(h)..Depth(h) + 1
        BY <1>1
      <3>1. x + 1 \in DOMAIN queue /\ 1 <= x + 1 /\ Tail(queue)[x] = queue[x + 1]
        BY <1>4, <1>5
      <3>2. Depth(queue[1]) <= Depth(queue[x + 1]) /\ Depth(queue[x + 1]) <= Depth(queue[1]) + 1
        BY <1>2, <1>4, <3>1 DEF Breadth
      <3> QED
        BY <1>4, <1>5, <3>1, <3>2
    <2>5. edges' \in Seq([c : Symbol, p : Node'])
          /\ \A e \in ToSet(edges') : Leads(h, e.c, e.p)
      <3> DEFINE list == node[h].edgelist
      <3>1. list \in Seq([c : Symbol, p : Nat])
        BY <1>2, <1>6, Nodes
      <3>2. \A e \in ToSet(list) : e.p \in Node /\ Leads(h, e.c, e.p)
        BY <1>2, <1>6 DEF Trie
      <3>3. Len(list) \in Nat /\ \A x \in 1..Len(list) : list[x] \in [c : Symbol, p : Node]
        <4> DEFINE E == [c : Symbol, p : Nat]
        <4>1. list \in Seq(E)
          BY <3>1
        <4> HIDE DEF E, list
        <4>2. Len(list) \in Nat /\ DOMAIN list = 1..Len(list)
              /\ \A x \in 1..Len(list) : list[x] \in E
          BY <4>1, LenProperties, ElementOfSeq
        <4>3. \A x \in 1..Len(list) : list[x] \in E /\ list[x].p \in Node
          BY <3>2, <4>2 DEF ToSet
        <4> QED
          BY <4>2, <4>3 DEF E
      <3>4. list = [x \in 1..Len(list) |-> list[x]]
        BY <3>1
      <3> HIDE DEF list
      <3>5. list \in Seq([c : Symbol, p : Node])
        <4> DEFINE F == [c : Symbol, p : Node]
        <4>1. Len(list) \in Nat /\ \A x \in 1..Len(list) : list[x] \in F
          BY <3>3
        <4> HIDE DEF F
        <4>2. list \in [1..Len(list) -> F]
          BY <3>4, <4>1
        <4>3. list \in Seq(F)
          BY <4>1, <4>2
        <4> QED
          BY <4>3 DEF F
      <3>6. edges' = list /\ Node' = Node
        BY <1>1, <1>3 DEF list
      <3>7. \A e \in ToSet(list) : Leads(h, e.c, e.p)
        BY <3>2 DEF list
      <3> QED
        BY <3>5, <3>6, <3>7
    <2> QED
      BY <1>1, <1>3, <1>4, <2>1, <2>2, <2>3, <2>4, <2>5 DEF Breadth, Depth, Leads
  <1>8. Closed'
    <2> SUFFICES ASSUME NEW n \in Ready \cup {Root}, NEW m \in Node, NEW c \in Symbol,
                        Leads(n, c, m)
                 PROVE  \/ m \in Ready
                        \/ n \in ToSet(queue')
                        \/ n = h /\ \E e \in ToSet(edges') : e.p = m
      BY <1>1, <1>3 DEF Closed, Root
    <2>1. CASE n \in ToSet(queue)
      <3>1. CASE n = h
        <4>1. PICK y \in Node, d \in Symbol :
                 Leads(y, d, m) /\ \E e \in ToSet(node[y].edgelist) : e.c = d /\ e.p = m
          <5>1. n \in Node
            BY <1>6, <3>1
          <5>2. m # Root
            BY <1>2, <5>1, Parents
          <5> QED
            BY <1>2, <5>2, Parents
        <4>2. y = h
          BY <1>2, <1>6, <3>1, <4>1, Parents
        <4> QED
          BY <1>1, <3>1, <4>1, <4>2
      <3>2. CASE n # h
        BY <1>1, <1>4, <2>1, <3>2
      <3> QED
        BY <3>1, <3>2
    <2>2. ToSet(edges) = {}
      BY <1>1 DEF ToSet
    <2> QED
      BY <1>2, <2>1, <2>2 DEF Closed
  <1>9. NothingRead'
    BY <1>1, <1>2 DEF NothingRead
  <1> QED
    BY <1>1, <1>3, <1>7, <1>8, <1>9 DEF AutoInv

\* The fail state of current_node stands for the longest of the ends to try.
LEMMA NextEdgeKeeps ==
    ASSUME AutoInv, NextEdge
    PROVE  AutoInv'
  <1> DEFINE cur == current_node
             fs == node[cur].fs
             t == node[cur].str
  <1>1. /\ pc = "set_fs" /\ pc' = "fail" /\ edges # << >>
        /\ fail_state' = fs /\ char' = Head(edges).c
        /\ UNCHANGED <<node, lines, queue, edges, current_node, state, text, count>>
    BY DEF NextEdge, build_vars, set_fs_vars, match_vars
  <1>2. Trie /\ Lists /\ Fails /\ Breadth /\ Closed /\ NothingRead
    BY <1>1 DEF AutoInv
  <1>3. Trie' /\ Lists' /\ Fails' /\ Breadth' /\ Closed' /\ NothingRead'
    BY <1>1, <1>2, SameNodes, SameOrder DEF NothingRead
  <1>4. Deepest(fs, Node \ {cur}, t)
    BY <1>1, <1>2 DEF Breadth, Fails
  <1>5. \A y \in Node : Depth(y) \in Nat
    BY <1>2, Nodes
  <1>6. Walk(fs, Head(edges).c, Node \ {cur}, t)
    BY <1>4, <1>5 DEF Walk, Deepest, Depth
  <1>7. Walk(fail_state, char, Node \ {current_node}, node[current_node].str)'
    BY <1>1, <1>6 DEF Walk, Node, Depth, Leads
  <1> QED
    BY <1>1, <1>3, <1>7 DEF AutoInv

\* The end of the walk's string that is passed has its fail state by now.
LEMMA FallBackKeeps ==
    ASSUME AutoInv, FallBack
    PROVE  AutoInv'
  <1> DEFINE cur == current_node
             fs == node[fail_state].fs
  <1>1. /\ pc \in {"fail", "process"} /\ pc' = pc /\ fail_state' = fs
        /\ ac_goto(fail_state, char) = Null
        /\ UNCHANGED <<node, lines, queue, edges, current_node, char, state, text, count>>
    BY DEF FallBack, build_vars, set_fs_vars, match_vars
  <1>2. Trie /\ Lists /\ Fails
    BY DEF AutoInv
  <1>3. Trie' /\ Lists' /\ Fails'
    BY <1>1, <1>2, SameNodes
  <1>4. CASE pc = "fail"
    <2> DEFINE t == node[cur].str
               ns == Node \ {cur}
    <2>1. /\ Breadth /\ Closed /\ NothingRead /\ edges # << >> /\ char = Head(edges).c
          /\ Walk(fail_state, char, ns, t)
      BY <1>4 DEF AutoInv
    <2>2. cur \in Ready /\ cur \in Node /\ t \in Seq(Symbol) /\ char \in Symbol
      <3>1. cur \in Ready /\ edges \in Seq([c : Symbol, p : Node])
        BY <2>1 DEF Breadth
      <3> DEFINE E == [c : Symbol, p : Node]
      <3>2. Head(edges) \in E
        <4>1. edges \in Seq(E)
          BY <3>1
        <4> HIDE DEF E
        <4> QED
          BY <2>1, <4>1, HeadAndTail
      <3> QED
        BY <1>2, <2>1, <3>1, <3>2, Nodes DEF Ready
    <2>3. fail_state \in ns /\ fail_state \in Node /\ Suffix(node[fail_state].str, t)
      BY <2>1 DEF Walk
    <2>4. fail_state # Root /\ Depth(fail_state) < Depth(cur) /\ Depth(cur) \in Nat
          /\ Depth(fail_state) \in Nat
      BY <1>1, <1>2, <2>2, <2>3, GotoNull, ShorterEnd, Nodes
    <2>5. fail_state \in Ready
      <3>1. \A x \in DOMAIN queue : Depth(queue[x]) >= Depth(cur)
        BY <2>1, <2>4 DEF Breadth
      <3>2. \A m \in Node \ {Root} : Depth(m) <= Depth(cur) => m \in Ready
        BY <1>2, <2>1, <2>4, <3>1, ReadyDownTo
      <3> QED
        BY <2>3, <2>4, <3>2
    <2>6. Deepest(fs, Node \ {fail_state}, node[fail_state].str)
      BY <1>2, <2>5 DEF Fails
    <2>7. fs \in ns
      <3>1. fs \in Node /\ fs # fail_state /\ Suffix(node[fs].str, node[fail_state].str)
        BY <2>6 DEF Deepest
      <3>2. Depth(fs) < Depth(fail_state) /\ Depth(fs) \in Nat
        BY <1>2, <2>3, <3>1, ShorterEnd, Nodes
      <3> QED
        BY <2>4, <3>1, <3>2
    <2>8. Walk(fs, char, ns, t)
      <3> HIDE DEF fs, t
      <3>1. ns \in SUBSET Node
        OBVIOUS
      <3> HIDE DEF ns
      <3> QED
        BY <1>1, <1>2, <2>1, <2>2, <2>3, <2>6, <2>7, <3>1, WalkOn
    <2>9. Walk(fail_state, char, Node \ {current_node}, node[current_node].str)'
      BY <1>1, <2>8 DEF Walk, Node, Depth, Leads
    <2>10. Breadth' /\ Closed' /\ NothingRead'
      BY <1>1, <2>1, SameOrder DEF NothingRead
    <2> QED
      BY <1>1, <1>3, <1>4, <2>1, <2>9, <2>10 DEF AutoInv
  <1>5. CASE pc = "process"
    <2>1. Reading /\ char \in Symbol /\ text \in Seq(Symbol) /\ Walk(fail_state, char, Node, text)
      BY <1>5 DEF AutoInv, Reading
    <2>2. fail_state \in Node /\ fail_state \in Ready
      <3>1. fail_state \in Node
        BY <2>1 DEF Walk
      <3>2. fail_state # Root
        BY <1>1, <1>2, <2>1, <3>1, GotoNull
      <3> QED
        BY <2>1, <3>1, <3>2 DEF Reading
    <2>3. Deepest(fs, Node \ {fail_state}, node[fail_state].str)
      BY <1>2, <2>2 DEF Fails
    <2>4. fs \in Node
      BY <2>3 DEF Deepest
    <2>5. Walk(fs, char, Node, text)
      <3> HIDE DEF fs
      <3>1. Node \in SUBSET Node
        OBVIOUS
      <3> QED
        BY <1>1, <1>2, <2>1, <2>2, <2>3, <2>4, <3>1, WalkOn
    <2>6. Walk(fail_state, char, Node, text)'
      BY <1>1, <2>5 DEF Walk, Node, Depth, Leads
    <2>7. Reading'
      BY <1>1, <2>1, <2>6 DEF Reading, Ready, Node, Deepest, CountsExact, Patterns
    <2> QED
      BY <1>1, <1>3, <1>5, <2>7 DEF AutoInv
  <1> QED
    BY <1>1, <1>4, <1>5

\* Before the text is read the state is right, and nothing is to be counted.
LEMMA BeforeText ==
    ASSUME Trie, Lists, NothingRead
    PROVE  Deepest(Root, Node, << >>) /\ Deepest(state, Node, text) /\ CountsExact
  <1>1. Deepest(Root, Node, << >>)
    <2>1. \A m \in Node : Suffix(node[m].str, << >>) => node[m].str = << >>
      BY Nodes, EmptySuffix
    <2>2. Suffix(<< >>, << >>)
      <3>1. << >> \in Seq(Symbol)
        OBVIOUS
      <3> QED
        BY <3>1, EmptySuffix
    <2>3. Len(<< >>) <= Len(<< >>)
      OBVIOUS
    <2> QED
      BY <2>1, <2>2, <2>3 DEF Deepest, Trie
  <1>2. CountsExact
    <2>1. \A s \in Patterns : s \in Lines
      BY DEF Patterns, Lists
    <2>2. \A s : Occurrences(<< >>, s) = 0
      BY NoneBeforeZero DEF Occurrences
    <2> QED
      BY <2>1, <2>2 DEF NothingRead, CountsExact
  <1> QED
    BY <1>1, <1>2 DEF NothingRead

\* When nothing is left to do every node has its fail state.
LEMMA EmptyQueueKeeps ==
    ASSUME AutoInv, EmptyQueue
    PROVE  AutoInv'
  <1>1. /\ pc = "set_fs" /\ pc' = "match" /\ edges = << >> /\ queue = << >>
        /\ UNCHANGED <<node, lines, state, text, count>>
    BY DEF EmptyQueue, match_vars
  <1>2. Trie /\ Lists /\ Fails /\ Breadth /\ Closed /\ NothingRead
    BY <1>1 DEF AutoInv
  <1>3. Trie' /\ Lists' /\ Fails'
    BY <1>1, <1>2, SameNodes
  <1>4. Ready = Node \ {Root}
    <2>1. ASSUME NEW m \in Node \ {Root} PROVE m \in Ready
      <3>1. Depth(m) \in Nat /\ DOMAIN queue = {} /\ Depth(m) <= Depth(m)
        BY <1>1, <1>2, Nodes
      <3> QED
        BY <1>1, <1>2, <3>1, ReadyDownTo
    <2> QED
      BY <2>1 DEF Ready
  <1>5. Deepest(Root, Node, << >>)
    BY <1>2, BeforeText
  <1>6. CountsExact
    BY <1>2, BeforeText
  <1>7. Reading'
    <2>1. text \in Seq(Symbol) /\ count \in [Lines -> Nat] /\ Deepest(state, Node, text)
      BY <1>2, <1>5 DEF NothingRead
    <2> QED
      BY <1>1, <1>4, <1>6, <2>1 DEF Reading, Ready, Node, Deepest, CountsExact, Patterns
  <1> QED
    BY <1>1, <1>3, <1>7 DEF AutoInv

\* The patterns that end a node's string: its own, and those that end the
\* string of its fail state.
LEMMA EndsViaFail ==
    ASSUME Trie, Lists, NEW n \in Node, NEW g \in Node, Deepest(g, Node \ {n}, node[n].str)
    PROVE  EndsOf(node[n].str) = ToSet(node[n].matchlist) \cup EndsOf(node[g].str)
  <1>1. /\ node[n].str \in Seq(Symbol) /\ node[g].str \in Seq(Symbol)
        /\ \A s \in Patterns : s \in Seq(Symbol)
        /\ Suffix(node[g].str, node[n].str)
    <2>1. \A s \in Lines : s \in Seq(Symbol)
      BY AcAutoAssumption DEF Symbol
    <2> QED
      BY <2>1, Nodes DEF Lists, Patterns, Deepest
  <1>2. ASSUME NEW s \in Patterns, Suffix(s, node[n].str)
        PROVE  s \in ToSet(node[n].matchlist) \/ Suffix(s, node[g].str)
    <2>1. PICK k \in Node : node[k].str = s
      BY DEF Lists, Patterns
    <2>2. CASE k = n
      BY <2>1, <2>2 DEF Lists
    <2>3. CASE k # n
      <3>1. Len(s) <= Len(node[g].str)
        BY <1>2, <2>1, <2>3 DEF Deepest
      <3> QED
        BY <1>1, <1>2, <3>1, ShorterSuffix
    <2> QED
      BY <2>2, <2>3
  <1>3. \A s \in Patterns : Suffix(s, node[g].str) => Suffix(s, node[n].str)
    BY <1>1, SuffixTrans
  <1>4. ToSet(node[n].matchlist) \subseteq EndsOf(node[n].str)
    BY DEF Lists
  <1> QED
    BY <1>2, <1>3, <1>4 DEF EndsOf

\* The root lists the patterns that end its string: none.
LEMMA RootLists ==
    ASSUME Trie, Lists
    PROVE  EndsOf(node[Root].str) = {} /\ ToSet(node[Root].matchlist) = {}
  <1>1. \A s \in Patterns : s \in Seq(Symbol) /\ s # << >>
    BY AcAutoAssumption DEF Symbol, Lists, Patterns
  <1>2. \A s \in Patterns : ~Suffix(s, << >>)
    BY <1>1, EmptySuffix
  <1>3. ToSet(<< >>) = {}
    BY DEF ToSet
  <1> QED
    BY <1>2, <1>3 DEF Trie, EndsOf

\* The walk has found the fail state, whose list was complete.
LEMMA SetFailKeeps ==
    ASSUME AutoInv, SetFail
    PROVE  AutoInv'
  <1> DEFINE cur == current_node
             e0 == Head(edges)
             child == e0.p
             g == ac_goto(fail_state, char)
             list == merge_matchlist(node[child].matchlist, node[g].matchlist)
             more == [node[child] EXCEPT !.fs = g, !.matchlist = list]
  <1>1. /\ pc = "fail" /\ pc' = "set_fs" /\ g # Null
        /\ queue' = Append(queue, child) /\ edges' = Tail(edges)
        /\ UNCHANGED <<lines, current_node, state, text, count>>
    BY DEF SetFail, enqueue, build_vars, match_vars
  <1>2. /\ Trie /\ Lists /\ Fails /\ Breadth /\ Closed /\ NothingRead
        /\ edges # << >> /\ char = e0.c
        /\ Walk(fail_state, char, Node \ {cur}, node[cur].str)
    BY <1>1 DEF AutoInv
  <1>3. /\ e0 \in [c : Symbol, p : Node] /\ ToSet(edges) = ToSet(Tail(edges)) \cup {e0}
        /\ Tail(edges) \in Seq([c : Symbol, p : Node])
    <2> DEFINE E == [c : Symbol, p : Node]
    <2>1. edges \in Seq(E)
      BY <1>2 DEF Breadth
    <2> HIDE DEF E
    <2>2. e0 \in E /\ ToSet(edges) = ToSet(Tail(edges)) \cup {e0} /\ Tail(edges) \in Seq(E)
      BY <1>2, <2>1, HeadAndTail
    <2> QED
      BY <2>2 DEF E
  <1>4. /\ cur \in Ready /\ cur \in Node /\ child \in Node /\ char \in Symbol
        /\ Leads(cur, char, child)
        /\ \A x \in DOMAIN queue : Depth(queue[x]) \in Depth(cur)..Depth(cur) + 1
    <2>1. cur \in Ready /\ Leads(cur, e0.c, e0.p)
          /\ \A x \in DOMAIN queue : Depth(queue[x]) \in Depth(cur)..Depth(cur) + 1
      BY <1>2, <1>3 DEF Breadth
    <2> QED
      BY <1>2, <1>3, <2>1 DEF Ready
  <1> HIDE DEF e0, child
  <1>5. /\ child # Root /\ Depth(child) = Depth(cur) + 1 /\ Depth(cur) \in Nat
        /\ \A n \in Node : Depth(n) \in Nat
    BY <1>2, <1>4, Nodes, Parents
  <1>6. Deepest(g, Node \ {child}, node[child].str)
    <2>1. fail_state \in Node
      BY <1>2 DEF Walk
    <2> QED
      BY <1>1, <1>2, <1>4, <2>1, WalkFindsFail
  <1> HIDE DEF g
  <1>7. g \in Node /\ g # child /\ g \in Nat
    <2>1. g \in Node /\ g # child
      BY <1>6 DEF Deepest
    <2>2. Node = 1..Len(node) /\ Len(node) \in Nat
      BY <1>2, Nodes
    <2> QED
      BY <2>1, <2>2
  <1>8. ToSet(node[g].matchlist) = EndsOf(node[g].str)
    <2>1. CASE g = Root
      BY <1>2, <2>1, RootLists
    <2>2. CASE g # Root
      <3>1. Suffix(node[g].str, node[child].str)
        BY <1>6 DEF Deepest
      <3>2. Depth(g) < Depth(child)
        BY <1>2, <1>4, <1>7, <3>1, ShorterEnd
      <3>3. Depth(g) <= Depth(cur)
        BY <1>5, <1>7, <3>2
      <3>4. \A x \in DOMAIN queue : Depth(queue[x]) >= Depth(cur)
        BY <1>4, <1>5
      <3>5. \A m \in Node \ {Root} : Depth(m) <= Depth(cur) => m \in Ready
        BY <1>2, <1>5, <3>4, ReadyDownTo
      <3>6. g \in Ready
        BY <1>7, <2>2, <3>3, <3>5
      <3> QED
        BY <1>2, <3>6 DEF Fails
    <2> QED
      BY <2>1, <2>2
  <1>9. /\ list \in Seq(Lines) /\ IsInjective(list)
        /\ ToSet(list) = EndsOf(node[child].str)
    <2>1. node[child].matchlist \in Seq(Lines) /\ node[g].matchlist \in Seq(Lines)
      BY <1>2, <1>4, <1>7, Nodes
    <2>2. IsInjective(node[child].matchlist)
      BY <1>2, <1>4 DEF Lists
    <2>3. /\ list \in Seq(Lines) /\ IsInjective(list)
          /\ ToSet(list) = ToSet(node[child].matchlist) \cup ToSet(node[g].matchlist)
      BY <2>1, <2>2, MergeAdds
    <2>4. EndsOf(node[child].str) = ToSet(node[child].matchlist) \cup EndsOf(node[g].str)
      BY <1>2, <1>4, <1>6, <1>7, EndsViaFail
    <2> QED
      BY <1>8, <2>3, <2>4
  <1> HIDE DEF list
  <1>10. /\ node[child] \in NODE /\ more \in NODE
         /\ more.str = node[child].str /\ more.edgelist = node[child].edgelist
         /\ more.fs = g /\ more.matchlist = list
    <2>1. node[child] \in NODE
      BY <1>2, <1>4, Nodes
    <2> QED
      BY <1>7, <1>9, <2>1 DEF NODE
  <1>11. node' = [node EXCEPT ![child] = more]
    BY <1>1, <1>10 DEF SetFail, child, e0, g, list
  <1> HIDE DEF more
  <1>12. /\ node' \in Seq(NODE) /\ Len(node') = Len(node)
         /\ node'[child] = more /\ \A n \in Node \ {child} : node'[n] = node[n]
    <2>1. node \in Seq(NODE) /\ Len(node) \in Nat /\ Node = 1..Len(node)
      <3>1. node \in Seq(NODE)
        BY <1>2 DEF Trie
      <3> QED
        BY <1>2, <3>1, Nodes
    <2>2. child \in 1..Len(node)
      BY <1>4, <2>1
    <2> QED
      BY <1>10, <1>11, <2>1, <2>2 DEF Node
  <1>13. \A n \in Node : node'[n].str = node[n].str /\ node'[n].edgelist = node[n].edgelist
    BY <1>10, <1>12
  <1>14. /\ Trie' /\ Node' = Node
         /\ \A n \in Node : Depth(n)' = Depth(n)
         /\ \A n, m \in Node : \A c : Leads(n, c, m)' <=> Leads(n, c, m)
         /\ \A ns \in SUBSET Node : \A n, t : Deepest(n, ns, t)' <=> Deepest(n, ns, t)
    <2>1. node'[Root].fs = Root /\ node'[Root].matchlist = << >>
      BY <1>2, <1>5, <1>12 DEF Trie
    <2> QED
      BY <1>2, <1>12, <1>13, <2>1, SameStrings
  <1>15. Patterns' = Patterns
    BY <1>1 DEF Patterns
  <1>16. Lists'
    <2>1. \A n \in Node :
             /\ node'[n].str \in Patterns => node'[n].str \in ToSet(node'[n].matchlist)
             /\ ToSet(node'[n].matchlist) \subseteq EndsOf(node'[n].str)
             /\ IsInjective(node'[n].matchlist)
      <3>1. ASSUME NEW n \in Node, n # child
            PROVE  /\ node'[n].str \in Patterns => node'[n].str \in ToSet(node'[n].matchlist)
                   /\ ToSet(node'[n].matchlist) \subseteq EndsOf(node'[n].str)
                   /\ IsInjective(node'[n].matchlist)
        BY <1>2, <1>12, <3>1 DEF Lists
      <3>2. node[child].str \in Patterns => node[child].str \in ToSet(list)
        <4>1. node[child].str \in Seq(Symbol)
          BY <1>2, <1>4, Nodes
        <4> QED
          BY <1>9, <4>1, SuffixSelf DEF EndsOf
      <3> QED
        BY <1>9, <1>10, <1>12, <3>1, <3>2
    <2>2. \A s \in lines : \E n \in Node : node'[n].str = s
      BY <1>2, <1>13 DEF Lists
    <2>3. lines \subseteq Lines
      BY <1>2 DEF Lists
    <2> QED
      BY <1>1, <1>14, <1>15, <2>1, <2>2, <2>3 DEF Lists, EndsOf
  <1>17. Ready' = Ready \cup {child}
    <2>1. \A n \in Node : node'[n].fs # Null <=> n = child \/ node[n].fs # Null
      BY <1>1, <1>10, <1>12 DEF g
    <2> QED
      BY <1>4, <1>5, <1>14, <2>1 DEF Ready, Root, Null
  <1>18. Fails'
    <2> SUFFICES ASSUME NEW n \in Ready \cup {child}
                 PROVE  /\ node'[n].fs \in Node \ {n} /\ Suffix(node'[node'[n].fs].str, node'[n].str)
                        /\ \A m \in Node \ {n} : Suffix(node'[m].str, node'[n].str)
                              => Len(node'[m].str) <= Len(node'[node'[n].fs].str)
                        /\ ToSet(node'[n].matchlist) = EndsOf(node'[n].str)
      BY <1>14, <1>15, <1>17 DEF Fails, EndsOf, Deepest
    <2>1. n \in Node
      BY <1>4 DEF Ready
    <2>2. /\ Deepest(node'[n].fs, Node \ {n}, node[n].str)
          /\ ToSet(node'[n].matchlist) = EndsOf(node[n].str)
      <3>1. CASE n = child
        BY <1>6, <1>9, <1>10, <1>12, <3>1
      <3>2. CASE n # child
        BY <1>2, <1>12, <2>1, <3>2 DEF Fails
      <3> QED
        BY <3>1, <3>2
    <2> QED
      BY <1>13, <2>1, <2>2 DEF Deepest
  <1>19. /\ queue' \in Seq(Ready')
         /\ \A x \in DOMAIN queue' : \/ x \in DOMAIN queue /\ queue'[x] = queue[x]
                                     \/ x = Len(queue) + 1 /\ queue'[x] = child
         /\ \A x \in DOMAIN queue : x < Len(queue) + 1 /\ x \in Nat
         /\ Len(queue) + 1 \in Nat
         /\ ToSet(queue') = ToSet(queue) \cup {child}
    <2> DEFINE R == Ready \cup {child}
    <2>1. queue \in Seq(Ready)
      BY <1>2 DEF Breadth
    <2>2. queue \in Seq(R)
      BY <2>1
    <2>3. child \in R /\ R = Ready'
      BY <1>17
    <2>4. \A x \in DOMAIN queue : x \in Nat
      BY <2>1, LenProperties
    <2> HIDE DEF R
    <2> QED
      BY <1>1, <2>2, <2>3, <2>4, AppendAdds
  <1>20. Breadth'
    <2>1. \A x \in DOMAIN queue' : /\ queue'[x] \in Node
                                   /\ Depth(queue'[x]) \in Depth(cur)..Depth(cur) + 1
      <3>1. queue \in Seq(Ready)
        BY <1>2 DEF Breadth
      <3>2. \A x \in DOMAIN queue : queue[x] \in Node
        BY <3>1, LenProperties, ElementOfSeq DEF Ready
      <3> QED
        BY <1>4, <1>5, <1>19, <3>2
    <2>2. \A x, y \in DOMAIN queue' : x <= y => Depth(queue'[x]) <= Depth(queue'[y])
      <3> SUFFICES ASSUME NEW x \in DOMAIN queue', NEW y \in DOMAIN queue', x <= y
                   PROVE  Depth(queue'[x]) <= Depth(queue'[y])
        OBVIOUS
      <3>1. CASE y = Len(queue) + 1 /\ queue'[y] = child
        BY <1>5, <2>1, <3>1
      <3>2. CASE y \in DOMAIN queue /\ queue'[y] = queue[y]
        <4>1. x # Len(queue) + 1
          BY <1>19, <3>2
        <4>2. x \in DOMAIN queue /\ queue'[x] = queue[x]
          BY <1>19, <4>1
        <4> QED
          BY <1>2, <3>2, <4>2 DEF Breadth
      <3> QED
        BY <1>19, <3>1, <3>2
    <2>3. \A x, y \in DOMAIN queue' : Depth(queue'[y]) <= Depth(queue'[x]) + 1
      BY <1>5, <2>1
    <2>4. \A x \in DOMAIN queue' : Len(node'[queue'[x]].str) = Depth(queue'[x])
      BY <1>13, <2>1 DEF Depth
    <2>5. Len(node'[cur].str) = Depth(cur)
      BY <1>4, <1>13 DEF Depth
    <2>6. /\ \A x, y \in DOMAIN queue' :
                x <= y => Len(node'[queue'[x]].str) <= Len(node'[queue'[y]].str)
          /\ \A x, y \in DOMAIN queue' :
                Len(node'[queue'[y]].str) <= Len(node'[queue'[x]].str) + 1
          /\ \A x \in DOMAIN queue' :
                Len(node'[queue'[x]].str) \in Len(node'[cur].str)..Len(node'[cur].str) + 1
      BY <2>1, <2>2, <2>3, <2>4, <2>5
    <2>7. /\ edges' \in Seq([c : Symbol, p : Node'])
          /\ \A e \in ToSet(edges') : node'[e.p].str = Append(node'[cur].str, e.c)
      <3>1. \A e \in ToSet(edges) : Leads(cur, e.c, e.p)
        BY <1>2 DEF Breadth
      <3>2. \A e \in ToSet(Tail(edges)) : e.p \in Node
        <4> DEFINE E == [c : Symbol, p : Node]
        <4>1. Tail(edges) \in Seq(E)
          BY <1>3
        <4> HIDE DEF E
        <4>2. \A x \in DOMAIN Tail(edges) : Tail(edges)[x] \in E
          BY <4>1, LenProperties, ElementOfSeq
        <4>3. \A e \in ToSet(Tail(edges)) : e \in E
          BY <4>2 DEF ToSet
        <4> QED
          BY <4>3 DEF E
      <3>3. \A e \in ToSet(Tail(edges)) : node'[e.p].str = Append(node'[cur].str, e.c)
        BY <1>3, <1>4, <1>13, <3>1, <3>2 DEF Leads
      <3> QED
        BY <1>1, <1>3, <1>14, <3>3
    <2>8. cur \in Ready' /\ current_node' = cur
      BY <1>1, <1>4, <1>17
    <2> QED
      BY <1>19, <2>6, <2>7, <2>8 DEF Breadth, Depth, Leads
  <1>21. Closed'
    <2> SUFFICES ASSUME NEW n \in Ready \cup {child, Root}, NEW m \in Node, NEW c \in Symbol,
                        Leads(n, c, m)'
                 PROVE  \/ m \in Ready \cup {child}
                        \/ n \in ToSet(queue')
                        \/ n = cur /\ \E e \in ToSet(edges') : e.p = m
      BY <1>1, <1>14, <1>17 DEF Closed, Root
    <2>1. n \in Node
      BY <1>2, <1>4 DEF Ready, Trie
    <2>2. Leads(n, c, m)
      BY <1>14, <2>1
    <2>3. CASE n = child
      BY <1>19, <2>3
    <2>4. CASE n \in Ready \cup {Root}
      <3>1. \/ m \in Ready
            \/ n \in ToSet(queue)
            \/ n = cur /\ \E e \in ToSet(edges) : e.p = m
        BY <1>2, <2>2, <2>4 DEF Closed
      <3>2. ASSUME NEW e \in ToSet(edges), e.p = m, n = cur
            PROVE  m = child \/ \E d \in ToSet(edges') : d.p = m
        BY <1>1, <1>3, <3>2 DEF child
      <3> QED
        BY <1>19, <3>1, <3>2
    <2> QED
      BY <2>3, <2>4
  <1>22. NothingRead'
    BY <1>1, <1>2 DEF NothingRead
  <1> QED
    BY <1>1, <1>14, <1>16, <1>18, <1>20, <1>21, <1>22 DEF AutoInv

-----------------------------------------------------------------------------
(* The text is read                                                        *)

\* A character more: an occurrence more of each pattern that ends what has been
\* read.
LEMMA OccurrencesGrow ==
    ASSUME NEW S \in SUBSET Nat, NEW t \in Seq(S), NEW c \in S, NEW s \in Seq(S), s # << >>
    PROVE  Occurrences(Append(t, c), s) =
              Occurrences(t, s) + (IF Suffix(s, Append(t, c)) THEN 1 ELSE 0)
  <1> DEFINE n == Len(t)
             k == Len(s)
             u == Append(t, c)
  <1>1. /\ n \in Nat /\ k \in Nat /\ k >= 1 /\ u \in Seq(S) /\ Len(u) = n + 1
        /\ \A x \in 1..n : u[x] = t[x]
    BY LenProperties, EmptySeq
  <1> HIDE DEF u
  <1>2. Suffix(s, u) <=> k <= n + 1 /\ \A x \in 1..k : s[x] = u[(n + 1) - k + x]
    <2>1. Suffix(s, u) <=> /\ Len(s) <= Len(u)
                           /\ \A x \in 1..Len(s) : s[x] = u[Len(u) - Len(s) + x]
      BY <1>1, SuffixIs
    <2> QED
      BY <1>1, <2>1
  <1>3. \A at \in Nat : at + k <= n => (Occurs(u, s, at) <=> Occurs(t, s, at))
    <2> SUFFICES ASSUME NEW at \in Nat, at + k <= n
                 PROVE  Occurs(u, s, at) <=> Occurs(t, s, at)
      OBVIOUS
    <2>1. \A x \in 0..k - 1 : CharAt(u, at + x) = CharAt(t, at + x)
      <3> SUFFICES ASSUME NEW x \in 0..k - 1 PROVE CharAt(u, at + x) = CharAt(t, at + x)
        OBVIOUS
      <3>1. at + x < n /\ at + x < n + 1 /\ (at + x) + 1 \in 1..n
        BY <1>1
      <3> QED
        BY <1>1, <3>1 DEF CharAt
    <2>2. at + k <= n + 1
      BY <1>1
    <2> QED
      BY <1>1, <2>1, <2>2 DEF Occurs
  <1>4. /\ \A at \in Nat : at + k > n => ~Occurs(t, s, at)
        /\ \A at \in Nat : at + k > n + 1 => ~Occurs(u, s, at)
    BY <1>1 DEF Occurs
  <1>5. OccurrencesBefore(u, s, 0) = 0 /\ OccurrencesBefore(t, s, 0) = 0
    BY NoneBeforeZero
  <1>6. Occurrences(u, s) = OccurrencesBefore(u, s, n + 1)
        /\ Occurrences(t, s) = OccurrencesBefore(t, s, n)
    BY <1>1 DEF Occurrences
  <1>7. CASE k > n + 1
    <2>1. \A x \in 0..(n + 1) - 1 : ~Occurs(u, s, x)
      BY <1>1, <1>4, <1>7
    <2>2. \A x \in 0..n - 1 : ~Occurs(t, s, x)
      BY <1>1, <1>4, <1>7
    <2>3. OccurrencesBefore(u, s, n + 1) = OccurrencesBefore(u, s, 0)
          /\ OccurrencesBefore(t, s, n) = OccurrencesBefore(t, s, 0)
      <3>1. 0 \in Nat /\ n + 1 \in Nat /\ 0 <= n + 1 /\ 0 <= n
        BY <1>1
      <3> QED
        BY <1>1, <2>1, <2>2, <3>1, NoMore
    <2>4. ~Suffix(s, u)
      BY <1>1, <1>2, <1>7
    <2> QED
      BY <1>5, <1>6, <2>3, <2>4 DEF u
  <1>8. CASE k <= n + 1
    <2> DEFINE p == (n + 1) - k
    <2>1. p \in Nat /\ p <= n /\ p + 1 <= n + 1 /\ p + 1 \in Nat /\ n + 1 \in Nat
      BY <1>1, <1>8
    <2>2. \A x \in p + 1..(n + 1) - 1 : ~Occurs(u, s, x)
      BY <1>1, <1>4, <2>1
    <2>3. \A x \in p..n - 1 : ~Occurs(t, s, x)
      BY <1>1, <1>4, <2>1
    <2>4. Occurs(u, s, p) <=> Suffix(s, u)
      <3>1. Occurs(u, s, p) <=> \A x \in 0..k - 1 : CharAt(u, p + x) = CharAt(s, x)
        BY <1>1 DEF Occurs
      <3>2. \A x \in 0..k - 1 : CharAt(u, p + x) = u[p + (x + 1)] /\ CharAt(s, x) = s[x + 1]
                                /\ x + 1 \in 1..k
        <4> SUFFICES ASSUME NEW x \in 0..k - 1
                     PROVE  CharAt(u, p + x) = u[p + (x + 1)] /\ CharAt(s, x) = s[x + 1]
                            /\ x + 1 \in 1..k
          OBVIOUS
        <4>1. p + x < n + 1 /\ (p + x) + 1 = p + (x + 1) /\ x < k /\ x + 1 \in 1..k
          BY <1>1, <2>1
        <4> QED
          BY <1>1, <4>1 DEF CharAt
      <3>3. \A x \in 1..k : x - 1 \in 0..k - 1 /\ (x - 1) + 1 = x
        BY <1>1
      <3>4. (\A x \in 0..k - 1 : CharAt(u, p + x) = CharAt(s, x))
               <=> \A x \in 1..k : s[x] = u[p + x]
        <4> HIDE DEF p
        <4>1. ASSUME \A x \in 0..k - 1 : CharAt(u, p + x) = CharAt(s, x), NEW x \in 1..k
              PROVE  s[x] = u[p + x]
          <5>1. x - 1 \in 0..k - 1 /\ (x - 1) + 1 = x
            BY <3>3
          <5>2. u[p + ((x - 1) + 1)] = s[(x - 1) + 1]
            BY <3>2, <4>1, <5>1
          <5> QED
            BY <5>1, <5>2
        <4>2. ASSUME \A x \in 1..k : s[x] = u[p + x], NEW x \in 0..k - 1
              PROVE  CharAt(u, p + x) = CharAt(s, x)
          BY <3>2, <4>2
        <4> QED
          BY <4>1, <4>2
      <3> QED
        BY <1>2, <1>8, <3>1, <3>4
    <2>5. OccurrencesBefore(u, s, p) = OccurrencesBefore(t, s, p)
      <3>1. \A x \in 0..p - 1 : Occurs(u, s, x) <=> Occurs(t, s, x)
        BY <1>1, <1>3, <2>1
      <3>2. {x \in 0..p - 1 : Occurs(u, s, x)} = {x \in 0..p - 1 : Occurs(t, s, x)}
        BY <3>1
      <3> QED
        BY <3>2 DEF OccurrencesBefore
    <2> HIDE DEF p
    <2>6. OccurrencesBefore(u, s, n + 1) = OccurrencesBefore(u, s, p + 1)
      BY <2>1, <2>2, NoMore
    <2>7. OccurrencesBefore(t, s, n) = OccurrencesBefore(t, s, p)
      BY <1>1, <2>1, <2>3, NoMore
    <2>8. OccurrencesBefore(u, s, p + 1) =
             OccurrencesBefore(u, s, p) + (IF Occurs(u, s, p) THEN 1 ELSE 0)
      BY <2>1, OneMore
    <2> QED
      BY <1>6, <2>4, <2>5, <2>6, <2>7, <2>8 DEF u
  <1> QED
    BY <1>1, <1>7, <1>8

\* A list without repetitions has a string once or not at all.
LEMMA ListedOnce ==
    ASSUME NEW list, IsInjective(list), NEW s
    PROVE  Cardinality({x \in DOMAIN list : list[x] = s}) = IF s \in ToSet(list) THEN 1 ELSE 0
  <1> DEFINE hits == {x \in DOMAIN list : list[x] = s}
  <1>1. CASE s \in ToSet(list)
    <2>1. PICK x \in DOMAIN list : list[x] = s
      BY <1>1 DEF ToSet
    <2>2. hits = {x}
      BY <2>1 DEF IsInjective
    <2> QED
      BY <1>1, <2>2, FS_Singleton
  <1>2. CASE s \notin ToSet(list)
    <2>1. hits = {}
      BY <1>2 DEF ToSet
    <2> QED
      BY <1>2, <2>1, FS_EmptySet
  <1> QED
    BY <1>1, <1>2

\* The walk for a character begins at the longest end of what has been read.
LEMMA ReadCharKeeps ==
    ASSUME AutoInv, NEW c \in Char, ReadChar(c)
    PROVE  AutoInv'
  <1>1. /\ pc = "match" /\ pc' = "process" /\ fail_state' = state /\ char' = c
        /\ UNCHANGED <<node, lines, state, text, count>>
    BY DEF ReadChar, match_vars
  <1>2. Trie /\ Lists /\ Fails /\ Reading
    BY <1>1 DEF AutoInv
  <1>3. Trie' /\ Lists' /\ Fails'
    BY <1>1, <1>2, SameNodes
  <1>4. c \in Symbol
    BY AcAutoAssumption DEF Symbol
  <1>5. \A n \in Node : Depth(n) \in Nat
    BY <1>2, Nodes
  <1>6. Walk(state, c, Node, text)
    BY <1>2, <1>5 DEF Reading, Walk, Deepest, Depth
  <1>7. Walk(fail_state, char, Node, text)'
    BY <1>1, <1>6 DEF Walk, Node, Depth, Leads
  <1>8. Reading'
    BY <1>1, <1>2, <1>4, <1>7 DEF Reading, Ready, Node, Deepest, CountsExact, Patterns
  <1> QED
    BY <1>1, <1>3, <1>8 DEF AutoInv

\* The new state lists the patterns that end what has now been read.
LEMMA MatchKeeps ==
    ASSUME AutoInv, Match
    PROVE  AutoInv'
  <1> DEFINE g == ac_goto(fail_state, char)
             list == node[g].matchlist
             longer == Append(text, char)
  <1>1. /\ pc = "process" /\ pc' = "match" /\ g # Null /\ state' = g /\ text' = longer
        /\ count' = [s \in Lines |->
                        count[s] + Cardinality({x \in DOMAIN list : list[x] = s})]
        /\ UNCHANGED <<node, lines>>
    BY DEF Match
  <1>2. Trie /\ Lists /\ Fails /\ Reading
    BY <1>1 DEF AutoInv
  <1>3. Trie' /\ Lists' /\ Fails' /\ Patterns' = Patterns
    BY <1>1, <1>2, SameNodes
  <1>4. /\ text \in Seq(Symbol) /\ char \in Symbol /\ longer \in Seq(Symbol)
        /\ Walk(fail_state, char, Node, text) /\ fail_state \in Node
    <2>1. text \in Seq(Symbol) /\ char \in Symbol /\ Walk(fail_state, char, Node, text)
      BY <1>1, <1>2 DEF Reading
    <2> QED
      BY <2>1, Appended DEF Walk
  <1>5. Deepest(g, Node, longer)
    BY <1>1, <1>2, <1>4, WalkFindsState
  <1> HIDE DEF g, longer
  <1>6. /\ g \in Node /\ Suffix(node[g].str, longer) /\ node[g].str \in Seq(Symbol)
        /\ IsInjective(list)
    BY <1>2, <1>5, Nodes DEF Deepest, Lists
  <1>7. ToSet(list) = EndsOf(node[g].str)
    <2>1. CASE g = Root
      BY <1>2, <2>1, RootLists
    <2>2. CASE g # Root
      BY <1>2, <1>6, <2>2 DEF Fails, Reading
    <2> QED
      BY <2>1, <2>2
  <1>8. \A s \in Patterns : s \in Seq(Symbol) /\ s # << >> /\ s \in Lines
    BY <1>2, AcAutoAssumption DEF Lists, Patterns, Symbol
  <1>9. \A s \in Patterns : s \in ToSet(list) <=> Suffix(s, longer)
    <2> SUFFICES ASSUME NEW s \in Patterns
                 PROVE  Suffix(s, node[g].str) <=> Suffix(s, longer)
      BY <1>7 DEF EndsOf
    <2>1. ASSUME Suffix(s, longer) PROVE Suffix(s, node[g].str)
      <3>1. PICK k \in Node : node[k].str = s
        BY <1>2 DEF Lists, Patterns
      <3>2. Len(s) <= Len(node[g].str)
        BY <1>5, <2>1, <3>1 DEF Deepest
      <3> QED
        BY <1>4, <1>6, <1>8, <2>1, <3>2, ShorterSuffix
    <2>2. ASSUME Suffix(s, node[g].str) PROVE Suffix(s, longer)
      BY <1>4, <1>6, <1>8, <2>2, SuffixTrans
    <2> QED
      BY <2>1, <2>2
  <1> HIDE DEF list
  <1>10. \A s \in Lines : Cardinality({x \in DOMAIN list : list[x] = s})
                             = IF s \in ToSet(list) THEN 1 ELSE 0
    BY <1>6, ListedOnce
  <1>11. count' \in [Lines -> Nat]
    <2>1. \A s \in Lines : count[s] \in Nat
      BY <1>2 DEF Reading
    <2>2. \A s \in Lines : count[s] + Cardinality({x \in DOMAIN list : list[x] = s}) \in Nat
      BY <1>10, <2>1
    <2> QED
      BY <1>1, <2>2
  <1>12. \A s \in Patterns : count'[s] = Occurrences(longer, s)
    <2> SUFFICES ASSUME NEW s \in Patterns PROVE count'[s] = Occurrences(longer, s)
      OBVIOUS
    <2>1. count[s] = Occurrences(text, s)
      BY <1>2 DEF Reading, CountsExact
    <2>2. Occurrences(longer, s) = Occurrences(text, s) + (IF Suffix(s, longer) THEN 1 ELSE 0)
      <3>1. Symbol \in SUBSET Nat
        BY DEF Symbol
      <3> QED
        BY <1>4, <1>8, <3>1, OccurrencesGrow DEF longer
    <2>3. count'[s] = count[s] + (IF s \in ToSet(list) THEN 1 ELSE 0)
      BY <1>1, <1>8, <1>10
    <2> QED
      BY <1>9, <2>1, <2>2, <2>3
  <1>13. Reading'
    <2>1. Ready' = Node' \ {Root} /\ Node' = Node
      BY <1>1, <1>2 DEF Reading, Ready, Node
    <2>2. Deepest(state, Node, text)'
      BY <1>1, <1>5 DEF Deepest, Node
    <2>3. CountsExact'
      BY <1>1, <1>3, <1>12 DEF CountsExact
    <2> QED
      BY <1>1, <1>4, <1>11, <2>1, <2>2, <2>3 DEF Reading, Root
  <1> QED
    BY <1>1, <1>3, <1>13 DEF AutoInv

-----------------------------------------------------------------------------
(* The theorems                                                            *)

\* Every step of the program keeps the invariant.
LEMMA StepKeeps ==
    ASSUME AutoInv, [Next]_vars
    PROVE  AutoInv'
  <1>1. CASE \E s \in Lines : ReadLine(s)
    BY <1>1, ReadLineKeeps
  <1>2. CASE \E c \in Char : ReadChar(c)
    BY <1>2, ReadCharKeeps
  <1>3. CASE EndOfText
    <2>1. /\ pc = "match" /\ pc' = "done"
          /\ UNCHANGED <<node, lines, state, text, count>>
      BY <1>3 DEF EndOfText, match_vars
    <2>2. Trie' /\ Lists' /\ Fails'
      BY <2>1, SameNodes DEF AutoInv
    <2>3. Reading'
      BY <2>1 DEF AutoInv, Reading, Ready, Node, Deepest, CountsExact, Patterns
    <2> QED
      BY <2>1, <2>2, <2>3 DEF AutoInv
  <1>4. CASE UNCHANGED vars
    <2>1. /\ UNCHANGED <<node, lines, queue, edges, current_node>>
          /\ UNCHANGED <<pc, str, i, fail_state, char, state, count, text>>
      BY <1>4 DEF vars
    <2>2. Trie' /\ Lists' /\ Fails'
      BY <2>1, SameNodes DEF AutoInv
    <2>3. Breadth' = Breadth /\ Closed' = Closed
      BY <2>1, SameOrder
    <2>4. Building' = Building /\ NothingRead' = NothingRead
      BY <2>1 DEF Building, NothingRead, Ready, Node
    <2>5. \A n, c, ns, t : Walk(n, c, ns, t)' = Walk(n, c, ns, t)
      BY <2>1, SameNodes
    <2>6. Reading' = Reading
      BY <2>1 DEF Reading, Ready, Node, Deepest, CountsExact, Patterns, Walk, Depth, Leads
    <2>7. Walk(fail_state, char, Node \ {current_node}, node[current_node].str)'
             = Walk(fail_state, char, Node \ {current_node}, node[current_node].str)
      BY <2>1 DEF Walk, Node, Depth, Leads
    <2> QED
      BY <2>1, <2>2, <2>3, <2>4, <2>6, <2>7 DEF AutoInv
  <1>5. CASE Done
    BY <1>4, <1>5 DEF Done
  <1> QED
    BY <1>1, <1>2, <1>3, <1>4, <1>5, FollowEdgeKeeps, AddEdgeKeeps, EndOfLineKeeps,
       SetFirstLevelKeeps, DequeueKeeps, NextEdgeKeeps, FallBackKeeps, SetFailKeeps,
       EmptyQueueKeeps, MatchKeeps DEF Next

\* While build_pattern(), set_fs() and the loop over the text run, the nodes are
\* a trie of the lines read, the fail states and lists set so far are final, and
\* the walks of set_fs() and processing() have passed no end that could go on.
THEOREM AutomatonInvariant == Spec => []AutoInv
  <1>1. Init => AutoInv
    BY InitAutoInv
  <1>2. AutoInv /\ [Next]_vars => AutoInv'
    BY StepKeeps
  <1> QED
    BY <1>1, <1>2, PTL DEF Spec

\* The fail state that set_fs() gives a node is the longest proper end of its
\* string that can become a match, its list is complete and without repetitions,
\* and processing() returns the state of the longest such end of the text.
THEOREM FallsBackToLongest == Spec => []FailIsLongest
  <1>1. AutoInv => FailIsLongest
    <2> SUFFICES ASSUME AutoInv PROVE FailIsLongest
      OBVIOUS
    <2>1. Trie /\ Lists /\ Fails
      BY DEF AutoInv
    <2>2. \A n \in Ready :
             /\ Deepest(node[n].fs, Node \ {n}, node[n].str)
             /\ ToSet(node[n].matchlist) = {s \in Patterns : Suffix(s, node[n].str)}
             /\ IsInjective(node[n].matchlist)
      BY <2>1 DEF Fails, Lists, EndsOf, Ready
    <2>3. Deepest(state, Node, text)
      <3>1. CASE NothingRead
        BY <2>1, <3>1, BeforeText
      <3>2. CASE Reading
        BY <3>2 DEF Reading
      <3> QED
        BY <3>1, <3>2 DEF AutoInv
    <2> QED
      BY <2>2, <2>3 DEF FailIsLongest
  <1> QED
    BY <1>1, AutomatonInvariant, PTL

\* However often and wherever patterns occur in a text, across and within each
\* other, put() is called once for each occurrence of each.
THEOREM CountsEveryOccurrence == Spec => []CountsExact
  <1>1. AutoInv => CountsExact
    <2> SUFFICES ASSUME AutoInv PROVE CountsExact
      OBVIOUS
    <2>1. CASE NothingRead
      BY <2>1, BeforeText DEF AutoInv
    <2>2. CASE Reading
      BY <2>2 DEF Reading
    <2> QED
      BY <2>1, <2>2 DEF AutoInv
  <1> QED
    BY <1>1, AutomatonInvariant, PTL
=============================================================================
