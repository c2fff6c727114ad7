------------------------------ MODULE MCTrees -------------------------------
(* TLC instance of the five trees of lab2, of the url trie of lab4, and of *)
(* the automaton of lab3 (AcAuto), a trie with fail states.  A behaviour   *)
(* runs one of them, and the others stay as they begin.  The B+ tree runs  *)
(* with two sizes of nodes: with the small ones inner nodes are split,     *)
(* too, with the large ones there is more than one way to be half full.    *)
EXTENDS AcAuto

CONSTANTS Programs,     \* the programs that may run
          FirstLine,    \* what the first line of Trie's file may be
          NULL

VARIABLES program,
          avl_root, avl_last,
          bp_node, bp_data, bp_root, bp_last,
          trie_node, trie_last,
          radix_root, radix_phase, radix_last, radix_empty,
          pat_root, pat_last,
          url_node, url_pc, url_str, linked_by, url_current_node, url_i,
          current_id, result, called

(* For Trie and RadixTree, strings of one and two bytes, as 2-bit digits,  *)
(* that part at different digits of a byte, and of which some begin others *)
A == << 1, 0, 0, 1 >>
B == << 1, 0, 0, 2 >>
Q == << 1, 1, 0, 1 >>
Digits == { << >>, A, B, Q, A \o A, A \o B, Q \o A }
NonEmptyDigits == Digits \ { << >> }

(* For Patricia, the empty string, bytes that differ in one, two or three  *)
(* bits, strings that begin others, and some that differ in a second byte. *)
a == {0, 5, 6}      \* 'a' = 0x61
b == {1, 5, 6}      \* 'b' = 0x62
c == {0, 1, 5, 6}   \* 'c' = 0x63
e == {0, 2, 7}      \* a byte of a multi-byte character
Bytes == { << >>, <<a>>, <<b>>, <<c>>, <<e>>, <<a, a>>, <<a, b>>, <<c, a>> }

(* For UrlTrie, strings over two characters, with a shared prefix, a       *)
(* string that is a prefix of another, the same character at different     *)
(* depths, and the empty string.                                           *)
Urls == { << >>, <<"/">>, <<"/", "a">>, <<"a", "/">> }

(* For AcAuto, patterns that begin, end and contain others, whose fail     *)
(* states have fail states, and an empty line; no pattern has the          *)
(* character 3.                                                            *)
PatternLines == { << >>, <<1>>, <<2, 1>>, <<1, 2, 1>>, <<1, 2, 2>>, <<2, 1, 2, 2>> }
TextChars == 1..3

AVL == INSTANCE AVL WITH Key <- 1..7, BBST <- avl_root, last <- avl_last
BP2 == INSTANCE BPlusTree WITH M <- 2, Key <- 1..6, node <- bp_node, data <- bp_data,
                               root <- bp_root, last <- bp_last
BP4 == INSTANCE BPlusTree WITH M <- 4, Key <- 1..6, node <- bp_node, data <- bp_data,
                               root <- bp_root, last <- bp_last
Trie == INSTANCE Trie WITH Str <- Digits, node <- trie_node, last <- trie_last
Radix == INSTANCE RadixTree WITH Str <- Digits, root <- radix_root, phase <- radix_phase,
                                 last <- radix_last, empty_line <- radix_empty
Pat == INSTANCE Patricia WITH Str <- Bytes, root <- pat_root, last <- pat_last
Url == INSTANCE UrlTrie WITH Str <- Urls, Linker <- {0, 1}, node <- url_node, pc <- url_pc,
                             str <- url_str, current_node <- url_current_node, i <- url_i

avl_vars == <<avl_root, avl_last>>
bp_vars == <<bp_node, bp_data, bp_root, bp_last>>
trie_vars == <<trie_node, trie_last>>
radix_vars == <<radix_root, radix_phase, radix_last, radix_empty>>
pat_vars == <<pat_root, pat_last>>
url_vars == <<url_node, url_pc, url_str, linked_by, url_current_node, url_i, current_id,
              result, called>>
tree_vars == <<avl_vars, bp_vars, trie_vars, radix_vars, pat_vars, url_vars>>
mc_vars == <<program, vars, tree_vars>>

MCInit == /\ program \in Programs
          /\ AVL!Init /\ BP2!Init /\ Trie!Init /\ Radix!Init /\ Pat!Init
          /\ Url!Init
          /\ Init

TreeNext == \/ /\ program = "AVL" /\ AVL!Next
               /\ UNCHANGED <<bp_vars, trie_vars, radix_vars, pat_vars, url_vars>>
            \/ /\ \/ program = "BPlusTree, M = 2" /\ BP2!Next
                  \/ program = "BPlusTree, M = 4" /\ BP4!Next
               /\ UNCHANGED <<avl_vars, trie_vars, radix_vars, pat_vars, url_vars>>
            \/ /\ program = "Trie" /\ Trie!Next
               /\ UNCHANGED <<avl_vars, bp_vars, radix_vars, pat_vars, url_vars>>
            \/ /\ program = "RadixTree" /\ Radix!Next
               /\ UNCHANGED <<avl_vars, bp_vars, trie_vars, pat_vars, url_vars>>
            \/ /\ program = "PATRICA" /\ Pat!Next
               /\ UNCHANGED <<avl_vars, bp_vars, trie_vars, radix_vars, url_vars>>
            \/ /\ program = "url trie" /\ Url!Next
               /\ UNCHANGED <<avl_vars, bp_vars, trie_vars, radix_vars, pat_vars>>

MCNext == /\ \/ TreeNext /\ UNCHANGED vars
             \/ program = "ac_auto" /\ Next /\ UNCHANGED tree_vars
          /\ UNCHANGED program

MCSpec == MCInit /\ [][MCNext]_mc_vars

\* AVL: the factors kept by hand are the differences of the heights.
Balanced == AVL!Balanced

\* AVL: a search finds exactly the strings inserted.
AVLImplementsDictionary == AVL!ImplementsDictionary

\* B+: keys, parents, sizes and the chain of leaves are as in a B+ tree.
NodesInOrder == /\ program = "BPlusTree, M = 2" => BP2!NodesInOrder
                /\ program = "BPlusTree, M = 4" => BP4!NodesInOrder

\* B+: a search finds exactly the strings inserted.
BPlusTreeImplementsDictionary == BP2!ImplementsDictionary

\* Trie: a search finds exactly the strings inserted.
TrieImplementsDictionary == Trie!ImplementsDictionary

\* RadixTree: a search finds exactly the non-empty strings inserted, before
\* and after the compression.
RadixTreeImplementsDictionary == Radix!ImplementsDictionary

\* PATRICA: every inner node names the first bit in which the strings below
\* it differ.
NodesAreCritical == Pat!NodesAreCritical

\* PATRICA: a search finds exactly the strings inserted.
PatriciaImplementsDictionary == Pat!ImplementsDictionary

\* url trie: dump_link() writes each link that a call told of, once.
DumpIsLinks == Url!DumpIsLinks

\* url trie: a call changes the entry of its own url only.
ImplementsIndex == Url!ImplementsIndex
=============================================================================
