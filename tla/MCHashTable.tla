---------------------------- MODULE MCHashTable -----------------------------
(* TLC instance of HashTable and ArraySearch, and of the table of counts   *)
(* of ac_auto (CountTable), with any sequence of matches.  A behaviour     *)
(* runs one of them.                                                       *)
EXTENDS HashTable, TLC

CONSTANTS key1, key2, key3, key4, key5

VARIABLES program,
          arr_pp, arr_pc, arr_pw, arr_i, arr_wordcount, arr_results,
          hashtable, count, puts, ct_pc, group, stride, ct_i, pa, pb, lc

Lib == INSTANCE HashFunctions

\* The hash function of HashTable is the real one: "ab", "abc" and "z" share a
\* chain, "aa" has its own, one stays empty.
ab == <<97, 98>>
abc == <<97, 98, 99>>
z == <<122>>
aa == <<97, 97>>

Words == {ab, abc, z, aa}
MCHash == (ab :> 0) @@ (abc :> 0) @@ (z :> 0) @@ (aa :> 2)
ASSUME RealHash == \A s \in Words : MCHash[s] = Lib!Mod(Lib!APHash(s), HLEN)

Array == INSTANCE ArraySearch
            WITH pp <- arr_pp, pc <- arr_pc, pw <- arr_pw, i <- arr_i,
                 wordcount <- arr_wordcount, results <- arr_results

\* Three patterns in one bucket; the first and the third bucket are empty.
Table == INSTANCE CountTable
            WITH Key <- {key1, key2, key3, key4, key5}, HASH_LENGTH <- 5, MaxPuts <- 3,
                 Hash <- (key1 :> 1) @@ (key2 :> 1) @@ (key3 :> 1) @@ (key4 :> 3) @@ (key5 :> 4),
                 pc <- ct_pc, i <- ct_i

arr_vars == <<arr_pp, arr_pc, arr_pw, arr_i, arr_wordcount, arr_results>>
table_vars == <<hashtable, count, puts, ct_pc, group, stride, ct_i, pa, pb, lc>>
mc_vars == <<program, vars, arr_vars, table_vars>>

MCInit == /\ program \in {"hashtable_search", "array_search", "ac_auto"}
          /\ Init /\ Array!Init /\ Table!Init
          /\ program = "ac_auto" => pw = ab /\ arr_pw = ab

MCNext == /\ \/ program = "hashtable_search" /\ Next /\ UNCHANGED <<arr_vars, table_vars>>
             \/ program = "array_search" /\ Array!Next /\ UNCHANGED <<vars, table_vars>>
             \/ program = "ac_auto" /\ Table!Next /\ UNCHANGED <<vars, arr_vars>>
          /\ UNCHANGED program

MCSpec == MCInit /\ [][MCNext]_mc_vars

\* array_search: a word is answered "yes" exactly when it is a pattern.
ArrayImplementsMembership == Array!ImplementsMembership

\* hash.h: a pattern has one entry, with its count, in lists that are in order;
\* the last round leaves one list of all.
CountsKept == Table!CountsKept
=============================================================================
