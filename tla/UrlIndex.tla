------------------------------ MODULE UrlIndex ------------------------------
(***************************************************************************)
(* What url_persistence() of lab4-crawler/bcrawler.h promises: a map from  *)
(* the urls seen so far to ids 1, 2, 3, ..., and for each of them the ids  *)
(* of the pages that link to it.  UrlTrie shows that the trie implements   *)
(* this specification; Crawler uses it in place of the trie.               *)
(***************************************************************************)
EXTENDS Integers, FiniteSets

CONSTANTS Url,        \* the non-empty urls
          Empty,      \* the empty string
          Linker      \* ids of pages, the values of `linked_by'

VARIABLES url_id,     \* url_id[u]: the id of u, 0 when u was never seen
          links,      \* links[u]: the ids of the pages known to link to u
          current_id, \* the next id to give out
          result      \* what the last call returned

vars == <<url_id, links, current_id, result>>

Init == /\ url_id = [u \in Url |-> 0]
        /\ links = [u \in Url |-> {}]
        /\ current_id = 1
        /\ result = -1

\* The empty string ends at the root of the trie: nothing happens.
PersistEmpty == /\ result' = -1
                /\ UNCHANGED <<url_id, links, current_id>>

\* A url that was never seen gets the next id.
PersistNew(u, by) == /\ url_id[u] = 0
                     /\ url_id' = [url_id EXCEPT ![u] = current_id]
                     /\ links' = [links EXCEPT ![u] = {by}]
                     /\ current_id' = current_id + 1
                     /\ result' = current_id

\* A url that was seen only gets another page that links to it.
PersistKnown(u, by) == /\ url_id[u] # 0
                       /\ links' = [links EXCEPT ![u] = @ \cup {by}]
                       /\ result' = -1
                       /\ UNCHANGED <<url_id, current_id>>

Persist(s, by) == \/ s = Empty /\ PersistEmpty
                  \/ s \in Url /\ (PersistNew(s, by) \/ PersistKnown(s, by))

Next == \E s \in Url \cup {Empty}, by \in Linker : Persist(s, by)

Spec == Init /\ [][Next]_vars

Seen == {u \in Url : url_id[u] # 0}

\* Ids are given out once each, without gaps: the file the crawler writes has
\* the numbers 1, 2, 3, ... and no url twice.
IdsAreDense ==
    /\ \A u, v \in Seen : url_id[u] = url_id[v] => u = v
    /\ {url_id[u] : u \in Seen} = 1..current_id - 1
=============================================================================
