# A verification development for ProgrammingLabs

`src/` holds the C programs of a programming-labs course: string searches with
hash tables and Bloom filters (lab1), five search trees (lab2), multi-pattern
matching (lab3) and a web crawler (lab4).  This directory holds TLA+ models of
them, TLC configurations that check the models on small instances, and TLAPS
proofs.

## 1. The system

The labs are separate programs, and so is each search of lab1, each tree of lab2
and each matcher of lab3.  Only lab4 is concurrent.

| component | state it keeps | operations | who uses it |
|---|---|---|---|
| queue of lab4 (`bcrawler.h:19-71`) | linked list with a dummy node, `front`, `rear`, a binary semaphore | `init_queue`, `enqueue`, `dequeue` (`clear_queue` is never called) | main and recv_thread put into `send_queue`, send_thread takes; main's callbacks put into `recv_queue`, recv_thread takes |
| url trie of lab4 (`bcrawler.h:73-199`) | nodes with edge lists, one PATTERN per url (id and list of linking pages), the static `current_id` | `url_persistence`, `dump_link` | recv_thread only |
| threads and callbacks of lab4 (`bcrawler.c`) | the events registered with libevent, the urls in the hands of each thread, the output file | `main`, `send_thread_once`, `send_thread`, `recv_thread`, `socket_write_cb`, `socket_read_cb` | share the two queues, the event base and the end of the process |
| csapp of lab4 (`csapp.c`, `csapp.h`) | buffered descriptors, the descriptors of the process | `rio_*`, `P`, `V`, `open_clientfd`, `open_listenfd`, error wrappers | everything in lab4 (`rio_readn`, `rio_readnb` and `open_listenfd` are there for other programs) |
| `reg.c` of lab4 | none | prints matches of a regular expression | a separate experiment |
| array, hash table and Bloom filter search of lab1 | an array of patterns; chains through it; a bit array | load the patterns, build, then answer "yes" or "no" for each word | three mains |
| hash functions of lab1 (`GeneralHashFunctions.c`, `MurmurHash.h`) | none | twelve pure functions | the hash table uses `APHash`, the Bloom filter `MurmurHash2`; a measuring program |
| `utf8.h` of lab1 | the caller's buffers | string functions over UTF-8: comparing, searching, copying, case, validity | its own test |
| AVL, B+, Trie, RadixTree, PATRICA of lab2 | one tree of strings each | insert all patterns, then search each word | five mains |
| strstr and Multikmp of lab3 | a failure table | count each pattern in the text | two mains |
| ac_auto of lab3 | automaton with fail states and match lists; a hash table of counts | build, read the text, merge the counts into one sorted list | one main |
| line reader (`public.h` of lab1, lab2, lab3) | none | `bupt_getline`, `string_cmp`, `string_equal` | all of lab1 to lab3 |

How the parts of lab4 interact.  `main()` puts the first url into `send_queue`
and creates `recv_thread` and `send_thread_once`.  `send_thread_once` takes the
url, connects, and registers a write event.  `main()` joins it, runs the event
loop until the first callback has run, creates `send_thread`, and dispatches
events until none is left; then it prints "finished" and returns, which ends
the process.  A write callback sends the request and re-registers the socket
for reading; a read callback reads the whole answer line by line and puts each
link, with the id of the page, into `recv_queue`.  `recv_thread` takes links,
enters them in the trie, and puts those it never saw into `send_queue` and the
output file.  `send_thread` opens one connection after another.

What makes it hard:

* `dequeue()` tests `front == rear` without the semaphore and uses the answer
  after it has the semaphore; `rear` is written meanwhile by `enqueue()`.
* Three threads and the event loop pass urls on in a circle.  Nothing joins the
  threads; the end of the process is decided by the event loop alone.
* Sockets of `send_thread` are non-blocking but read with blocking-style code,
  whose error wrapper exits.
* Identity is spread out: a url has an id in the trie, an element in a queue, a
  line in the output; the first url is in two of the three only.
* The sequential parts go wrong, if at all, after long sequences of legal calls:
  rotations, splits, compression, edges created in the middle of a walk, moves
  within sorted lists, rounds of merges over an odd number of lists.
* Strings that begin, end or contain others, and the empty string, meet special
  cases in every trie and every matcher.
* `read()` and `write()` transfer as much as they like and may be interrupted;
  the addresses of a host are tried one after the other, and every call on the
  way may fail.
* UTF-8 strings are handled byte by byte, and copies with a limit cut code
  points in two.

`PROJECT.json` lists the hazards line by line, with the properties aimed at each.

## 2. Plan

Order: the shared memory first, then what is built on it, then the sequential
programs.  Two layers wherever a component promises something simple: an
abstract specification, and the detailed one shown to implement it.

| step | modules | state |
|---|---|---|
| the queue | `FifoQueue` (abstract), `SyncQueue`, `SyncQueueProofs` | modelled, checked, proved |
| the url trie | `UrlIndex` (abstract), `UrlTrie` | modelled, checked, proved (`CrawlerProofs`) |
| the crawler | `Crawler`, over a sequence for each queue and over `UrlIndex`; `CrawlerProofs` | modelled, checked, proved |
| the trees of lab2 | `Dictionary` (abstract), `AVL`, `BPlusTree`, `Trie`, `RadixTree`, `Patricia` | modelled, checked |
| the matchers of lab3 | `Matching` (definitions), `StrStr`, `Kmp`, `AcAuto`; `MatchingProofs` (lemmas, those on sequences and numbers for other proofs too), `ScanProofs`, `AcAutoProofs` | modelled, checked, proved |
| the counts of ac_auto | `CountTable`; `HashTableProofs` | modelled, checked, proved |
| the hash functions of lab1 | `HashFunctions` | modelled, checked, and used by the instances of `HashTable` and `Bloom` |
| the searches of lab1 | `Membership` (abstract), `ArraySearch`, `HashTable`, `HashTableProofs`, `Bloom`, `BloomProofs` | modelled, checked, proved |
| the readers | `Lines` (abstract), `Rio`, `LineReader`; `IoProofs` | modelled, checked, safety proved |
| the unbuffered transfers and the opening of connections | `RioSocket`, `OpenFd`; `IoProofs` | modelled, checked, safety proved |
| UTF-8 strings | `Text` (abstract), `Utf8` (definitions), `Utf8Buffers` | modelled, checked |

`Crawler` composes the abstract queue (a sequence) and the abstract index
(`INSTANCE UrlIndex`); `SyncQueue` and `UrlTrie` are shown to implement these.
So the composed model stays small, and each refinement is checked, and proved,
where its details are.

## 3. The modules

### FifoQueue, SyncQueue, SyncQueueProofs

`SyncQueue` is `enqueue()` and `dequeue()` statement by statement, grouped where
only memory guarded by the semaphore is touched:

| action | code (`bcrawler.h`) |
|---|---|
| `EnqueueMalloc`, `EnqueueNoMemory` | malloc of the node, exit(0) if it fails (45-48) |
| `EnqueueP`, `EnqueueLink`, `EnqueueSwing`, `EnqueueV` | P, fill and link the node (50-52), `rear = new_node`, V |
| `DequeueEmpty`, `DequeueNonEmpty` | the test of `front == rear` without the semaphore |
| `DequeueP`, `DequeueTake`, `DequeueFixRear`, `DequeueFree`, `DequeueV` | P, take `front->next` out (63-65), repair `rear`, free, V |

`heap` is the set of allocated addresses: an address can be handed out again
after `free`, and a recycled node keeps its old fields, so a use after free or
an uncleared `next` shows.  `chain` is a history variable, the nodes in the
queue from front to rear; nothing reads it.

The unlocked read of `rear` is a data race in C11 terms.  It is modelled as an
interleaving: the pointer is an aligned word, read by one load on the platforms
the lab builds for, and `P()` (a library call) lies between the test and the
accesses that follow, so the compiler cannot merge them.

Properties: `front->next` is never NULL where it is
dereferenced (`NoNullDereference`); the queue implements `FifoQueue` with
`q <- Contents` (the elements along the chain) and `hand <- result`
(`ImplementsFifo`); the semaphore is always given back (`SemaphoreReleased`);
and the inductive invariant `IInv` of section 5, which contains the types, that
every allocated node is in the queue exactly once or in the hands of one thread
(`EveryNodeOwned`), mutual exclusion tied to the value of the semaphore, and that the pointers spell
the chain in the middle of every call (`ListWellFormed`).

### UrlIndex, UrlTrie

`UrlIndex` is a map from urls to ids and sets of linking pages.  `UrlTrie` is
the trie, with `url_persistence` turn by turn:

| action | code (`bcrawler.h`) |
|---|---|
| `Call` | the call and its first assignments (130-133) |
| `FollowEdge`, `AddEdge` | a turn of the loop: `state_goto` finds an edge, or the next character gets one and a new node (134-151) |
| `NewPattern` | the node at the end has no PATTERN: the url gets the next id (152-168) |
| `OldPattern` | it has one: the linking page is put at the head of its list, unless it is there (169-183) |
| `AtRoot` | the empty string ends at the root, whose tag is not a PATTERN (184) |

Nodes are numbered in the order of allocation.  `recv_thread` is the only caller,
so calls do not overlap.  `dump_link` is modelled by the nodes it comes to
(`Dumped`: the least set with the root and the targets of its members' edges) and
the lines it writes at each; `main()` does not call it, but it is what makes the
links readable.  Two history variables: `called`, the arguments of all calls so
far, and in each node the string that leads to it.

Properties: a call changes the entry of its own string and no other, and that
only when it ends (`ImplementsIndex`); `dump_link` writes a page for a url exactly
when some call passed the two, and no line twice, since one edge at most leads to
a node (`OneWay`) and no list holds a page twice, whatever the walks of the other
calls left in the trie (`DumpIsLinks`).

### Crawler

| action | code (`bcrawler.c`) |
|---|---|
| `MainStart`, `MainJoin`, `MainCreate`, `MainFinish` | `main()` (159-203) between the calls that block |
| `SendPollEmpty`, `SendDequeue`, `SendOpen`, `SendOpenError`, `SendAddEvent` | `send_thread` and `send_thread_once` (81-118) |
| `socket_write_cb`, `WriteError` | the write callback |
| `ReadStart`, `ReadLine`, `ReadEOF`, `ReadWouldBlock` | `socket_read_cb` (28-66), one step per line read (`Line` and `End` of `Lines`, below) |
| `RecvPollEmpty`, `RecvDequeue`, `RecvPersist`, `RecvPrint`, `RecvEnqueue` | `recv_thread` (138-157) |
| `ServerSend` | external: the web server sends one more line, or closes |

A page is a sequence of lines, each without a link or with one url.  The events
of libevent are a set: an event is gone when its callback runs (no
`EV_PERSIST`), the loop runs one callback at a time, `EVLOOP_ONCE` ends after
one.  `event_add()` from `send_thread` while `main()` dispatches is taken as
atomic; what happens inside libevent is not modelled.

Properties: a url that has an id is on its way in exactly one place, from
`recv_thread` to the end of its answer (`EveryRequestOnce`); the output file
lists urls in the order of their ids (`OutputIsIndex`); a link is recorded for
the page it stands on although callbacks of different pages share one queue
and no link of an answer that was read is forgotten (both `LinksExact`);
circles of links do not keep the crawler running (`Terminates`).

### Lines, Rio

`Lines` is what a reader promises: the text in order, a line or a block at a
time, a line too long for the caller's array in pieces, then the end.  `Rio` is
`rio_readlineb()`, as `socket_read_cb` calls it in a loop, and `rio_readnb()`,
both over `rio_read()`; the caller mixes them as it likes:

| action | code (`csapp.c`) |
|---|---|
| `Call`, `Full` | a call begins (914, 927); the array is full (875) |
| `Refill`, `Interrupted`, `ReadFails`, `ReadEOF` | the four outcomes of `read()` (808-819), `ReadEOF` with what `rio_readlineb()` and `rio_readnb()` make of it |
| `CopyByte` | one byte copied (822-828), and the end of the line at a newline (876-881) |
| `CopyBytes` | one turn of `rio_readnb()`: as many bytes as are there, or still wanted (822-828, 848-861) |

`ImplementsLines`: `Rio` implements `Lines`, its liveness included, with `rest`
mapped to what the call has stored, what is unread in the buffer, and what
`read()` has not returned.  An error ends the process, as in `Crawler`.

### RioSocket, OpenFd

`RioSocket` puts `rio_writen()` and `rio_readn()` at the ends of a connection
that holds a few bytes; a step is one call of `write()` or `read()`, of any
length, interrupted, failed, or at the end.  However the bytes are cut up, none
is lost, repeated or moved, and each call reports the number it transferred
(`TransferExact`); the two ends do not wait for each other for ever
(`TransferEnds`).

`OpenFd` is `open_clientfd()` and `open_listenfd()`: the walk along the addresses
found by `getaddrinfo()`, one system call per step, each of which may fail, and
the wrapper.  `DescriptorsExact`: a call leaves open the descriptor it returns
and no other (beside one that `close()` refused), `open_clientfd()` returns an
error only if no address worked, and the list is freed.  Where `close()` fails,
`open_clientfd()` returns without freeing the list; the property says so.

### Text, Utf8, Utf8Buffers

`Utf8` holds the functions of `utf8.h` as operators over sequences of bytes, a
pointer being an index and 0 the null pointer.  A walk over a string is a
recursion whose argument is the pointer; tables of letters are sets of ranges.
`Utf8Buffers` is a caller with two buffers, which writes strings with every
function that writes and asks `utf8valid()` before it lets one be read as
characters.  `Text` is what such a caller believes: strings are sequences of
characters, and a copy of at most n bytes is either a prefix or no text.

Properties: `Utf8Buffers` implements `Text` (`ImplementsText`); `utf8valid()`
accepts exactly the encodings, and points at the first byte of none
(`ValidExact`); the two tables of case are inverse to each other and keep the
size of a letter (`CaseExact`); the order of bytes is that of characters, and
comparisons with a limit do not look beyond it (`OrderExact`); the searches find
the first, or last, place and none within a character (`SearchesExact`); the
spans (`SpansExact`, section 6).

Met on the way, outside of what the properties promise: `utf8casecmp()` and
`utf8ncasecmp()` find the first difference in lower case but report the order
of the original code points there, so that "a" is before "b" and after "B"
although "b" and "B" are equal to it (no total order; `OrderExact` asks for
antisymmetry and for 0 only); `utf8ncat()` copies everything when n is 0 and
reads beyond an empty source; `utf8rchr()` compares beyond both NULs when the
string ends in the code point sought; `utf8valid()` accepts surrogates and code
points up to 2^21 - 1.  Validity of the other argument is the caller's duty.

### LineReader

`bupt_getline()` and the loop around it with which every program of lab1 to lab3
reads its files.  A file of whole lines gives its lines; of another file the
last character is lost (the comment at `lab3-patmatch/public.h:64` warns of such
files), and a byte 0xFF is taken for the end (`StringsAreLines`, which promises
nothing for files with that byte; UTF-8 has none).  The other models begin where
the lines have been read.

### Dictionary and the trees of lab2

`Dictionary` is a set of strings that grows; an insertion says whether its
string was new.  Each tree module keeps the tree the code keeps and the outcome
of the last insertion (`last`), and implements `Dictionary` with `stored` mapped
to the set of strings its search function finds (`...ImplementsDictionary` in
`MCTrees`).  An insertion is one step: the programs are sequential.

| module | the tree | strings | its own properties |
|---|---|---|---|
| `AVL` | nested records; `L_Rotate`, `R_Rotate`, `LeftBalance`, `RightBalance`, `InsertAVL`, `SearchAVL` | ranks: only their order matters; the greater string is to the left | `Balanced`: the factors kept by hand are the differences of the heights, and within -1..1 |
| `BPlusTree` | nodes at addresses, with C arrays that keep what was beyond `keynum`, parent pointers and the chain of leaves; `Insert` with its walk up the ancestors (`Ancestors`), `split`, `NewRoot`, `InsertB_Tree` (`Climb`), `InsertKey` | ranks, in descending order | `NodesInOrder`: keys are the greatest below their child, nodes are half full, all leaves are at one depth and chained in order |
| `Trie` | nodes at addresses, four children and four branch bits each | sequences of 2-bit digits | |
| `RadixTree` | records; the kinds of pointer (node, string, the mark 1, NULL) are their `kind`; `insert`, `shrink`, `search_tree` | sequences of 2-bit digits | |
| `Patricia` | records; `insert` with its critical bit, failed allocations, `contains` | sequences of bytes, a byte being the set of its 1 bits | `NodesAreCritical`: a node names the first bit in which the strings below it differ |

Two restrictions.  `Trie`: the constant `FirstLine` says what the first line of
the pattern file may be; with an empty first line the tree is wrong (section 6).
`RadixTree`: the dictionary is the one of the non-empty strings.  Empty lines are
inserted, in all orders, but what is answered for the empty string is not
promised, since the code answers wrongly in three ways: an inserted empty string
is forgotten when a first node overwrites the mark 1 in `t->root`; after later
insertions or `shrink()` a branch bit of the root that has nothing to do with the
empty string is taken for it; and a second empty line while `t->root` is the mark
dereferences it (phase "crashed", in which the model stays).  `insert()` of the
radix tree does not clear its nodes; nothing has been freed when they are
allocated, so their memory is fresh and zero, and the model has no garbage there.

### Matching, StrStr, Kmp

`Matching` defines where a pattern occurs, what `qsort()` may do with the records
of the results, and when these are right.  `StrStr` and `Kmp` are the programs
from the list of patterns to the sorted result: for one pattern after the other
`get_next()` (`Extend`, `Shorten`), then the scans, one turn of a loop per step
(`Scan`, `Rewind`), what follows the loop, where a match at the end of the text
is noticed (`Finish`), and the sort (`Output`).  Patterns are not empty; `next`
is not limited to its 23 places.

Properties: what `StrStr` has counted at any moment are the occurrences that
begin before the attempt under way, at the end all, and the sorted array has them
with their patterns (`NaiveExact`, which is `CountExact` of `StrStr`); `Kmp` does
the same (`CountExact`), and its tables have the longest border after which the
characters differ (`NextIsLongest`; `KmpExact` is both); the scans end, although
both go back in the text (`Terminates`: `Kmp` starts when `StrStr` has ended).

### AcAuto, CountTable

`AcAuto` has `build_pattern()` for one line after the other (`ReadLine`,
`FollowEdge` or `AddEdge` for each character, `EndOfLine`), `set_fs()` with its
queue (`SetFirstLevel`, then `Dequeue`, `NextEdge`, a walk along the fail states,
`SetFail`, until `EmptyQueue`), and `processing()` for each character of the text
(`ReadChar`, the same walk, `Match`; `EndOfText`).  A turn of a loop is a step;
the walk of `set_fs()` and that of `processing()` share the action `FallBack`.
Nodes carry, as history, the string that leads to them.  Instead of the list
`1` the root is known by its address.  The text ends with a NUL, as
`string.txt` does.

`CountTable` is the hash table the matches are counted in: `put()` with its
moves within a sorted bucket, and the rounds of `main()` that merge every second
bucket into the one before it.  A `merge()` is modelled turn by turn, and leaves
`*eb` pointing into the merged list (`Stale`), as the code does.  The hash
function is a constant.

Properties: the fail state of every node, once set, and the state while the text
is read, stand for the longest end that can still become a match
and match lists are complete as soon as they are merged, which needs the
breadth-first order (`FailIsLongest`); every occurrence is counted once
(`CountsExact`).  `CountsKept` has three parts: each pattern has one entry with
its number of matches, also in the middle of a merge; no bucket and no merge ever
gets out of order; the one list at the end has all entries.

### HashFunctions

The twelve functions in the arithmetic of 32 bits.  An `unsigned int` is the set
of the positions of its 1 bits: shifts move the positions, exclusive or is the
symmetric difference, addition carries the intersection until none is left,
multiplication adds shifted copies.  So the width is kept without numbers beyond
the checker's own integers.  A `char` is signed and extended, as on the
platforms the lab builds for; `MurmurHash2()` reads bytes, four at a time, the
lowest first.

Property `HashesTellApart`: a character changed anywhere changes the value of the
multiplicative hashes and of `MurmurHash2()`; its seeds give values of their own,
on which the rate of false answers of the Bloom filter rests; `PJWHash()` and
`ELFHash()` are one function of 28 bits, and `BPHash()` sees the last five
characters only.

### Membership, ArraySearch, HashTable, Bloom

`Membership` loads patterns and answers words.  `ArraySearch` and `HashTable`
implement it, one comparison per step; a chain of `HashTable` is the sequence of
array indexes its pointers lead through.  `Bloom` sets and tests one bit per step
in an array of bytes.  Hash functions, the size of the table, `m` and `k` are
constants of the modules, so that the theorems hold for all; the instances take
the functions from `HashFunctions`.  `Bloom` is loaded with at least one pattern,
without which the code has no filter.

Properties: chains hold exactly the patterns of their bucket, a search has passed
no equal pattern, and each word gets one answer (`IInv`); the searches implement
`Membership`; the filter denies no pattern (`NoPatternDenied`) and confirms a
word only when each of its bits is the bit of a pattern (`YesHasReasons`), which
a second position on the same bit would break.

## 4. Runs

Programs that never meet share a run: a variable says which of them a behaviour
runs (`MCTrees`, `MCText`, `MCHashTable`, `MCBloom`), or they run
one after the other (`StrStr` and `Kmp`, in `MCScans`).  The others stay in their initial
states.

| run | shows | instance |
|---|---|---|
| `queue` | safety and liveness of `SyncQueue`, and the refinement | 2 producers, 1 consumer, 2 nodes beside the dummy, 2 elements |
| `crawler` | safety and termination of the composed crawler | 4 pages |
| `crawler_finished`, `crawler_read_error`, `crawler_first_url` | disagreements, section 6 | 4 pages |
| `text` | `Rio` implements `Lines`; `LineReader` cuts a file into its lines; `RioSocket` transfers all; `OpenFd` leaves no descriptor behind; `Utf8Buffers` implements `Text`, and the functions of `utf8.h` are right | all texts up to 7 characters over a newline and another, a buffer of 3, an array of 5, blocks of 2; all files up to 5 characters over these and 0xFF; 7 bytes through a connection of 2, asked for by 3; up to 3 addresses (`MaxAddr`), 2 descriptors open before; buffers of 4 bytes and 6 code points of 1 to 4 bytes; all strings up to 4 bytes over 9 kinds of byte, and the code points up to 1023 |
| `utf8_spans` | a disagreement, section 6 | the buffers of `text` |
| `trees` | the five trees implement `Dictionary` and keep their shape; `UrlTrie` keeps what it is told and implements `UrlIndex`; the fail states, match lists and counts of `AcAuto`, a trie too | AVL: 7 strings; B+: 6, with nodes of 2 and of 4 keys; Trie and RadixTree: 7 strings of up to two bytes; PATRICA: 8 strings; url trie: 4 strings, 2 linking pages; the automaton: 6 lines, texts of up to 4 characters over 3 (`MaxText`) |
| `trie_empty_first` | a disagreement, section 6 | the same, any first line |
| `scans` | `StrStr` and `Kmp` count exactly and end; the tables of `Kmp` | all texts up to 6 and single patterns up to 5 characters over an alphabet of 2, and 2 lists of three patterns |
| `hash_table` | `HashTable` and `ArraySearch` implement `Membership`; `CountTable` keeps all counts | the real `APHash()` of 4 strings, 3 chains; up to 3 patterns (`MaxLines`) and 2 words (`MaxWords`); the table of counts: 5 patterns in 5 buckets, up to 3 matches (`MaxPuts`) |
| `bloom` | the filter's answers; the hash functions | the real `MurmurHash2()` of 5 strings, 10 bits, 2 seeds; up to 2 patterns and 2 words; 27 strings of 1 to 9 characters |

Bounds and why they are enough.  Two producers and one consumer are the roles
the program has (`send_queue` has two producers, `recv_queue` one; both have one
consumer).  Two nodes allow a queue of two elements, a node in the hands of a
producer or of the consumer beside a queued one, and recycling; the proofs
remove this bound.  The strings of the url trie include the empty one, a prefix of
another, and the same characters in another order, the cases in which the walk,
the creation of edges and the test at the root differ.  The pages link to
themselves, in a circle, twice to one url from two pages, and one is empty.  The
crawl is bounded by the number of urls; no counter is capped by a guard.  Seven
strings give an AVL tree of four levels and every rotation above other nodes; six
strings make a B+ tree with nodes of 2 keys split inner nodes twice, and with 4
keys there is more than one way to be half full (the code has 8).  The strings of
the tries part at different digits of a byte, begin others, and reach into a
second byte.  Patterns of 5 characters over 2 have borders of borders, texts of
6 hold overlapping occurrences.  The lines of the automaton are ends of each
other to the depth of two fail states; of the 5 buckets of counts two are empty, three
patterns share one, and the rounds have a bucket without a partner.  Three
patterns, of which some may be equal, share a chain of `hash_table`.  `MaxText`,
`MaxPuts`, `MaxLines` and `MaxWords` bound the input, in guards of the actions
that read it.

Texts of 7 characters are longer than two buffers of 3, and hold lines longer
than an array of 5; 7 bytes are no multiple of the 3 a call asks for, which are
more than the connection holds.  Of three addresses one may fail at each of the
three calls.  Two of the six code points share their first byte, two are the
cases of one letter in one byte sequence each, and buffers of 4 bytes hold the
longest code point or cut it at every byte.  The Bloom filter's strings have one
bit twice, the last bit of a byte, a bit of the second byte, and one is answered
"yes" without being a pattern.  Strings of 9 characters are more than two words
of `MurmurHash2()` and leave every remainder.

No run uses symmetry.

Fairness.  `SyncQueue`: a thread past `P()` keeps running, and so does the
consumer; that a thread waiting in `P()` eventually gets the semaphore is not
assumed.  `Crawler`: every thread and the event loop are scheduled (weak
fairness of each), because the operating system runs every runnable thread; the
server answers a request to its end, an assumption about the environment.
Failures (`SendOpenError`, `WriteError`) are never required.  `MCScans`: the
one sequential program keeps running (weak fairness of its next step).
`Rio`: `read()` is not interrupted for ever, and the server goes on sending or
closes, as in `Crawler`.  `RioSocket`: the same for `write()` and `read()` of each
end, which run in different processes (weak fairness of each); that a call works
is not required, but a `write()` to a reader that is gone does fail.

Deadlock is checked in all runs.  When a program has ended, the models
stutter explicitly (`Exited`, `Ended`, `Done`, `Crashed`).

Each property has a mutant in the module (a definition marked "Mutant:"),
recorded in `PROJECT.json`, under which TLC finds the property violated.

## 5. Proofs

### The queue

`SyncQueueProofs` proves for any number of producers, addresses and elements,
from `QueueAssumption` (the sets are disjoint, NULL is none of their members)
and `OneConsumer`:

| theorem | says |
|---|---|
| `InvariantIInv` | `Spec => []IInv` |
| `TypeCorrect`, `Exclusion`, `Ownership`, `WellFormed`, `NoNullPointer` | types, mutual exclusion, `EveryNodeOwned`, `ListWellFormed`, `NoNullDereference`, always |
| `QueueImplementsFifo` | `Spec => ImplementsFifo` |

`OneConsumer` (at most one thread polls a queue) is what makes the unlocked test
safe: with two consumers the second could find the queue empty after its test
and dereference NULL.  `main()` justifies it: it joins `send_thread_once`
(`bcrawler.c:190`) before it creates `send_thread` (`bcrawler.c:196`), and only
`recv_thread` polls `recv_queue`.

The inductive invariant `IInv` is TypeOK, MutualExclusion, EveryNodeOwned,
ListWellFormed and two strengthenings.  `TestStillHolds`: a consumer past its
test has a non-empty chain (only consumers shorten the chain, and there is one);
with `ListWellFormed` it gives `NoNullDereference`.  `FieldsFilled`: a node in
the queue, or in the hands of a producer, holds an element; it is what the
refinement needs to say what `result` receives.  `EveryNodeOwned` cannot be
dropped: that a write to a producer's own node leaves the list alone is exactly
that the node is not queued.  Each action of the proof has a step; the
refinement maps `EnqueueSwing` to `Put`, `DequeueTake` to `Take`, `DequeueEmpty`
to `TakeNothing` and every other step to a stutter.

### The crawler and its index

`CrawlerProofs` proves for every finite set of urls, any pages and any first url
(`CrawlerAssumption`; that `Url` is finite lets ids be counted), with a NULL that is
neither an element of a queue nor a callback (`NullAssumption`):

| theorem | says |
|---|---|
| `CrawlerInvariant` | `Spec => []CrawlerInv` |
| `TypeCorrect` | the types, always |
| `RequestsAreUnique` | `Spec => []EveryRequestOnce` |
| `OutputFollowsIndex` | `Spec => []OutputIsIndex` |
| `LinksAreExact` | `Spec => []LinksExact` |
| `IdsDense` | ids are 1, 2, 3, ... without gap or repetition, for every client of `UrlIndex` |
| `CrawlerIdsDense` | the crawler is such a client, so the same holds of its ids |
| `TrieInvariant` | `ASSUME TrieHypothesis PROVE UrlTrie's Spec => []TrieInv` |
| `TrieImplementsIndex` | the same with `ImplementsIndex` |
| `DumpsEveryLink` | the same with `[]DumpIsLinks` |

`EveryRequestOnce` counts places and says nothing of what a thread holds between
two steps, so it is not inductive.  `CrawlerInv` adds four parts.  `Threads`: what
each program counter implies (before the join nothing has reached `recv_thread`;
between the join and the second `Pthread_create()` nobody reads `send_queue`; `ri`
is the newest id while `recv_thread` prints and passes it on).  `Ids`: the ids of
the trie are dense.  `OnePlace`: the ids given out are the disjoint union of those
queued, in the hands of a sender, registered, in the callback, answered and in the
hands of `recv_thread`.  `RightUrl`: each of these requests asks for the url its
id stands for, without which a link could be recorded for another page.
`LinksKept` is `LinksExact` with the lines the running callback has read so far:
each of their links is in the trie or on its way there.  Each action has a lemma;
actions that move a request from one place to the next share `OnlyRequestsMove`,
those that touch nothing of it `NothingMoves`.

The last three are about the trie, for any strings and linking pages; their only
hypothesis (`TrieHypothesis`) is that strings are sequences of characters.
`ImplementsIndex` says nothing of the tree, so `TrieInv` adds three parts.
`Shape`: no two nodes have the same string, an edge labelled `c` leads from `s` to
`s` with `c` appended, to a node allocated later, and every node but the root is
the target of an edge; hence `state_goto` finds the child if there is one and
nothing else (`TrieGoto`).  `Kept`: the root alone has the tag, and the list of
every other node holds exactly the pages that the calls with its string passed,
each once.  `Walking`: the node a walk has come to is that of the part of the
string it has read.  `Call`, `FollowEdge` and `AddEdge` map to stutters: a new node
has a string that no node had and no PATTERN yet, so no entry changes.
`NewPattern`, `OldPattern` and `AtRoot` map to `PersistNew`, `PersistKnown` and
`PersistEmpty`; the first two share a lemma about the end of a call (`TrieEnds`).
That `dump_link` comes to every node (`TrieReached`) needs that parents are older
than their children: the oldest node outside of a set closed under the edges would
have its parent in it.  So the trie inherits `IdsDense`.

### The readers, the transfers and the descriptors

`IoProofs` proves for texts, files and contents that are any sequences:

| theorem | says | for every |
|---|---|---|
| `RioReturnsLines` | `Rio` starts and steps as `Lines` does: the safety part of `ImplementsLines` | size of the buffer, of the caller's array (2 at least) and of a block (`RioAssumption`) |
| `SocketTransfersAll` | `TransferExact`, always | capacity of the connection and size of a call (`SocketHypothesis`) |
| `OpenFdKeepsDescriptors` | `DescriptorsExact`, always | number of addresses; some descriptor beside 0 and 1 must exist (`FdHypothesis`) |
| `GetlineReturnsLines` | `StringsAreLines`, always | set of files (`FilesHypothesis`) |

The last three modules are used as instances, so their hypotheses stand in the
theorems.  `RioInv` ties the three variables of the buffer together: what is
unread ends where the buffer ends, and a line under way is as long as `n` says and
has no newline.  Then each byte copied moves from the front of what is unread to
the end of what is stored, and `rest` is the same text (`CopyMoves`).
`SocketInv` is `TransferExact` for a call under way: what was written is what was
read, is in the connection, or is in the array.  `FdInv` follows one descriptor:
until `connect()` or `bind()` works the call has none but the one it tries
(`Walking`), and what holds when it returns is a case of its own (`Returning`).
`LineInv` says that the strings, the characters of the line under way and the rest
of the file are the file (`Whole`), or that the last character is lost (`LastLost`).

What the sequence of all lines or blocks adds up to (`FlattenSeq` of the community
modules, a recursive function) is characterised by lemmas: `FlatExists`,
`FlatUnique` and `FlattenAppend`.  They rest on induction over the numbers, stated
for sets instead of operators (`SetInduction` of `MatchingProofs`), which follows
from `NatLessThanWellFounded` of the library.

### The matchers

`MatchingProofs` has lemmas about occurrences, borders and the sort, and
`ScanProofs` proves, for every set of texts and of lists of patterns that
`AreStrings` allows (`KmpAssumption`: no NUL in a string, no empty pattern, at
least one pattern):

| theorem | says |
|---|---|
| `KmpIsExact` | `Spec => []KmpExact` of `Kmp` |
| `NaiveCountExact` | `Spec => []CountExact` of `StrStr`, an instance over the same texts and patterns (`NaiveExact` of the run) |

`KmpInv` has a part for either phase.  `Building`: `j` is a border of what is
before `i`, and no longer one can be prolonged (`OnlyShorter`); a border of a
border is a border (`BorderOfBorder`), so the walk along `next` misses none, the
entries that `next` leaves out included, since the character after them is the
one that differed.  `Scanning`: all tables are full, and between the occurrence
counted last and the attempt under way there is none (`NothingSkipped`).  That
the records can be sorted, and that any order `qsort()` leaves is right, is
`SortedIsExact`.

### The automaton

`AcAutoProofs` proves for any lines and any text, of any length, whose characters
are not NUL (`AcAutoAssumption`):

| theorem | says |
|---|---|
| `AutomatonInvariant` | `Spec => []AutoInv` |
| `FallsBackToLongest` | `Spec => []FailIsLongest` |
| `CountsEveryOccurrence` | `Spec => []CountsExact` |

`FailIsLongest` says where the fail states lead, and nothing of how `set_fs()`
comes to know it, so it is not inductive.  `AutoInv` has these parts.

* `Trie`: a string has one node at most, and the edges lead along its characters.
  So `ac_goto()` finds a node exactly when its string is in the trie.
* `Lists` and `Fails`: a list never has a string that does not end its node's, and
  has all of them once the node has its fail state.  That what
  `merge_matchlist()` takes over completes the list is `EndsViaFail`: a pattern
  that ends the string of a node is that string or ends the fail state's.
* `Building`: while the lines are read no node has a fail state.
* `Breadth`: the queue holds nodes of two depths at most, the lesser first.  With
  `Closed` (a node is ready, or reached from one that is in the queue or being dealt
  with) it follows that everything less deep than the edge being dealt with is
  ready (`ReadyDownTo`).  This is why the walk never meets a missing fail state,
  and why the list it merges is complete: with a stack for the queue both fail.
* `Walk`: from none of the longer ends passed so far does the character lead on.
  Falling back keeps that, because a fail state is the longest proper end
  (`WalkOn`); where the walk stops is the deepest end of the longer string, for
  a fail state (`WalkFindsFail`) as for a state of the text (`WalkFindsState`).
* `Reading`: all nodes are ready, the state is the deepest that ends the text, and
  the counts are exact.  A character adds the occurrences that end with it
  (`OccurrencesGrow`), which are the strings the state lists, each once.

`merge_matchlist()` is a recursive function over the list; `MergedExists` shows that
it has the values its definition says, by the induction over sets of
numbers that `MatchingProofs` has.

### The hash table

`HashTableProofs` proves, for every set of strings, number of chains and hash
function (`HashAssumption`: the function has values below the number of chains),
that `IInv` is inductive (`InvariantIInv`), its parts `ChainsHoldAlways` and
`OneAnswer`, and `HashTableImplementsMembership`.  `IInv` joins `ChainsHold`
(what the build loop has chained), `SearchedInVain` (what the search has
passed), `OneAnswerEach` and the types.  The refinement maps `Load` to `Load` and
the three places that print an answer to `Search`: "yes" is right at the pattern
found, and "no" at the end of the chain is right because every pattern with the
word's hash is on the chain, by `ChainsHold`, and was passed, by
`SearchedInVain`.

The same module proves `ArraySearchImplementsMembership`, for every set of strings;
its invariant (`ArrayInv`) says that the patterns compared so far differ from the
word.

### The table of counts

`TableKeepsCounts`, in the same module, proves `CountsKept` of `CountTable` for
every set of patterns, number of buckets and hash function (`HashAssumption`), and
however many matches there are.  Its invariant `CountInv` has four parts.

* `Rounds`: `(group - 1) * stride < HASH_LENGTH <= group * stride`, with `2 * stride`
  while pairs are dealt with (`Covers`).  Hence each round leaves half of the
  buckets (`HalfAsMany`, `PairDone`, `NextRound`), a pair without a partner loses
  nothing, and with `group = 1` bucket 0 is the only one left (`AtEnd`).
* `Holding`: the entries of the buckets that are left, the two lists of a merge
  under way taken as one, are the patterns found with their counts, and no
  pattern has two.  A merge joins two lists (`Gathered`) and turns leave the
  same entries in another order (`Rearranged`).  What a bucket merged into
  another still points at does not matter: it is not looked at again (`Dropped`).
* `AtHome`: while the text is read a pattern is in the bucket of its hash, so
  `put()` finds it when it is there (`Counted`).
* `ListsInOrder`: the merged part followed by either rest is in order, which a turn
  keeps because the greater head is taken (`TurnSorted`).  In `put()` the list
  stays in order because what the moved entry passes has at most its new count,
  and what it stays behind at least that (`BehindIsRight`, `MovedIsSorted`).

### The Bloom filter

`BloomProofs` proves for every `m`, `k` and hash functions (`BloomAssumption`):
`FilterIsExact` (a position is set exactly when it is a pattern's, which rests on
`BitPlace`: byte and bit number tell positions apart), `NoFalseNegative` and
`YesIsJustified`.  Its inductive invariant adds where the two loops are, and that
the bits tested so far were set.

### Only model-checked

All liveness, which is out of the prover's reach: `Terminates` of the crawler and of
`Kmp`, `SemaphoreReleased`, `TransferEnds` and the fair part of `ImplementsLines`.

The modules whose walks are RECURSIVE operators: `AVL`, `BPlusTree`, `Trie`,
`RadixTree`, `Patricia`, `Utf8` and with it `Utf8Buffers`; what their
recursions compute for every input would need an induction over data that the
prover cannot instantiate.

`HashFunctions` computes with data: what it computes is checked for the inputs
listed in section 4, and was compared, value by value, with the compiled C
functions.

## 6. Disagreements found

* `crawler_finished`: `event_base_dispatch()` returns when no event is
  registered, which happens while a link of the last page is still in
  `recv_queue` or in a thread's hands; `main()` prints "finished" and the
  process ends with urls never requested (`bcrawler.c:199-201`).
* `crawler_read_error`: a non-blocking `read()` that has nothing yet is an error
  for `Rio_readlineb()`, which exits the process (`csapp.c:931`); the branch of
  `socket_read_cb` for that case (`bcrawler.c:61-63`) is never reached.
* `crawler_first_url`: the first url is given id 0 and never entered in the trie;
  a link to it gives it a second id and a second request.
* `trie_empty_first`: an empty first line makes a root whose position is that of
  the second digit (`Trie.h:65`); searches then branch on the wrong digit at the
  root.
* `utf8_spans`: `utf8cspn()` and `utf8spn()` notice a match with a code point of
  the set when the next one begins (`utf8.h:357`); one that is the last of the set
  is missed, so that `utf8cspn("a", "a")` is 1 and not 0.  `utf8pbrk()` has a test
  for this after its loop and is right.

The wrong answers of the radix tree for the empty string (section 3) are in the
model, outside of what `RadixTreeImplementsDictionary` promises.

## 7. Not modelled

lab4: `clear_queue` (never called) and `recv_thread_once` (never created); the
call of `dequeue` by `send_thread_once` on an empty queue (main always fills it
first); failed allocations outside `enqueue`; how lines are cut into links by
the regular expression and the fixed-size url buffer; libevent beyond its
events; the functions of `csapp.c` that wrap one system call each (most are never
called); `reg.c`.  `PATTERN.s` points into the queue element that `recv_thread`
frees; nothing reads it, and it is not in the models.

lab1 to lab3: the other input and output of the mains; the statistics they
count; the sizes of their arrays; `hashtable_evaluation.c`, which measures how
full buckets get; the formulas for `m` and `k` of the Bloom filter.  `utf8.h`:
`utf8coll` and `utf8fry` are declared but not defined.
