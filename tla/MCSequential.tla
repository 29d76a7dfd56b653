---------------------------- MODULE MCSequential ----------------------------
(***************************************************************************)
(* The parts of library/ that one thread uses at a time, each on a small    *)
(* instance.  They do not act on each other: a run takes one of them, and   *)
(* the others stay where they start.  The hash table is the extended one,   *)
(* the others are instances, with the variables of their modules.           *)
(***************************************************************************)
EXTENDS HashTable

CONSTANTS k1, k2, k3

KeysHash == (k1 :> 0) @@ (k2 :> 4) @@ (k3 :> 2)

CONSTANTS
  Strings, Chars, Nul, Unknown, Small, SizeLimit, TextSizes,
  Vectors, Elements, RawCell, LengthLimit, ReserveCounts,
  Priorities, HeapLimit,
  WordBits, SetSize,
  Letters, Split, EndChar, Comment,
  Lists, Temporary, ListNodes, Heads, ListItems, NoList

\* No part but Text knows the strings, and it treats them alike.
Symmetry == Permutations(Strings)

GridSizes == {<<3, 2>>, <<2, 2>>}

Registered == {<<"a">>, <<"b">>}
\* Everything of up to four characters, and two commands with parameters.
Lines ==
  BoundedSeq({"a", "b", ",", ";", "#"}, 4) \union
  {<<c1, s1, c2, e1, c3, s2, c4>> :
     c1, c2, c3, c4 \in {"a", "b"}, s1, s2 \in {",", "#"}, e1 \in {",", ";"}}

VARIABLES
  which,   \* the part of this run
  memory, text,
  vector, content,
  heap, waiting,
  words, members, grid, cells,
  line, index, begin, encoding, item, parsing, executed,
  lists, links, elements

Str     == INSTANCE Text
Vec     == INSTANCE Vector
Heap    == INSTANCE PriorityQueue
Bit     == INSTANCE Bits
Command == INSTANCE Commands
Ring    == INSTANCE Lists

ASSUME Str!TextAssumption

Parts == {"HashTable", "Text", "Vector", "PriorityQueue", "Bits", "Commands", "Lists"}

sequentialVars ==
  <<which, vars,
    memory, text,
    vector, content,
    heap, waiting,
    words, members, grid, cells,
    line, index, begin, encoding, item, parsing, executed,
    lists, links, elements>>

SequentialInit ==
  /\ which \in Parts
  /\ Init /\ (which # "HashTable" => duplicate = FALSE)
  /\ Str!Init /\ Vec!Init /\ Heap!Init /\ Bit!Init /\ Command!Init
  /\ Ring!Init

SequentialNext ==
  /\ UNCHANGED which
  /\ IF which = "HashTable" THEN Next ELSE UNCHANGED vars
  /\ IF which = "Text" THEN Str!Next ELSE UNCHANGED <<memory, text>>
  /\ IF which = "Vector" THEN Vec!Next ELSE UNCHANGED <<vector, content>>
  /\ IF which = "PriorityQueue" THEN Heap!Next ELSE UNCHANGED <<heap, waiting>>
  /\ IF which = "Bits" THEN Bit!Next ELSE UNCHANGED <<words, members, grid, cells>>
  /\ IF which = "Commands" THEN Command!Next ELSE UNCHANGED <<line, index, begin, encoding, item, parsing, executed>>
  /\ IF which = "Lists" THEN Ring!Next ELSE UNCHANGED <<lists, links, elements>>

SequentialSpec == SequentialInit /\ [][SequentialNext]_sequentialVars

-----------------------------------------------------------------------------

\* The hash table implements Elements: no call loses, repeats or moves to
\* another node an element it was not asked to (hash_table.h:113, :155).  A
\* step of another part is not looked at, it leaves the table alone.
TableImplementsElements ==
  Promise!EInit /\ [][which = "HashTable" => Promise!ENext]_Promise!evars

\* The containers hold what was put in and nothing else, whatever calls they
\* get: the buckets of a hash table are runs of its ring, find finds what is
\* there and nothing else, and equal_range does when it is not led past the end
\* of the list; vector, string, list and heap keep their elements through every
\* growth, copy and move; the bits of a word are those that were set.
ContainersKeepContents ==
  CASE which = "HashTable"     -> BucketsAreRuns /\ LookupIsRight
    [] which = "Vector"        -> Vec!VectorHoldsContent
    [] which = "PriorityQueue" -> Heap!TopIsFirst
    [] which = "Text"          -> Str!TextIsKept
    [] which = "Lists"         -> Ring!ListsAreRings
    [] which = "Bits"          -> Bit!BitsAreRight
    [] OTHER                   -> TRUE

\* A typed line becomes the calls it says, with the parameters it says.
CommandsAreRight == which = "Commands" => Command!CommandsAreRight

=============================================================================
