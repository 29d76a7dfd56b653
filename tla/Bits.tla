-------------------------------- MODULE Bits --------------------------------
(***************************************************************************)
(* library/bit.h: bit_set, of a fixed size or sized at construction, and    *)
(* bit_grid, as the words they keep, and the two searches for a power of    *)
(* two.  A word is the set of the positions of its ones.                    *)
(***************************************************************************)
EXTENDS Naturals, Sequences, FiniteSets, FiniteSetsExt

CONSTANTS
  WordBits,   \* 32 or 64
  SetSize,    \* size of every bit_set
  GridSizes   \* pairs <<width, height>> that set_size is called with

Two == {"left", "right"}   \* the sets of a program

VARIABLES
  words,     \* _array of each set
  members,   \* the positions each set should have (history)
  grid,      \* _width, _height and _vector of a grid
  cells      \* the cells of the grid that should be set (history)

bitVars == <<words, members, grid, cells>>

WordCount(size) == (size - 1) \div WordBits + 1
Word == 0 .. WordBits - 1
Positions == 0 .. SetSize - 1
Zeros(count) == [i \in 0 .. count - 1 |-> {}]

GridWords(area) == Zeros(area \div WordBits + (IF area % WordBits # 0 THEN 1 ELSE 0))

Init ==
  /\ words = [b \in Two |-> Zeros(WordCount(SetSize))]
  /\ members = [b \in Two |-> {}]
  /\ grid = [width |-> 0, height |-> 0, vector |-> Zeros(0)]
  /\ cells = {}

Difference(A, B) == (A \ B) \union (B \ A)
Written(array, at, value) ==
  [array EXCEPT ![at \div WordBits] = IF value THEN @ \union {at % WordBits} ELSE @ \ {at % WordBits}]

SetBit(b, at, value) ==
  /\ words' = [words EXCEPT ![b] = Written(@, at, value)]
  /\ members' = [members EXCEPT ![b] = IF value THEN @ \union {at} ELSE @ \ {at}]
  /\ UNCHANGED <<grid, cells>>

Flip(b, at) ==
  /\ words' = [words EXCEPT ![b][at \div WordBits] = Difference(@, {at % WordBits})]
  /\ members' = [members EXCEPT ![b] = Difference(@, {at})]
  /\ UNCHANGED <<grid, cells>>

Test(array, at) == at % WordBits \in array[at \div WordBits]

\* The operators that assign, word by word; & | and ^ do the same to a copy.
Become(b, array, set) ==
  /\ words' = [words EXCEPT ![b] = array]
  /\ members' = [members EXCEPT ![b] = set]
  /\ UNCHANGED <<grid, cells>>

And(b, c) ==
  Become(b, [i \in DOMAIN words[b] |-> words[b][i] \intersect words[c][i]], members[b] \intersect members[c])

Or(b, c) ==
  Become(b, [i \in DOMAIN words[b] |-> words[b][i] \union words[c][i]], members[b] \union members[c])

Xor(b, c) ==
  Become(b, [i \in DOMAIN words[b] |-> Difference(words[b][i], words[c][i])], Difference(members[b], members[c]))

Reset(b) == Become(b, Zeros(WordCount(SetSize)), {})

\* ~ clears the bits of the last word that are past the size.
Inverted(array) ==
  LET extra == SetSize % WordBits
      last == WordCount(SetSize) - 1
  IN [i \in DOMAIN array |->
        (Word \ array[i]) \intersect (IF i = last /\ extra # 0 THEN 0 .. extra - 1 ELSE Word)]

Complement(b, c) == Become(b, Inverted(words[c]), Positions \ members[c])

NotEmpty(array) == \E i \in DOMAIN array : array[i] # {}

SetGridSize(width, height) ==
  /\ grid' = [width |-> width, height |-> height, vector |-> GridWords(width * height)]
  /\ cells' = {}
  /\ UNCHANGED <<words, members>>

GridIndex(x, y) == x + grid.width * y
InBound(x, y) == x < grid.width /\ y < grid.height

SetGridBit(x, y, flag) ==
  /\ InBound(x, y)
  /\ grid' = [grid EXCEPT !.vector = Written(@, GridIndex(x, y), flag)]
  /\ cells' = IF flag THEN cells \union {<<x, y>>} ELSE cells \ {<<x, y>>}
  /\ UNCHANGED <<words, members>>

GetGridBit(x, y) == Test(grid.vector, GridIndex(x, y))

ClearGrid ==
  /\ grid' = [grid EXCEPT !.vector = [i \in DOMAIN @ |-> {}]]
  /\ cells' = {}
  /\ UNCHANGED <<words, members>>

Side == 0 .. Max({Max({s[1], s[2]}) : s \in GridSizes})

Next ==
  \/ \E b, c \in Two : And(b, c) \/ Or(b, c) \/ Xor(b, c) \/ Complement(b, c)
  \/ \E b \in Two :
       Reset(b) \/ \E at \in Positions : Flip(b, at) \/ \E v \in BOOLEAN : SetBit(b, at, v)
  \/ \E s \in GridSizes : SetGridSize(s[1], s[2])
  \/ \E x, y \in Side, flag \in BOOLEAN : SetGridBit(x, y, flag)
  \/ ClearGrid

-----------------------------------------------------------------------------

\* The loops of bit_ceil and bit_floor on a type of WordBits bits: result
\* doubles until it stops the loop; shifted past the top it is zero for ever.
\* The value zero stands for a loop that does not end: that of bit_ceil above
\* the top power, and that of bit_floor from it.
Powers == {2 ^ i : i \in Word}
Top == 2 ^ (WordBits - 1)
Doubled(result) == (result * 2) % (2 ^ WordBits)

StopsCeil(number) == {p \in Powers : ~(p < number)}
BitCeil(number) == IF StopsCeil(number) = {} THEN 0 ELSE Min(StopsCeil(number))

StopsFloor(number) == {p \in Powers : ~(Doubled(p) <= number)}
BitFloor(number) == IF StopsFloor(number) = {} THEN 0 ELSE Min(StopsFloor(number))

\* Every position of a set and every cell of a grid has a bit of its own, and
\* no bit past the size is ever one, whatever sequence of operations made the
\* set.  The searches for a power of two find the nearest one for the numbers
\* for which a word holds it; of the others nothing is said.
BitsAreRight ==
  /\ \A b \in Two :
       /\ \A at \in Positions : Test(words[b], at) <=> at \in members[b]
       /\ NotEmpty(words[b]) <=> members[b] # {}
  /\ \A x, y \in Side : InBound(x, y) => (GetGridBit(x, y) <=> <<x, y>> \in cells)
  /\ \A number \in 1 .. Top : BitCeil(number) = Min({p \in Powers : p >= number})
  /\ \A number \in 1 .. Top - 1 : BitFloor(number) = Max({p \in Powers : p <= number})

=============================================================================
