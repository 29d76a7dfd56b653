-------------------------------- MODULE Text --------------------------------
(***************************************************************************)
(* detail::string (library/string.h): a size, a capacity, and the cells in  *)
(* the object itself while the capacity is that of the small buffer, on the *)
(* heap afterwards.  Every string ends in a terminator that its size does   *)
(* not count; copying goes through the C string and stops at the first one. *)
(*                                                                          *)
(* Conversions between char and wchar_t (external) only change how many     *)
(* characters an argument has and are left out.  A cell whose content the   *)
(* code does not determine is Unknown.                                      *)
(***************************************************************************)
EXTENDS Naturals, Sequences, SequencesExt, FiniteSetsExt

CONSTANTS
  Strings,     \* the strings of a program
  Chars,       \* characters other than the terminator
  Nul,         \* the terminator, which may also stand inside a string
  Unknown,
  Small,       \* capacity of the small buffer
  SizeLimit,   \* characters of all strings together in a run
  TextSizes    \* arguments of reserve and resize in a run

TextAssumption ==
  /\ Small \in Nat \ {0} /\ SizeLimit \in Nat /\ TextSizes \subseteq Nat
  /\ {Nul, Unknown} \intersect Chars = {} /\ Nul # Unknown

VARIABLES
  memory,   \* _size, _capacity and cells of every string
  text      \* what each string should hold (history)

textVars == <<memory, text>>

EmptyString ==
  [size |-> 0, capacity |-> Small,
   cells |-> [i \in 1 .. Small |-> IF i = 1 THEN Nul ELSE Unknown]]

Init ==
  /\ memory = [s \in Strings |-> EmptyString]
  /\ text = [s \in Strings |-> <<>>]

\* memcpy and memmove of count cells from one index to another.
Copied(to, at, from, first, count) ==
  [i \in DOMAIN to |-> IF i \in at .. at + count - 1 THEN from[first + i - at] ELSE to[i]]

\* null()
Terminated(m) == [m EXCEPT !.cells[m.size + 1] = Nul]

Reserved(m, capacity) ==
  IF m.capacity >= capacity THEN m
  ELSE LET fresh == [i \in 1 .. capacity |-> Unknown]
           kept == IF m.capacity <= Small THEN m.size + 1 ELSE m.capacity
       IN [m EXCEPT !.capacity = capacity,
                    !.cells = Copied(fresh, 1, m.cells, 1, kept)]

Grown(m, size) == Reserved(m, Max({(m.capacity * 3) \div 2, size + 1}))

\* Room for count characters before index at; the tail moves behind them.
Opened(m, at, count) ==
  LET g == IF m.size + count >= m.capacity THEN Grown(m, m.size + count) ELSE m
  IN [g EXCEPT !.cells = Copied(@, at + count, @, at, m.size + 1 - at)]

Filled(m, at, source, count) ==
  Terminated([m EXCEPT !.cells = Copied(@, at, source, 1, count), !.size = @ + count])

\* What memcpy makes of the source when it goes to index at of its own cells:
\* a cell that it may have overwritten before it reads it has any content.
Overlapped(source, at) ==
  [i \in DOMAIN source |-> IF at > 1 /\ i >= at THEN Unknown ELSE source[i]]

\* The characters of the argument are read after the room was made, from the
\* memory the argument has then: a string inserted into itself, but not at its
\* ends, is copied over what is still to be read.
InsertString(s, at, t) ==
  LET count == memory[t].size
      room == Opened(memory[s], at, count)
      source == IF s = t THEN Overlapped(room.cells, at) ELSE memory[t].cells
  IN /\ Len(text[s]) + count <= SizeLimit /\ at <= Len(text[s]) + 1
     /\ memory' = [memory EXCEPT ![s] = Filled(room, at, source, count)]
     /\ text' = [text EXCEPT
          ![s] = SubSeq(@, 1, at - 1) \o (IF s = t THEN Overlapped(@, at) ELSE text[t])
                 \o SubSeq(@, at, Len(@))]

InsertChar(s, at, c) ==
  /\ Len(text[s]) < SizeLimit /\ at <= Len(text[s]) + 1
  /\ memory' = [memory EXCEPT ![s] = Filled(Opened(@, at, 1), at, <<c>>, 1)]
  /\ text' = [text EXCEPT ![s] = InsertAt(@, at, c)]

Erase(s, at) ==
  /\ at \in 1 .. Len(text[s])
  /\ memory' = [memory EXCEPT ![s] =
       Terminated([@ EXCEPT !.cells = Copied(@, at, @, at + 1, memory[s].size - at),
                            !.size = @ - 1])]
  /\ text' = [text EXCEPT ![s] = RemoveAt(@, at)]

\* The C string at data(): strlen finds the first terminator.
CString(m) == SubSeq(m.cells, 1, Min({i \in DOMAIN m.cells : m.cells[i] = Nul}) - 1)

Cleared(m) == Terminated([m EXCEPT !.size = 0])

UpToNul(t) == SelectInSeq(t, LAMBDA c : c = Nul)
Truncated(t) == IF UpToNul(t) = 0 THEN t ELSE SubSeq(t, 1, UpToNul(t) - 1)

\* operator=(string const&) clears first: a string assigned to itself has
\* nothing left to copy.  (The length of an undetermined text is not known.)
CopyAssign(s, t) ==
  LET cleared == Cleared(memory[s])
      source == CString(IF s = t THEN cleared ELSE memory[t])
      room == Opened(cleared, 1, Len(source))
  IN /\ Unknown \notin ToSet(Truncated(text[t]))
     /\ memory' = [memory EXCEPT ![s] = Filled(room, 1, source, Len(source))]
     /\ text' = [text EXCEPT ![s] = IF s = t THEN <<>> ELSE Truncated(text[t])]

\* operator=(string&&) frees the old cells and takes the other's.  Nobody moves
\* a string to itself: it would keep the cells it has just freed.
MoveAssign(s, t) ==
  LET emptied == Terminated([memory[t] EXCEPT !.size = 0, !.capacity = Small,
                                              !.cells = EmptyString.cells])
  IN /\ s # t
     /\ memory' = [memory EXCEPT ![s] = memory[t], ![t] = emptied]
     /\ text' = [text EXCEPT ![s] = text[t], ![t] = <<>>]

\* A constructor makes the string anew from nothing, a C string or another.
ConstructCopy(s, t) ==
  LET source == CString(memory[t])
  IN /\ s # t /\ Unknown \notin ToSet(Truncated(text[t]))
     /\ memory' = [memory EXCEPT
          ![s] = Filled(Opened(EmptyString, 1, Len(source)), 1, source, Len(source))]
     /\ text' = [text EXCEPT ![s] = Truncated(text[t])]

\* operator+ reserves for the sum and appends both; here the sum replaces s.
Plus(s, t, u) ==
  LET sum == memory[t].size + memory[u].size
      first == Filled(Opened(Reserved(EmptyString, sum + 1), 1, memory[t].size),
                      1, memory[t].cells, memory[t].size)
      both == Opened(first, first.size + 1, memory[u].size)
  IN /\ sum <= SizeLimit
     /\ memory' = [memory EXCEPT ![s] = Filled(both, first.size + 1, memory[u].cells, memory[u].size)]
     /\ text' = [text EXCEPT ![s] = text[t] \o text[u]]

Reserve(s, n) ==
  /\ memory' = [memory EXCEPT ![s] = Reserved(@, n)]
  /\ UNCHANGED text

\* A larger size uncovers the old terminator and what lies behind it.
Resize(s, n) ==
  LET room == IF n >= memory[s].capacity THEN Grown(memory[s], n) ELSE memory[s]
      open == [i \in 1 .. n |-> IF i <= Len(text[s]) THEN text[s][i]
                                ELSE IF i = Len(text[s]) + 1 THEN Nul ELSE Unknown]
  IN /\ n <= SizeLimit
     /\ memory' = [memory EXCEPT ![s] = Terminated([room EXCEPT !.size = n])]
     /\ text' = [text EXCEPT ![s] = open]

Clear(s) ==
  /\ memory' = [memory EXCEPT ![s] = Cleared(@)]
  /\ text' = [text EXCEPT ![s] = <<>>]

Swap(s, t) ==
  /\ memory' = [memory EXCEPT ![s] = memory[t], ![t] = memory[s]]
  /\ text' = [text EXCEPT ![s] = text[t], ![t] = text[s]]

\* operator==
Equal(m, n) == m.size = n.size /\ SubSeq(m.cells, 1, m.size) = SubSeq(n.cells, 1, n.size)

TextsTogether == FoldSet(LAMBDA s, n : n + Len(text[s]), 0, Strings)

Next ==
  /\ \E s \in Strings :
       \/ \E at \in 1 .. SizeLimit + 1 :
            \/ Erase(s, at)
            \/ \E c \in Chars \union {Nul} : InsertChar(s, at, c)
            \/ \E t \in Strings : InsertString(s, at, t)
       \/ \E t, u \in Strings : Plus(s, t, u)
       \/ \E t \in Strings :
            CopyAssign(s, t) \/ MoveAssign(s, t) \/ ConstructCopy(s, t) \/ Swap(s, t)
       \/ \E n \in TextSizes : Reserve(s, n) \/ Resize(s, n)
       \/ Clear(s)
  /\ TextsTogether' <= SizeLimit

-----------------------------------------------------------------------------

\* What a string holds is what was put into it, through growth, moving tails,
\* copies and moves between small and large buffers, and insertion into itself
\* (in its middle only what lies before that place is copied for certain); the
\* terminator follows it, inside the capacity; and equality is equality.
TextIsKept ==
  /\ \A s \in Strings :
       LET m == memory[s] IN
         /\ m.size = Len(text[s]) /\ m.size < m.capacity /\ Len(m.cells) = m.capacity
         /\ m.cells[m.size + 1] = Nul
         /\ \A i \in DOMAIN text[s] : text[s][i] \in {Unknown, m.cells[i]}
  /\ \A s, t \in Strings :
       Unknown \notin ToSet(text[s] \o text[t]) =>
         (Equal(memory[s], memory[t]) <=> text[s] = text[t])

=============================================================================
