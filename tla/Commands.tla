------------------------------ MODULE Commands ------------------------------
(***************************************************************************)
(* The console of the echo programs: parser and command (command.h) and the *)
(* loop that reads lines (application::execute).  A line is a sequence of   *)
(* letters and of the three kinds of special characters.                    *)
(***************************************************************************)
EXTENDS Naturals, Sequences, SequencesExt, FiniteSetsExt, Functions

CONSTANTS
  Letters,      \* characters of words
  Split,        \* any of " ,:(){}[]="
  EndChar,      \* '\r', '\n', ';' and the final zero
  Comment,      \* '#'
  Registered,   \* names that application::execute has added
  Lines         \* what may be typed in a run

VARIABLES
  line,       \* the characters, the final zero included
  index, begin,
  encoding,   \* no comment is being skipped
  item,       \* words of the command that is being read
  parsing,    \* _parsing: the parameters of every command, by its name
  executed    \* calls of the functions that were added (history)

commandVars == <<line, index, begin, encoding, item, parsing, executed>>

NoCommands == [name \in {} |-> <<>>]

Init ==
  /\ line = <<>> /\ index = 1 /\ begin = 1
  /\ encoding = TRUE
  /\ item = <<>>
  /\ parsing = NoCommands
  /\ executed = <<>>

Parsing == index <= Len(line)

ReadLine(text) ==
  /\ line = <<>>
  /\ line' = Append(text, EndChar)
  /\ UNCHANGED <<index, begin, encoding, item, parsing, executed>>

\* The line and its parser go out of scope.
LineIsDone ==
  /\ line # <<>> /\ ~Parsing /\ parsing = NoCommands
  /\ line' = <<>> /\ index' = 1 /\ begin' = 1 /\ executed' = <<>>
  /\ UNCHANGED <<encoding, item, parsing>>

Char == line[index]
Advance == index' = index + 1 /\ UNCHANGED <<line, executed>>

\* The word that ends here, if there is one.
WithWord == IF begin # index THEN Append(item, SubSeq(line, begin, index - 1)) ELSE item

\* A word that touches the comment is lost with it.
CommentChar ==
  /\ Parsing /\ Char = Comment
  /\ encoding' = FALSE
  /\ Advance
  /\ UNCHANGED <<begin, item, parsing>>

\* A command that was named before gets the parameters added to its own.
WithCommand(words) ==
  IF words = <<>> THEN parsing
  ELSE LET name == words[1]
           known == IF name \in DOMAIN parsing THEN parsing[name] ELSE <<>>
       IN [n \in DOMAIN parsing \union {name} |-> IF n = name THEN known \o Tail(words) ELSE parsing[n]]

EndCharInComment ==
  /\ Parsing /\ Char = EndChar
  /\ parsing' = WithCommand(WithWord)
  /\ item' = <<>> /\ begin' = index + 1 /\ encoding' = TRUE
  /\ Advance

EndOfCommand ==
  /\ Parsing /\ Char = EndChar
  /\ parsing' = WithCommand(IF encoding THEN WithWord ELSE item)
  /\ item' = <<>> /\ begin' = index + 1 /\ encoding' = TRUE
  /\ Advance

SplitChar ==
  /\ Parsing /\ Char = Split /\ encoding
  /\ item' = WithWord
  /\ begin' = index + 1
  /\ Advance
  /\ UNCHANGED <<encoding, parsing>>

OtherChar ==
  /\ Parsing
  /\ Char \in Letters \/ (Char = Split /\ ~encoding)
  /\ Advance
  /\ UNCHANGED <<begin, encoding, item, parsing>>

\* The commands of a line are in an unordered map: they run in any order.  A
\* name that was not added is passed over.
Execute(name) ==
  /\ ~Parsing /\ name \in DOMAIN parsing
  /\ executed' = IF name \in Registered THEN Append(executed, <<name, parsing[name]>>) ELSE executed
  /\ parsing' = Restrict(parsing, DOMAIN parsing \ {name})
  /\ UNCHANGED <<line, index, begin, encoding, item>>

Next ==
  \/ \E text \in Lines : ReadLine(text)
  \/ CommentChar \/ EndOfCommand \/ SplitChar \/ OtherChar
  \/ \E name \in DOMAIN parsing : Execute(name)
  \/ LineIsDone

-----------------------------------------------------------------------------

Commented(at) ==
  \E c \in 1 .. at : line[c] = Comment /\ \A m \in c .. at : line[m] # EndChar

IsWord(first, last) ==
  /\ \A i \in first .. last : line[i] \in Letters
  /\ first > 1 => line[first - 1] \notin Letters
  /\ line[last + 1] \in {Split, EndChar}
  /\ ~Commented(first)

\* The words of the command that ends at an end character.
WordsBefore(end) ==
  LET inside(i) == \A m \in i .. end - 1 : line[m] # EndChar
      spans == {w \in (1 .. end - 1) \X (1 .. end - 1) : w[1] <= w[2] /\ inside(w[1]) /\ IsWord(w[1], w[2])}
      inOrder == SetToSortSeq(spans, LAMBDA v, w : v[1] < w[1])
  IN [i \in DOMAIN inOrder |-> SubSeq(line, inOrder[i][1], inOrder[i][2])]

\* The parameters a line gives to a command: those of all its mentions.
Meant(name) ==
  FoldLeft(LAMBDA params, end :
             LET words == WordsBefore(end)
             IN IF line[end] = EndChar /\ words # <<>> /\ words[1] = name THEN params \o Tail(words) ELSE params,
           <<>>, [i \in DOMAIN line |-> i])

MeantNames ==
  {WordsBefore(end)[1] : end \in {e \in DOMAIN line : line[e] = EndChar /\ WordsBefore(e) # <<>>}}

\* What runs, or is still to run, is every registered command that the line
\* names outside comments, once, with the parameters of all its mentions in
\* their order, whatever comments, separators and ends are between.
CommandsAreRight ==
  ~Parsing =>
    /\ \A name \in DOMAIN parsing : parsing[name] = Meant(name)
    /\ \A i, j \in DOMAIN executed : executed[i] = executed[j] => i = j
    /\ ToSet(executed) = {<<n, Meant(n)>> : n \in (MeantNames \intersect Registered) \ DOMAIN parsing}
    /\ DOMAIN parsing \subseteq MeantNames

=============================================================================
