----------------------------- MODULE SessionText ------------------------------
(***************************************************************************)
(* How pi_agent_bridge/service.py reads a native session file while Pi     *)
(* goes on writing it: the bounded tail of poll() and recent_session_tail  *)
(* (_read_session_tail), and search_session (_search_session_context).     *)
(*                                                                         *)
(* The file is a text whose first bytes are on disk so far: a reader may   *)
(* find its last character cut.  A character is one of a few kinds, which  *)
(* differ in what the code depends on: the bytes of its UTF-8 form, and    *)
(* what casefold() makes of it.                                            *)
(*                                                                         *)
(* A definition introduced by "Mutant:" is not part of the model, but a    *)
(* plausible bug in the definition that follows it.                        *)
(***************************************************************************)
EXTENDS Naturals, SequencesExt

CONSTANTS
  Alphabet,   \* the characters Pi writes, out of Characters
  MaxText,    \* the length of a file (bound)
  MaxChars,   \* the largest max_chars asked for (bound)
  Keywords    \* the stripped keywords searched for, without line breaks

\* "wide" stands for an emoji, "sz" for the sharp s, "?" for U+FFFD.
Characters == {"x", "X", "s", "newline", "sz", "wide"}

ASSUME SessionAssumption ==
  /\ Alphabet \subseteq Characters
  /\ MaxText \in Nat /\ MaxChars \in Nat \ {0}
  /\ \A k \in Keywords : k \in Seq(Characters \ {"newline"}) /\ k # <<>>

VARIABLES
  text,     \* all that Pi ever writes to the file
  size,     \* how many bytes of it are on disk
  reader    \* what the reader does, and what it got

vars == <<text, size, reader>>

-----------------------------------------------------------------------------
\* Bytes of a character in UTF-8.
Width(c) == CASE c = "wide" -> 4 [] c = "?" -> 3 [] c = "sz" -> 2 [] OTHER -> 1

ByteCount(t) == FoldLeft(LAMBDA n, c : n + Width(c), 0, t)

\* casefold(): one character may become two.
Casefold(t) ==
  FlattenSeq([i \in DOMAIN t |->
    CASE t[i] = "X" -> <<"x">> [] t[i] = "sz" -> <<"s", "s">> [] OTHER -> <<t[i]>>])

(***************************************************************************)
(* decode("utf-8", errors="replace") of the bytes from .. to - 1 of t.  A  *)
(* character whose first byte is missing gives one U+FFFD for each byte    *)
(* left of it; one that is cut short gives a single one.                   *)
(***************************************************************************)
Decode(t, from, to) ==
  LET First(i) == ByteCount(SubSeq(t, 1, i - 1))
      End(i) == First(i) + Width(t[i])
      Inside(i) == {b \in First(i)..(End(i) - 1) : from <= b /\ b < to}
      Piece(i) ==
        CASE Inside(i) = {} -> <<>>
          [] First(i) < from -> [j \in 1..Cardinality(Inside(i)) |-> "?"]
          [] First(i) >= from /\ End(i) <= to -> <<t[i]>>
          [] OTHER -> <<"?">>
  IN FlattenSeq([i \in DOMAIN t |-> Piece(i)])

\* Python's s[-n:], all of s for n = 0.
LastOf(s, n) == IF n = 0 \/ n >= Len(s) THEN s ELSE SubSeq(s, Len(s) - n + 1, Len(s))

\* Python's s[from - 1:to].
Slice(s, from, to) == SubSeq(s, from, IF to < Len(s) THEN to ELSE Len(s))

\* Python's a - b where the code takes max(0, a - b).
Minus(a, b) == IF a >= b THEN a - b ELSE 0

\* Mutant: a character has at most three bytes.
NarrowWindow(total, n) == Minus(total, 3 * n)

\* Where the reader of n characters starts: no character has more than four bytes.
WindowStart(total, n) == Minus(total, 4 * n)

-----------------------------------------------------------------------------
\* The lines a text file gives, with their line breaks.
LinesOf(t) ==
  LET Breaks == {i \in DOMAIN t : t[i] = "newline" \/ i = Len(t)}
      Ends == SetToSortSeq(Breaks, <)
  IN [k \in DOMAIN Ends |-> SubSeq(t, IF k = 1 THEN 1 ELSE Ends[k - 1] + 1, Ends[k])]

\* str.find, from 1; 0 if there is none.
Find(t, k) ==
  LET At == {i \in DOMAIN t : Slice(t, i, i + Len(k) - 1) = k}
  IN IF At = {} THEN 0 ELSE CHOOSE i \in At : \A j \in At : i <= j

\* Mutant: the text before a line is not kept.
NothingRolls(lines, limit) == [i \in 0..Len(lines) |-> <<>>]

\* The end of what came before each line, which the search keeps as "rolling".
Rolling(lines, limit) ==
  LET kept[i \in 0..Len(lines)] ==
        IF i = 0 THEN <<>> ELSE LastOf(kept[i - 1] \o lines[i], limit)
  IN kept

\* _search_session_context: the first line that matches together with what is
\* kept of the lines before it, and as much as is needed of the lines after it.
Search(t, keyword, n) ==
  LET limit == n \div 2
      lines == LinesOf(t)
      rolling == Rolling(lines, limit)
      combined == [i \in DOMAIN lines |-> rolling[i - 1] \o lines[i]]
      Index(i) == Find(Casefold(combined[i]), Casefold(keyword))
      hits == {i \in DOMAIN lines : Index(i) > 0}
  IN IF hits = {} THEN <<>>
     ELSE LET i == CHOOSE h \in hits : \A j \in hits : h <= j
              c == combined[i]
              at == Index(i)
              end == at + Len(keyword)
              before == Slice(c, IF at > limit THEN at - limit ELSE 1, at - 1)
              after == Slice(c, end, Len(c))
                         \o FlattenSeq(SubSeq(lines, i + 1, Len(lines)))
          IN Slice(before \o Slice(c, at, end - 1) \o Slice(after, 1, n - limit), 1, n)

-----------------------------------------------------------------------------
Resting == [at |-> "idle"]

Init ==
  /\ text \in UNION {[1..n -> Alphabet] : n \in 0..MaxText}
  /\ size = 0
  /\ reader = Resting

\* Pi writes: its bytes may reach the file in pieces that split a character.
PiWrites ==
  /\ size < ByteCount(text)
  /\ size' = size + 1
  /\ UNCHANGED <<text, reader>>

\* The reader of a tail of n characters asks for the size of the file.
TailStats(n) ==
  /\ reader.at = "idle"
  /\ reader' = [at |-> "sized", n |-> n, total |-> size]
  /\ UNCHANGED <<text, size>>

\* It reads from its window to the end, which may have moved.
TailReads ==
  /\ reader.at = "sized"
  /\ LET tail == LastOf(Decode(text, WindowStart(reader.total, reader.n), size), reader.n)
     IN reader' = [at |-> "read", n |-> reader.n, total |-> reader.total,
                   tail |-> tail, start |-> Minus(reader.total, ByteCount(tail)),
                   end |-> size]
  /\ UNCHANGED <<text, size>>

\* search_session reads the file from its beginning.
SearchReads(keyword, n) ==
  /\ reader.at = "idle"
  /\ reader' = [at |-> "searched", n |-> n, keyword |-> keyword, end |-> size,
                found |-> Search(Decode(text, 0, size), keyword, n)]
  /\ UNCHANGED <<text, size>>

\* The result is handed out.
Returns ==
  /\ reader.at \in {"read", "searched"}
  /\ reader' = Resting
  /\ UNCHANGED <<text, size>>

Next ==
  \/ PiWrites
  \/ \E n \in 1..MaxChars : TailStats(n) \/ \E k \in Keywords : SearchReads(k, n)
  \/ TailReads
  \/ Returns

Spec == Init /\ [][Next]_vars

-----------------------------------------------------------------------------
\* All of the file as it was when the reader read it.
Seen == Decode(text, 0, reader.end)

\* Whether the last character was cut at that moment.
Cut == Seen # <<>> /\ Last(Seen) = "?"

(***************************************************************************)
(* A tail is the last n characters of the file as it is when it is read,   *)
(* although the window may begin inside a character and the file may have  *)
(* grown since its size was asked.  If it has not grown and ends with a    *)
(* whole character, the reported start is the tail's place in the file,    *)
(* and so has_more (start > 0) tells whether there is more.                *)
(***************************************************************************)
TailIsTail ==
  reader.at = "read" =>
    /\ reader.tail = LastOf(Seen, reader.n)
    /\ reader.end = reader.total /\ ~Cut =>
         /\ reader.start = ByteCount(Seen) - ByteCount(reader.tail)
         /\ reader.start > 0 <=> Len(Seen) > reader.n

\* Letters of either case are the same to a search.
Same(c, d) == Casefold(<<c>>) = Casefold(<<d>>)

\* The places where a keyword stands, letter by letter.
Places(t, k) ==
  {i \in DOMAIN t : i + Len(k) - 1 <= Len(t)
                    /\ \A j \in DOMAIN k : Same(t[i + j - 1], k[j])}

\* The text around place i: up to half of n characters before it, the rest
\* after it, n in all.
Around(t, k, n, i) ==
  LET from == IF i > n \div 2 THEN i - n \div 2 ELSE 1
      to == i + Len(k) - 1 + (n - n \div 2)
  IN Slice(t, from, IF to < from + n - 1 THEN to ELSE from + n - 1)

(***************************************************************************)
(* Reading line by line with a rolling rest, the search finds what a       *)
(* search of the whole text would: the first place of the keyword, with    *)
(* the text around it, across line breaks.  Texts with a letter that       *)
(* casefold() makes longer are the exception: the code takes places in the *)
(* folded text for places in the text (README, section 6).                 *)
(***************************************************************************)
SearchFindsFirst ==
  reader.at = "searched" /\ (\A i \in DOMAIN Seen : Seen[i] # "sz") =>
    LET P == Places(Seen, reader.keyword)
    IN reader.found =
         IF P = {} THEN <<>>
         ELSE Around(Seen, reader.keyword, reader.n, CHOOSE i \in P : \A j \in P : i <= j)
===============================================================================
