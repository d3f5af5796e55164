----------------------------- MODULE MCTailLines -----------------------------
(* Every sequence of at most MaxLen bytes, written one byte at a time.      *)
EXTENDS TailLines, SequencesExt

CONSTANTS MaxLen, MaxBytes, MaxKept, Byte

VARIABLES data

\* The number of lines of a log, the last one counted even without a newline.
LineCount(s) == Cardinality(Newlines(s)) + (IF s = <<>> \/ Terminated(s) THEN 0 ELSE 1)

\* The last n lines of s by definition: the longest suffix that begins at a line
\* and has at most n lines.
TailOf(s, n) ==
  LET begins == {k \in 1..(Len(s) + 1) : k = 1 \/ s[k - 1] = NL}
      fit    == {k \in begins : LineCount(SubSeq(s, k, Len(s))) <= n}
  IN SubSeq(s, Min(fit), Len(s))

Init == data = <<>>
Next == Len(data) < MaxLen /\ \E b \in {Byte, NL} : data' = Append(data, b)
Spec == Init /\ [][Next]_data

\* lastLines keeps exactly the last maxLines lines; blank lines in front of them
\* are dropped only when something was cut, a log that fits is left alone.
LastLinesIsTail ==
  \A n \in 1..MaxKept :
    LastLines(data, n) = IF LineCount(data) <= n THEN data ELSE TrimLeft(TailOf(data, n))

\* A log may be cut piece by piece: what an earlier cut dropped, blank lines
\* included, never shows in a later one. Bounded appends rely on it.
CutsCompose ==
  \A n \in 1..MaxKept : \A k \in 0..Len(data) :
    LET once  == LastLines(data, n)
        twice == LastLines(LastLines(SubSeq(data, 1, k), n) \o SubSeq(data, k + 1, Len(data)), n)
    IN /\ LineCount(twice) <= n
       /\ IsSuffix(twice, data)
       /\ TrimLeft(twice) = TrimLeft(once)

\* boundedLastLines returns a suffix of at most maxBytes bytes and maxLines lines,
\* and keeps every whole line that fits in both limits.
BoundedIsTail ==
  \A n \in 1..MaxKept :
    LET r == BoundedLastLines(data, n, MaxBytes)
    IN /\ IsSuffix(r, data) /\ Len(r) <= MaxBytes /\ LineCount(r) <= n
       /\ Len(TailOf(data, n)) <= MaxBytes => r = TailOf(data, n)
       /\ Len(r) < MaxBytes => r = TailOf(data, n)
=============================================================================
