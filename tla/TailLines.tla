------------------------------ MODULE TailLines ------------------------------
(***************************************************************************)
(* The two functions that cut a log to its last lines: lastLines of        *)
(* core/logtail/logtail.go, used by every client, and boundedLastLines of  *)
(* core/vpncore/passed_log.go, used by the daemon.  A log is a sequence of *)
(* bytes, of which only the newline matters.                               *)
(***************************************************************************)
EXTENDS Integers, Sequences, FiniteSets, FiniteSetsExt

CONSTANT NL

Newlines(data) == {i \in DOMAIN data : data[i] = NL}

Terminated(data) == data # <<>> /\ data[Len(data)] = NL

\* The lines from the newline at i (which ends the line before) to the end, as
\* the backward scan of lastLines counts them.
CountedAt(data, i) ==
  Cardinality({j \in Newlines(data) : j >= i}) + (IF Terminated(data) THEN 0 ELSE 1)

\* bytes.TrimLeft(data, "\n"): the whole of it is newlines, or the first other
\* byte is the first one kept.
TrimLeft(data) ==
  LET other == DOMAIN data \ Newlines(data)
  IN IF other = {} THEN <<>> ELSE SubSeq(data, Min(other), Len(data))

\* Mutant: a last line without a newline is not counted.
LastLinesUnterminated(data, max) ==
  LET cuts == {i \in Newlines(data) : Cardinality({j \in Newlines(data) : j >= i}) > max}
  IN IF max <= 0 \/ cuts = {} THEN data
     ELSE TrimLeft(SubSeq(data, Max(cuts) + 1, Len(data)))

\* Mutant: the cut is taken one line too early.
LastLinesShort(data, max) ==
  LET cuts == {i \in Newlines(data) : CountedAt(data, i) >= max}
  IN IF max <= 0 \/ cuts = {} THEN data
     ELSE TrimLeft(SubSeq(data, Max(cuts) + 1, Len(data)))

\* lastLines: everything behind the last newline at which the count exceeds max.
LastLines(data, max) ==
  LET cuts == {i \in Newlines(data) : CountedAt(data, i) > max}
  IN IF max <= 0 \/ cuts = {} THEN data
     ELSE TrimLeft(SubSeq(data, Max(cuts) + 1, Len(data)))

\* Where the pieces of bytes.SplitAfter begin, without an empty last one.
LineStarts(data) ==
  IF data = <<>> THEN {} ELSE {1} \cup {i + 1 : i \in Newlines(data) \ {Len(data)}}

\* Mutant: the bytes are cut after the lines were counted, at the front.
BoundedLastLinesFront(data, max, bytes) ==
  LET kept   == SubSeq(data, 1, IF Len(data) > bytes THEN bytes ELSE Len(data))
      starts == LineStarts(kept)
      late   == {s \in starts : Cardinality({r \in starts : r >= s}) <= max}
  IN IF late = {} THEN <<>> ELSE SubSeq(kept, Min(late), Len(kept))

\* boundedLastLines: first the last `bytes` bytes, then the last `max` lines of them.
BoundedLastLines(data, max, bytes) ==
  LET kept   == SubSeq(data, IF Len(data) > bytes THEN Len(data) - bytes + 1 ELSE 1, Len(data))
      starts == LineStarts(kept)
      late   == {s \in starts : Cardinality({r \in starts : r >= s}) <= max}
  IN IF late = {} THEN <<>> ELSE SubSeq(kept, Min(late), Len(kept))
=============================================================================
