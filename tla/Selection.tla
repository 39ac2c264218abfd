------------------------------- MODULE Selection -------------------------------
(***************************************************************************)
(* Array.prototype.filter, flat and join and String.prototype.split,       *)
(* written so that they can be reasoned about: filter by the places that   *)
(* are kept, and all as recursive functions, whose definition a prover can *)
(* unfold. A text is a sequence of words.                                  *)
(***************************************************************************)
EXTENDS Naturals, Sequences

\* The elements of s at the places of I, in their order.
Select(s, I) ==
    LET upTo[n \in 0 .. Len(s)] ==
            IF n = 0 THEN <<>> ELSE IF n \in I THEN Append(upTo[n - 1], s[n]) ELSE upTo[n - 1]
    IN upTo[Len(s)]

\* The elements of the sequences of s, one sequence after the other.
Flat(s) ==
    LET upTo[n \in 0 .. Len(s)] == IF n = 0 THEN <<>> ELSE upTo[n - 1] \o s[n]
    IN upTo[Len(s)]

\* The last of the texts, with one word more.
Longer(texts, word) == [texts EXCEPT ![Len(texts)] = Append(texts[Len(texts)], word)]

\* The texts between the occurrences of a word; one more than these are.
Split(text, word) ==
    LET upTo[n \in 0 .. Len(text)] ==
            IF n = 0 THEN <<<<>>>>
            ELSE IF text[n] = word THEN Append(upTo[n - 1], <<>>) ELSE Longer(upTo[n - 1], text[n])
    IN upTo[Len(text)]

\* The texts with a word between them.
Join(texts, word) ==
    LET upTo[n \in 0 .. Len(texts)] ==
            IF n = 0 THEN <<>> ELSE IF n = 1 THEN texts[1] ELSE upTo[n - 1] \o <<word>> \o texts[n]
    IN upTo[Len(texts)]
=============================================================================
