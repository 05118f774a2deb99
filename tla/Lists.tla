-------------------------------- MODULE Lists -------------------------------
(* Lists, where the standard modules have no definition a proof can expand. *)
EXTENDS Sequences, Integers

\* The elements of a list that are in a set, in their order: SelectSeq.
Only(seq, set) ==
    LET kept[i \in 0 .. Len(seq)] ==
            IF i = 0 THEN << >>
            ELSE IF seq[i] \in set THEN Append(kept[i - 1], seq[i]) ELSE kept[i - 1]
    IN  kept[Len(seq)]
=============================================================================
