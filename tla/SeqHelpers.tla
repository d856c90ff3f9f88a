----------------------------- MODULE SeqHelpers -----------------------------
(***************************************************************************)
(* Operations on a Rust Vec that the model needs and lemmas are proved     *)
(* about (in DataLemmas).                                                  *)
(***************************************************************************)
EXTENDS Integers, Sequences, SequencesExt

\* The elements of s at the indices in I, in order.  A recursive function, where
\* SelectSeq would do, because the provers cannot expand that.
KeepAt(s, I) ==
    LET kept[i \in 0..Len(s)] ==
            IF i = 0 THEN << >>
            ELSE IF i \in I THEN Append(kept[i - 1], s[i])
            ELSE kept[i - 1]
    IN  kept[Len(s)]

\* Those that are in T.
Keep(s, T) == KeepAt(s, {i \in DOMAIN s : s[i] \in T})

\* Vec::swap_remove: the last element takes the place of the removed one.
SwapRemove(s, i) == Front([s EXCEPT ![i] = Last(s)])
=============================================================================
