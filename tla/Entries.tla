------------------------------- MODULE Entries -------------------------------
(***************************************************************************)
(* The maps and vectors of the code, as functions and sequences.           *)
(***************************************************************************)
EXTENDS Naturals, Sequences, FiniteSets

\* emplace_back, or map[key] = entry
Extended(entries, key, entry) ==
    [k \in DOMAIN entries \cup {key} |-> IF k = key THEN entry ELSE entries[k]]

\* erase
Without(entries, gone) == [k \in DOMAIN entries \ gone |-> entries[k]]

(***************************************************************************)
(* The entries of a vector at the positions in keep, in their order: what  *)
(* is left when a loop has erased the others.  (SelectSeq is the same with *)
(* a test of the entries, and recursive.)                                  *)
(***************************************************************************)
\* The i-th position in keep: there are i positions in keep up to it.
Nth(keep, i) ==
    CHOOSE j \in keep : Cardinality({k \in keep : k <= j}) = i

Filtered(vector, keep) ==
    [i \in 1 .. Cardinality(keep) |-> vector[Nth(keep, i)]]

=============================================================================
