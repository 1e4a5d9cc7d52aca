---------------------------- MODULE MCEntryQueue ----------------------------
(* A small instance of EntryQueue for TLC: two producers, two consumers, a *)
(* buffer of two entries and enough entries to write each buffer twice.    *)
EXTENDS EntryQueue, TLC

CONSTANTS e1, e2, e3, e4, e5, p1, p2, c1, c2

FiveEntries  == {e1, e2, e3, e4, e5}
TwoProducers == {p1, p2}
TwoConsumers == {c1, c2}

\* Entries and goroutines of a kind are interchangeable.
Symmetry == Permutations(Entries) \cup Permutations(Producers)
                \cup Permutations(Consumers)
=============================================================================
