----------------------------- MODULE MCAgnoStore -----------------------------
(***************************************************************************)
(* Instances of AgnoStore for TLC.                                         *)
(***************************************************************************)
EXTENDS AgnoStore, TLC

\* Two documents of one text, told apart by name and content id, and one of
\* another.
TwinA == [base |-> "a", name |-> "n1", content_id |-> "c1", meta |-> {"x"}]
TwinB == [base |-> "a", name |-> "n2", content_id |-> "c2", meta |-> {"x"}]
Other == [base |-> "b", name |-> NoName, content_id |-> "c1", meta |-> {}]
Twins == {TwinA, TwinB}
AllDocuments == {TwinA, TwinB, Other}

\* Coroutines that run at once; one that waits while the store is dropped;
\* batches, saves and drops without them.
Coroutines == [path |-> FALSE, drop |-> FALSE, tasks |-> 2, hashes |-> 2, batch |-> 1]
Drops == [path |-> FALSE, drop |-> TRUE, tasks |-> 1, hashes |-> 2, batch |-> 1]
Saves == [path |-> TRUE, drop |-> TRUE, tasks |-> 0, hashes |-> 1, batch |-> 2]
CallsAndSaves == [calls |-> Coroutines, drops |-> Drops, saves |-> Saves]
OnlyCalls == [calls |-> Coroutines]
OnlyDrops == [drops |-> Drops]

Symmetry == Permutations(Tasks) \cup Permutations(Hashes)

=============================================================================
