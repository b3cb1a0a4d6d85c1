------------------------------ MODULE MCStores ------------------------------
(***************************************************************************)
(* Instances of Stores for TLC.                                            *)
(***************************************************************************)
EXTENDS Stores

\* Two versions of one document, another, and one with a vector that is refused.
SomeDocuments == {[id |-> "a", vector |-> "v", meta |-> "x"],
                  [id |-> "a", vector |-> "w", meta |-> "x"],
                  [id |-> "b", vector |-> "u", meta |-> "x"],
                  [id |-> "b", vector |-> "nan", meta |-> "x"]}

TwoDocuments == {[id |-> "a", vector |-> "v", meta |-> "x"],
                 [id |-> "b", vector |-> "u", meta |-> "x"]}

Searches == [saves |-> FALSE, searches |-> TRUE,
             documents |-> SomeDocuments, metas |-> {"y"}, batch |-> 2, handles |-> 4,
             objects |-> 2]
Saves == [saves |-> TRUE, searches |-> FALSE,
          documents |-> TwoDocuments, metas |-> {}, batch |-> 1, handles |-> 3, objects |-> 3]

\* A store put together from foreign files, saved half way and loaded again.
Reloads == [Saves EXCEPT !.handles = 2, !.objects = 4]
Shared == [searches |-> Searches]
SharedTwo == [searches |-> [Searches EXCEPT !.documents = TwoDocuments]]
SharedOrSaved == [searches |-> Searches, saves |-> Saves, reloads |-> Reloads]

=============================================================================
