---------------------------- MODULE GraphSession ----------------------------
(***************************************************************************)
(* One memory, searched, prepared for and saved.  Searches and prepared    *)
(* views read what the mutations and the caches leave (GraphSearch); files *)
(* outlive the memory (GraphFiles).  A session does one of these; the      *)
(* sessions share no state that another would change.                      *)
(***************************************************************************)
EXTENDS GraphSearch, GraphFiles

CONSTANT Uses  \* bound: by session, the ids and records it stores, and how many

ASSUME SessionConstantsOK ==
  \A s \in DOMAIN Uses : /\ Uses[s].ids \subseteq Ids /\ Uses[s].records \subseteq Metadata
                         /\ Uses[s].nodes \in Nat

VARIABLE session   \* fixed

sessionVars == <<searchVars, files, session>>

SessionInit == SearchInit /\ FilesInit /\ session \in DOMAIN Uses

Searching ==
  \/ /\ answer = NoAnswer /\ session # "save"
     /\ \/ session = "views" /\ SearchViews
        \/ session = "policies" /\ SearchPolicies
        \/ session = "prepare" /\ PrepareOrSearch
        \/ Mutate \/ TrimCaches
  \/ Return

Saving == \/ Mutation /\ UNCHANGED files
          \/ Write \/ WriteStops \/ Load
          \/ \E sh \in Shapes : New(sh)

SessionNext ==
  /\ UNCHANGED session
  /\ \/ Searching /\ UNCHANGED files
     \/ session = "save" /\ Saving /\ UNCHANGED <<prepared, answer>>
  /\ Live' \subseteq Uses[session].ids /\ Cardinality(Live') <= Uses[session].nodes
  /\ \A i \in Live' : records'[i] \in Uses[session].records

SessionSpec == SessionInit /\ [][SessionNext]_sessionVars

=============================================================================
