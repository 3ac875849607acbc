--------------------------- MODULE MCProfileCache ---------------------------
(***************************************************************************)
(* ProfileCache for TLC.  Two models have the same base, so that their     *)
(* names depend on the order; the EEP's second point has the name its      *)
(* first gets when T is taken.  In half of the behaviors ModelCache has    *)
(* one entry only, which a model with another base may fill; that base     *)
(* begins like an EEP.                                                     *)
(***************************************************************************)
EXTENDS ProfileCache, TLC

CONSTANTS d1, d2, f1, f2, e1

SameBase == (f1 :> "base") @@ (f2 :> "base")
TwoBases == (f1 :> "base") @@ (f2 :> "C")
ShortCuts ==
    (f1 :> <<<<"T", <<>>>>>>) @@
    (f2 :> <<<<"T", <<>>>>>>) @@
    (e1 :> <<<<"T", <<>>>>, <<"T", <<1>>>>>>)

VARIABLE small

OneEntry == INSTANCE ProfileCache WITH
                BaseOf <- TwoBases,
                CM_CACHE_SIZE <- 1, MaxLines <- 2

MCInit == Init /\ small \in BOOLEAN
MCNext ==
    /\ (~small /\ Next) \/ (small /\ OneEntry!Next)
    /\ UNCHANGED small
MCSpec == MCInit /\ [][MCNext]_<<vars, small>>

Symmetry == Permutations(Ids)

\* NamesKeepMeaning for either size of ModelCache: a line's name is that of
\* the model its device sent in every reading of the files, also where
\* the cache has no room for every model.
NamesAlwaysMean == IF small THEN OneEntry!NamesKeepMeaning ELSE NamesKeepMeaning
=============================================================================
