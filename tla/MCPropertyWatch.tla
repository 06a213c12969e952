--------------------------- MODULE MCPropertyWatch ---------------------------
(***************************************************************************)
(* Small instances of PropertyWatch for TLC.                               *)
(***************************************************************************)
EXTENDS PropertyWatch, TLC

SomeListings == {"for_sale", "sold"}
OneOrNoLimit == {1, NoLimit}

SameRequests == Permutations(Requests)
=============================================================================
