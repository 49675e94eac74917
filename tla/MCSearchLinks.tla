---------------------------- MODULE MCSearchLinks ----------------------------
(* A small vault: notes of one name in two folders, one of them in two       *)
(* spellings, a note beside the folders, and links with and without a folder. *)
EXTENDS SearchLinks

Path(folder, name, case) == [folder |-> folder, name |-> name, case |-> case]

MCDocIds == <<Path(<<>>, "s", "lower"), Path(<<"x">>, "a", "upper"), Path(<<"x">>, "a", "lower"), Path(<<"y">>, "a", "lower")>>
MCTargets == {[folder |-> <<>>, name |-> "a"], [folder |-> <<"x">>, name |-> "a"]}
MCTexts == {{}, MCTargets}
=============================================================================
