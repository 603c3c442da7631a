---------------------------- MODULE MCDirEntries ----------------------------
(***************************************************************************)
(* Instances of DirEntries for TLC.  Three names, one of them a directory, *)
(* in three slots; an entry takes 3 or 4 of the 7 bytes and the list's end *)
(* one, so that two entries fill the buffer to the last byte, another two  *)
(* miss it by one byte, and a scan needs several rounds.                   *)
(***************************************************************************)
EXTENDS DirEntries

MCNames    == {<<"a">>, <<"b">>, <<"c", "c">>}
MCDirNames == {<<"a">>}
Terminated == {<<>>}
Padded     == {<<>>, <<"x">>, <<"x", "y">>}

=============================================================================
