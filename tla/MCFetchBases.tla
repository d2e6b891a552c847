---------------------------- MODULE MCFetchBases ----------------------------
(* FetchBases with up to three bases: see the .cfg files for the bounds. *)
EXTENDS FetchBases

(* Every scheme first, last and between two others. *)
Lists == {<<>>, <<"http">>, <<"file">>, <<"http", "http">>, <<"file", "http">>,
          <<"http", "file">>, <<"http", "foreign">>, <<"foreign", "http">>,
          <<"http", "file", "http">>}
=============================================================================
