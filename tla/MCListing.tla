------------------------------- MODULE MCListing -------------------------------
(* A small share: two objects at the root and below one directory, and a      *)
(* directory inside it, whose parent can be listed by a prefix that cuts its  *)
(* name.                                                                      *)
EXTENDS Listing

MCKeys == {<<"a">>, <<"d", "/", "a">>, <<"d", "/", "b">>, <<"d", "/", "e", "/", "a">>}
MCOrder ==
    << <<"a">>, <<"d">>, <<"d", "/", "a">>, <<"d", "/", "b">>,
       <<"d", "/", "e">>, <<"d", "/", "e", "/", "a">> >>
MCPrefixes == {<<>>, <<"d">>, <<"d", "/", "e">>}

=============================================================================
