------------------------------ MODULE MCFilters ------------------------------
(* A pattern with "**/" inside, and the files it is meant for.             *)
EXTENDS Filters

InnerPatterns == {<<>>, <<<<"d", "/", "*", "*", "/", "x">>>>}
SmallTree == {<<"x">>, <<"d", "/", "x">>, <<"d", "/", "d", "/", "x">>}
=============================================================================
