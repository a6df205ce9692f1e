---------------------------- MODULE MCPagination ----------------------------
(* Settings of Pagination for TLC: a token may be empty, malformed, negative,  *)
(* kept from another list, or beyond the end of this one.                      *)
EXTENDS Pagination

MCPageSizes == {-1, 0, 1, 2, 4}

MCTokens == {NoToken, Malformed, -1, 2, 7}
=============================================================================
