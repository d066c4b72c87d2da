--------------------------- MODULE MCRequestFeed ---------------------------
(* The request list alone, on a table of a few rows, for what its pager does.  *)
EXTENDS RequestFeed
=============================================================================
