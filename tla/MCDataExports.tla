--------------------------- MODULE MCDataExports ---------------------------
(* DataExports for TLC: a table of one chunk, and rows after the last chunk. *)
EXTENDS DataExports

MCStops == <<"chunk", "table">>

============================================================================
