------------------------------ MODULE MCSymbol ------------------------------
(* The table of src/src/core/symbol.c as built: 102 entries of a 32-byte  *)
(* struct; the caller probes the ends of the table and a negative index.  *)
(* size_t is 64 bits on the build, past TLC's integers; 30 bits keep the  *)
(* wrap of a negative int (any width above 6 bits exceeds the struct).    *)
EXTENDS Symbol

MCProbes == {-1, 0, 6, SymValueNamesLen - 1, SymValueNamesLen, 2000}
MCBuflens == {-1, 0, 8, SizeofProps, 2 * SizeofProps}
=============================================================================
