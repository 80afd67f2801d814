------------------------------- MODULE Symbol -------------------------------
(***************************************************************************)
(* The symbol table of src/src/core/symbol.c, grid_symbol and             *)
(* grid_symbol_info, driven by the caller of src/t/symbol.c: it walks the *)
(* table with each function until the end is signalled, then probes       *)
(* single indexes and buffer lengths.                                     *)
(*                                                                         *)
(* Entries are abstracted to their index; a read outside the array is     *)
(* undefined behaviour and yields OOB. grid_symbol_info's buflen is a C   *)
(* int that memcpy receives as a 64-bit size_t.                           *)
(***************************************************************************)
EXTENDS Integers

CONSTANTS
  SymValueNamesLen,  \* entries in sym_value_names
  SizeofProps,       \* sizeof (struct grid_symbol_properties)
  Probes,            \* indexes the caller probes
  Buflens,           \* buffer lengths the caller passes
  SizeTWidth,        \* bits of size_t (64 on the build; see MCSymbol)
  NULL, OOB, EINVAL  \* model values

ASSUME SymValueNamesLen \in Nat \ {0} /\ SizeofProps \in Nat \ {0}

(* sym_value_names, entry k abstracted to k; SYM_VALUE_NAMES_LEN. *)
SymValueNames == [k \in 0..SymValueNamesLen - 1 |-> k]
SYM_VALUE_NAMES_LEN == SymValueNamesLen

(* Reading sym_value_names [i]: outside the array the value is undefined. *)
Read(i) == IF i \in DOMAIN SymValueNames THEN SymValueNames[i] ELSE OOB

(* memcpy's size_t parameter: the int converted modulo 2^SizeTWidth. *)
SizeT(n) == n % (2^SizeTWidth)

(* grid_symbol with the bounds test written i > SYM_VALUE_NAMES_LEN. *)
GridSymbolPastEnd(i) ==
  IF i < 0 \/ i > SYM_VALUE_NAMES_LEN
  THEN [name |-> NULL, errno |-> EINVAL]
  ELSE [name |-> Read(i), errno |-> 0]

(* grid_symbol: the name (here the entry) and errno. *)
GridSymbol(i) ==
  IF i < 0 \/ i >= SYM_VALUE_NAMES_LEN
  THEN [name |-> NULL, errno |-> EINVAL]
  ELSE [name |-> Read(i), errno |-> 0]

(* grid_symbol_info: the return value and the byte count given to memcpy. *)
GridSymbolInfo(i, buflen) ==
  IF i < 0 \/ i >= SYM_VALUE_NAMES_LEN
  THEN [ret |-> 0, copied |-> 0, entry |-> NULL]
  ELSE LET n == IF buflen > SizeofProps THEN SizeofProps ELSE buflen
       IN [ret |-> n, copied |-> SizeT(n), entry |-> Read(i)]

VARIABLES
  phase,    \* "names", "infos" or "probe": the caller's loop
  i,        \* the loop index
  namesEnd, \* the index at which grid_symbol returned NULL
  infosEnd, \* the index at which grid_symbol_info returned 0
  errno,    \* errno after the last grid_symbol call
  read,     \* the entry the last call read, or NULL
  copied    \* bytes the last grid_symbol_info passed to memcpy

vars == <<phase, i, namesEnd, infosEnd, errno, read, copied>>

Init ==
  /\ phase = "names" /\ i = 0
  /\ namesEnd = -1 /\ infosEnd = -1
  /\ errno = 0 /\ read = NULL /\ copied = 0

(* for (i = 0; ; ++i) if (grid_symbol (i, &value) == NULL) break; *)
NamesStep ==
  LET r == GridSymbol(i) IN
  /\ phase = "names"
  /\ errno' = r.errno /\ read' = r.name
  /\ IF r.name = NULL
     THEN phase' = "infos" /\ namesEnd' = i /\ i' = 0
     ELSE i' = i + 1 /\ UNCHANGED <<phase, namesEnd>>
  /\ UNCHANGED <<infosEnd, copied>>

(* for (i = 0; ; ++i) if (grid_symbol_info (i, &sym, sizeof (sym)) == 0) break; *)
InfosStep ==
  LET r == GridSymbolInfo(i, SizeofProps) IN
  /\ phase = "infos"
  /\ read' = r.entry /\ copied' = r.copied
  /\ IF r.ret = 0
     THEN phase' = "probe" /\ infosEnd' = i
     ELSE i' = i + 1 /\ UNCHANGED <<phase, infosEnd>>
  /\ UNCHANGED <<namesEnd, errno>> /\ (r.ret = 0 => UNCHANGED i)

(* Single calls such as grid_symbol (6, &value) or (-1, NULL). *)
Probe(j, b) ==
  /\ phase = "probe"
  /\ i' = j
  /\ \/ LET r == GridSymbol(j) IN
          errno' = r.errno /\ read' = r.name /\ UNCHANGED copied
     \/ LET r == GridSymbolInfo(j, b) IN
          read' = r.entry /\ copied' = r.copied /\ UNCHANGED errno
  /\ UNCHANGED <<phase, namesEnd, infosEnd>>

Next == NamesStep \/ InfosStep \/ \E j \in Probes, b \in Buflens : Probe(j, b)

Spec == Init /\ [][Next]_vars

-----------------------------------------------------------------------------

TypeOK ==
  /\ phase \in {"names", "infos", "probe"}
  /\ i \in Int /\ namesEnd \in Int /\ infosEnd \in Int
  /\ errno \in {0, EINVAL}
  /\ read \in {NULL, OOB} \cup DOMAIN SymValueNames
  /\ copied \in Nat

(* Both iterations of src/t/symbol.c stop exactly at the end of the      *)
(* table (grid_symbol with EINVAL), and no call of either function, in   *)
(* the loops or at a probed index, reads outside sym_value_names.        *)
TableBounds ==
  /\ read # OOB
  /\ phase = "infos" => namesEnd = SYM_VALUE_NAMES_LEN /\ errno = EINVAL
  /\ phase # "names" => namesEnd = SYM_VALUE_NAMES_LEN
  /\ phase = "probe" => infosEnd = SYM_VALUE_NAMES_LEN

(* grid_symbol_info copies at most one entry: it clamps buflen to the    *)
(* size of struct grid_symbol_properties before memcpy.                  *)
CopyBounded == copied <= SizeofProps

=============================================================================
