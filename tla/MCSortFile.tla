----------------------------- MODULE MCSortFile -----------------------------
(***************************************************************************)
(* An instance of SortFile for TLC: files of up to five characters, read   *)
(* four at a time; those with a plus or an x are shorter.  Decimal has the *)
(* digits 0 and 1, hexadecimal also 2; an int has three bits, and str      *)
(* three characters and their zero.                                        *)
(***************************************************************************)
EXTENDS SortFile

CONSTANTS MaxLength, MaxPrefixed

FilesOf(characters, length) ==
  UNION {[1 .. n -> characters] : n \in 0 .. length}

ShortFiles ==
  FilesOf({1, 2, Space, Minus}, MaxLength)
    \union FilesOf({0, 2, X, Plus, Space}, MaxPrefixed)

=============================================================================
