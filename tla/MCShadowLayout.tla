--------------------------- MODULE MCShadowLayout ---------------------------
(* The address space shrunk to 2^14 bytes: slices of 2048, pages of 8, words *)
(* of 2.  As in the code, 8 * Slice is an odd power of two pages, which      *)
(* decides how the thirds are rounded.                                       *)
EXTENDS ShadowLayout

Stack == Bytes(16352, 16384)
Fixed == Bytes(24, 40)           \* a program linked at a fixed address
PIE   == Bytes(10928, 10944)     \* one linked to run anywhere, at 5555...
Libs  == Bytes(16288, 16320)
Libs2a == Bytes(5984, 6000)      \* the old layout of the address space
MCInitial == {{Stack, Fixed}, {Stack, PIE, Libs}, {Stack, Fixed, Libs2a},
              {Stack, Fixed, Bytes(6200, 6208)},        \* in the 3s
              {Stack, PIE, Bytes(6528, 6560)},          \* there, where a region will be
              {Stack, PIE, Bytes(12000, 12016)},        \* a heap far above the program
              {Stack, Fixed, Bytes(15040, 15056)}}      \* libraries above 7555...
\* No hint, two in the 2a range, one that the program may own, one in the 1s.
MCHints == {0, 5504, 6040, 10928, 2400}
=============================================================================
