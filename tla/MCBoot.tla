------------------------------- MODULE MCBoot -------------------------------
(***************************************************************************)
(* Memory: sixteen frames of four bytes; low memory ends in frame 1, which *)
(* leaves the frames from 2; the framebuffer is at frame 13.  The heap has *)
(* three pages and wants four frames.                                      *)
(***************************************************************************)
EXTENDS Boot

Region(base, length, type) == [base_address |-> base, mem_length |-> length, region_type |-> type]
Bios == Region(0, 3, 1)

\* Enough, exactly enough behind an unaligned start, too little in two regions,
\* next to nothing, and enough with more beyond the 32 bit space.
Enough == <<Bios, Region(3, 1, 2), Region(4, 36, 1), Region(40, 8, 2)>>
Exact == <<Bios, Region(5, 19, 1)>>
Split == <<Bios, Region(4, 5, 1), Region(20, 5, 1)>>
One == <<Bios, Region(4, 4, 1)>>
Half == <<Bios, Region(4, 2, 1)>>
Beyond == <<Bios, Region(4, 24, 1), Region(48, 16, 2), Region(64, 30, 1)>>
MCHeap == 4..6

Entry(name, first, last) == [name |-> name, start |-> first, end |-> last]
MCUnused == Entry("", 0, 0)
Filler(n) == [k \in 1..n |-> Entry("EFI", k, k)]

\* No GPT; one without the partition; one with it in the second sector of
\* entries, twice.
NoGpt == [signed |-> FALSE, entries |-> <<>>]
Other == [signed |-> TRUE, entries |-> Filler(2)]
Ours2 == [signed |-> TRUE, entries |-> Filler(4) \o <<Entry("PYGMALI_OS", 7, 8), Entry("PYGMALI_OS", 9, 9)>>]

\* The interrupt bit is the lowest of a byte, translation bit 6.
Machine(map, d, c, s, p) == [map |-> map, disk |-> d, config |-> c, set |-> s, port |-> p]
MCMachines == {
  Machine(Enough, Ours2, 71, 2, 156), Machine(Exact, Ours2, 69, 1, 28), Machine(Split, Other, 5, 2, 28),
  Machine(One, NoGpt, 71, 1, 156), Machine(Half, Other, 71, 2, 28), Machine(Beyond, NoGpt, 69, 2, 156) }
Of(field) == {m[field] : m \in MCMachines}
MCMaps == Of("map")
MCDisks == Of("disk")
MCCommandBytes == Of("config")
MCKeyBytes == Of("port")
=============================================================================
