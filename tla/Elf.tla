-------------------------------- MODULE Elf --------------------------------
(* zipelf.cpp: the sections of a program file, for the tools of the host and for the
   simulator alike. A file is its sequence of program headers; one whose "data" is
   empty is an empty header. *)
EXTENDS Naturals, Sequences, FiniteSets

(* elfread. Section i is the memory block that the non-empty headers before
   it leave free: an empty header shares the block of the next one. The end mark
   is put in the block of section number "sections counted". *)
NonEmpty(f) == {i \in DOMAIN f : f[i].data # <<>>}
BlockOf(f, i) == Cardinality({j \in NonEmpty(f) : j < i})
HeaderIn(f, blk) == CHOOSE i \in NonEmpty(f) : BlockOf(f, i) = blk
EndMark(f) == BlockOf(f, Cardinality(NonEmpty(f)) + 1)
IsEnd(f, i) == \/ i > Len(f)
               \/ BlockOf(f, i) = EndMark(f)
               \/ BlockOf(f, i) = Cardinality(NonEmpty(f))
SectionCount(f) == CHOOSE n \in 0..Len(f) : IsEnd(f, n + 1) /\ \A i \in 1..n : ~IsEnd(f, i)
elfread(f) == [i \in 1..SectionCount(f) |-> f[HeaderIn(f, BlockOf(f, i))]]
=============================================================================
