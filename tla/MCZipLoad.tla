---------------------------- MODULE MCZipLoad ----------------------------
(* Small files and chips for ZipLoad: pages of two words of two bytes. *)
EXTENDS ZipLoad
CONSTANT b
o == {b}
z == {}
Flash(a, d) == [dev |-> "flash", start |-> a, data |-> d]
Ram(a, d) == [dev |-> "bkram", start |-> a, data |-> d]
(* One file crosses a page; one crosses a sector, with a gap, and has an empty header at
   its end, as ELF files do; one ends in the middle of a word, one does so alone in its page
   and has sections over one another, in block memory by the rest of a word; one does not fit, and
   one has a section that does not start at a word. *)
SixFiles ==
    {<<Ram(0, <<z, o>>), Flash(0, <<z, o, o, o, z, z>>)>>,
     <<Flash(2, <<z, z>>), Flash(8, <<o, z, z, z>>), Ram(2, <<>>)>>,
     <<Flash(4, <<o, z, z>>)>>,
     <<Flash(0, <<z, o, o, o, o>>), Flash(3, <<z>>), Ram(0, <<o, o>>), Ram(0, <<z>>)>>,
     <<Flash(14, <<z, z, z>>)>>,
     <<Flash(0, <<z, o>>), Ram(1, <<o>>)>>}
(* The second differs from the file with sections over one another in the first page, and in the
   file's last byte, which is alone in the second page and is not read. *)
ThreeImages == {<<>>, <<o, o, o, o, z>>, <<z, o, o, z, o, o, z, z, z, o, o, o, z, z, z, z>>}
(* What the controller's data register cannot be is all ones or all zeros: bits 16 to 8
   of it are its own state (qflexpress.v:1010). *)
Stale == {[i \in 0..(WORD - 1) |-> IF i = 0 THEN o ELSE z]}
=============================================================================
