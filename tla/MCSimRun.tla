----------------------------- MODULE MCSimRun -----------------------------
(* Programs for SimRun: block memory has the words 0 to 6, of which the last is stack,
   and the flash the words 7 to 12. The reset address is word 8. *)
EXTENDS SimRun

TheMemory == 0..12
TheRAM == 0..6
TheJunk == <<"j", "j">>
TheZero == <<"0", "0">>
c == "c"
Bytes(n) == SubSeq(<<"p", "q", "r", "s", "t", "u">>, 1, 2 * n)
Flash(w, data) == [start |-> 2 * w, data |-> data]
(* Started from the flash, with n words of program to move and b words to clear. *)
Booted(n, b) ==
    [sections |-> <<Flash(8, <<c, c>> \o Bytes(n)), Flash(40, <<c>>)>>,
     entry |-> 8, rom |-> TRUE, image |-> n, bss |-> b]
(* Loaded straight into block memory, as with bkram.ld. *)
Loaded(n, b) == [sections |-> <<[start |-> 0, data |-> <<c, c>> \o Bytes(n - 1)]>>,
                 entry |-> 0, rom |-> FALSE, image |-> n, bss |-> b]
Programs == {Booted(3, 2), Booted(2, 0), Booted(1, 1), Booted(0, 3), Loaded(2, 1)}
=============================================================================
