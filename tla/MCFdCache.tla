------------------------------ MODULE MCFdCache ------------------------------
(* Instances of FdCache: a file that is written, one that is read, an      *)
(* archive with two members, of which the first is padded, and a stream.   *)
EXTENDS FdCache

Cells(s) == [i \in 1..Len(s) |-> Cell(s[i], 0)]
Magic    == Cells(<<"magic", "magic">>)

With(archive) ==
    [f \in File |-> IF f \in Archive THEN archive
                    ELSE IF f \in Writers THEN <<>> ELSE Cells(<<"x">>)]

MCContents == With(Magic \o Header(1) \o Cells(<<"p", "pad">>) \o Header(2) \o Cells(<<"q", "r">>))

(* The first member ends where the header of the second one begins.        *)
MCUnpadded == With(Magic \o Header(2) \o Cells(<<"q", "r">>) \o Header(1) \o Cells(<<"p", "pad">>))
=============================================================================
