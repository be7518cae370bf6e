------------------------------- MODULE MCBackup -------------------------------
(* Captures for the backup workflow: blocks of two bytes, a whole archive  *)
(* in each format and the ways in which one can be off by a little.        *)
EXTENDS Backup

MCPath == <<<<"etc", 1>>, <<"system", 1>>>>
OtherPath == <<<<"etc", 1>>, <<"other", 1>>>>

GoodHeader(size) ==
    [sum |-> TRUE, magic |-> "posix", kind |-> "file", owner |-> TRUE, size |-> size,
     rest |-> TRUE, path |-> MCPath]
Block(h) == <<HeaderByte(h), OtherByte>>
Entry(h) == Block(h) \o Repeat(OtherByte, h.size) \o Repeat(ZeroByte, Padding(h.size))
Tar(h, tail) == Entry(h) \o Repeat(ZeroByte, tail)

(* Archives of a file of one byte: whole, with a short, an uneven or a     *)
(* long tail, with something in the tail or in the padding, with the file  *)
(* twice, absent, named or sized otherwise, and with an odd header.  And   *)
(* files of no byte and of a whole block.                                  *)
TarBytes ==
    LET g == GoodHeader(1)
    IN  <<Tar(g, 2), Tar(g, 4), Tar(g, 5), Tar(g, 6), Tar(g, 8),
          Tar([g EXCEPT !.sum = FALSE], 4), Tar([g EXCEPT !.path = OtherPath], 4),
          Tar([g EXCEPT !.size = 2], 4),
          Entry(g) \o Tar(g, 4), Repeat(ZeroByte, 4), Tar(g, 3) \o <<OtherByte>>,
          Block(g) \o Repeat(OtherByte, 2) \o Repeat(ZeroByte, 4)>>
TarCapture(n, p) == [format |-> "Tar", size |-> n, plain |-> p, z |-> None, bytes |-> p]
TarCaptures ==
    [i \in DOMAIN TarBytes |-> TarCapture(1, TarBytes[i])]
    \o <<TarCapture(0, Tar(GoodHeader(0), 4)), TarCapture(2, Tar(GoodHeader(2), 4))>>

(* Gzip members: whole, with each optional field at and past its limit, a  *)
(* bad or short trailer, and something after the member.                   *)
GoodMember == [valid |-> TRUE, flags |-> {}, extra |-> 0, name |-> 1, comment |-> 1, group |-> 2,
               trailer |-> <<TRUE, TRUE>>, surplus |-> <<>>]
Members ==
    LET all == [GoodMember EXCEPT !.flags = {"extra", "name", "comment", "crc"}, !.extra = 1]
        named == [GoodMember EXCEPT !.flags = {"name", "crc"}, !.name = MaxNameBytes]
    IN  <<GoodMember, all,
          [GoodMember EXCEPT !.valid = FALSE],
          [all EXCEPT !.extra = MaxExtraBytes],       \* can be sealed, not inspected
          [all EXCEPT !.extra = MaxExtraBytes + 1],
          [all EXCEPT !.extra = 2, !.name = 2],       \* a header too long
          [named EXCEPT !.name = MaxNameBytes + 1],
          [named EXCEPT !.group = 1],                 \* more than the cipher takes
          [GoodMember EXCEPT !.trailer = <<TRUE, FALSE>>],
          [GoodMember EXCEPT !.trailer = <<TRUE>>],
          [GoodMember EXCEPT !.surplus = <<ZeroByte>>],
          [GoodMember EXCEPT !.group = 9]>>           \* expands too much
GzipCapture(p, z) == [format |-> "Gzip", size |-> 1, plain |-> p, z |-> z, bytes |-> GzipBytes(z, p)]
GzipCaptures ==
    [i \in DOMAIN Members |-> GzipCapture(Tar(GoodHeader(1), 4), Members[i])]
    \o <<GzipCapture(Tar(GoodHeader(1), 2), GoodMember), GzipCapture(<<>>, GoodMember)>>

MCCaptures == TarCaptures \o GzipCaptures
===============================================================================
