--------------------------- MODULE MCRootfsReplay ---------------------------
EXTENDS RootfsReplay

a == <<1>>
ab == <<1, 1>>
b == <<2>>

Dir(p) == [kind |-> "directory", path |-> p, payload |-> <<>>]
Reg(p, s) == [kind |-> "regular", path |-> p, payload |-> s]
Link(p) == [kind |-> "symlink", path |-> p, payload |-> <<>>]
Rem(p) == [kind |-> "remove", path |-> p, payload |-> <<>>]
Opq(p) == [kind |-> "opaque", path |-> p, payload |-> <<>>]

MCEntries == {Dir(a), Dir(ab), Reg(a, <<>>), Reg(ab, <<1>>), Link(b),
              Rem(a), Rem(ab), Opq(<<>>), Opq(a)}

MCStrays == {Dir(a), Reg(ab, <<0>>)}

\* Three layers with four entries in all: a first layer to work on, and any two
\* more entries in the second, the third or one in each.
MCFirst == {<<Dir(a)>>, <<Reg(a, <<1>>)>>, <<Dir(a), Reg(ab, <<1>>)>>,
            <<Dir(a), Link(ab)>>, <<Dir(a), Dir(ab)>>, <<Reg(ab, <<1>>)>>,
            <<Reg(a, <<0, 1>>)>>}
MCUpper == {<<>>} \cup {<<e>> : e \in MCEntries} \cup {<<e, f>> : e, f \in MCEntries}
MCImages ==
  {i \in MCFirst \X MCUpper \X MCUpper : Len(i[2]) + Len(i[3]) <= 2}

MCBlobOrder == <<2, 3, 1>>
=============================================================================
