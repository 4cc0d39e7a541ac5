---------------------------- MODULE MC_KeySpace ----------------------------
(* Small name sets for KeySpace.  Names are written as characters and     *)
(* turned into their bytes; the ones with "/" or a reserved suffix are     *)
(* names the registry accepts, since nothing in update() checks them.      *)
EXTENDS KeySpace

\* The byte values of the characters the names below use.
Ord ==
    [c \in {"/", "_", "a", "b", "e", "g", "m", "o", "p", "r", "s", "t", "u"} |->
        CASE c = "/" -> 47  [] c = "_" -> 95  [] c = "a" -> 97  [] c = "b" -> 98
          [] c = "e" -> 101 [] c = "g" -> 103 [] c = "m" -> 109 [] c = "o" -> 111
          [] c = "p" -> 112 [] c = "r" -> 114 [] c = "s" -> 115 [] c = "t" -> 116
          [] c = "u" -> 117]

\* []byte(s) of a string written as its characters.
Bytes(cs) == [i \in 1..Len(cs) |-> Ord[cs[i]]]

\* Names without "/", one a prefix of the other, so that only the "/" that
\* ends each prefix keeps their keys apart.
MCPlainGroups == {Bytes(<<"a">>), Bytes(<<"a", "b">>)}
MCPlainNames == {Bytes(<<"a">>), Bytes(<<"a", "b">>)}
MCKinds == {"stream", "measure"}
MCStream == {"stream"}

\* A group nested by name in another group.
MCNestedGroups == {Bytes(<<"a">>), Bytes(<<"a", "/", "a">>)}

\* An entity named like the group metadata key.
MCMetaName == {Bytes(<<"_", "_", "m", "e", "t", "a", "_", "g", "r", "o", "u", "p", "_", "_">>)}

\* A group whose name continues with the stream prefix.
MCStreamsGroups == {Bytes(<<"a">>), Bytes(<<"a", "/", "s", "t", "r", "e", "a", "m", "s">>)}
=============================================================================
