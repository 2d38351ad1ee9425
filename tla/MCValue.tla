------------------------------- MODULE MCValue -------------------------------
(* Small instances of Value for TLC.                                       *)
EXTENDS Value, TLC

\* With digits from 0 to 3 the Int16 are -2 and -1, the Int64 1, 4, -8 and -4.
Byte == {Literal("UInt8", <<1, 0>>)}
Wide == {Literal("Int64", d) : d \in {<<1, 0>>, <<0, 1>>}}
Signed == {Literal("Int16", d) : d \in {<<2, 0>>, <<3, 0>>}}
    \cup {Literal("Int64", d) : d \in {<<0, 1>>, <<0, 2>>, <<0, 3>>}}

Text == {Literal("String", t) : t \in {<<>>, <<1>>}}
NoText == {Literal("String", Nil)}
Bytes == {Literal("UInt8Array", s) : s \in {<<>>, <<0, 1>>}}
Words == {Literal("UInt16Array", <<1>>)}

\* Objects change their types freely. (The Null of a new object is copied.)
Mixed == Signed \cup Text \cup NoText \cup Bytes \cup Words

\* As in the tests, an object holds numbers of one width after the other, and
\* none is negative.
Numbers == Byte \cup Wide

\* As in the tests, strings are assigned from each other, and some are null.
Strings == Text \cup NoText

Symmetry == Permutations(Block) \cup Permutations(Object)
=============================================================================
