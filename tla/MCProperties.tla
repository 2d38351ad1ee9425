---------------------------- MODULE MCProperties -----------------------------
(* Small instances of Properties for TLC.                                  *)
EXTENDS Properties

CONSTANTS version, name, level, ratio, flags, bytes, names, reset, scale, dump

\* Properties like those of the cluster database: version is the UInt8 with
\* the "default" attribute 0x01 of the Basic cluster, an int literal.
Types ==
  [p \in Property |->
     CASE p = version -> "UInt8" [] p = name -> "String" [] p = level -> "Int32"
       [] p = ratio -> "Double" [] p = flags -> "BooleanArray"
       [] p = bytes -> "UInt8Array" [] p = names -> "StringArray"]

Defaults == [p \in Property |-> IF p = version THEN Datum("Int32", 1) ELSE Empty]

\* 7 does not fit a uint16_t of this instance, 3 halves are not a whole number.
Arguments ==
  [t \in TypeId |->
     CASE t = "Boolean" -> BOOLEAN [] t = "UInt8" -> {0, 3} [] t = "Int32" -> {-1, 1, 7}
       [] t = "Double" -> {2, 3} [] t = "String" -> {<<>>, <<1>>}
       [] t = "BooleanArray" -> {<<TRUE>>} [] t = "UInt8Array" -> {<<>>, <<1, 2>>}
       [] t = "StringArray" -> {<<<<1>>>>}]

\* A method like ResetToFactoryDefaults of the cluster database, without
\* arguments or results; one of two scalars, or one, that returns a scalar;
\* and one that takes or returns arrays.
MCCalls ==
  [f \in Method |->
     CASE f = reset -> {<<>>}
       [] f = scale -> {<<Datum("Int32", 7)>>, <<Datum("UInt8", 3), Datum("Double", 2)>>}
       [] f = dump  -> {<<Datum("UInt8Array", <<1>>)>>, <<Datum("String", <<1>>)>>}]

MCOutcomes ==
  [f \in Method |->
     CASE f = reset -> {Empty}
       [] f = scale -> {Datum("Int32", -1), Datum("Double", 2), Datum("Double", 3), Empty}
       [] f = dump  -> {Datum("UInt8Array", <<>>), Datum("UInt8Array", <<1, 2>>),
                        Datum("StringArray", <<>>), Datum("BooleanArray", <<TRUE>>)}]
=============================================================================
