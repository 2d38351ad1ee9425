-------------------------------- MODULE Names --------------------------------
(***************************************************************************)
(* The name the bridge takes on the bus: ConfigManager::BuildServiceName   *)
(* and the encoders of AllJoynHelper it calls. A name is a sequence of     *)
(* classes of characters, the ones the encoders tell apart: a letter, a    *)
(* digit, the dot, and in the result the underscore; every other character *)
(* is Other.                                                               *)
(***************************************************************************)
EXTENDS Integers, Sequences, FiniteSetsExt

Letter == "a"
Digit == "9"
Dot == "."
Underscore == "_"
Other == "/"

\* What an adapter's prefix and name are made of, and what the encoders write.
Char == {Letter, Digit, Dot, Other}
Encoded == {Letter, Digit, Dot, Underscore}

\* Nothing is left of a string of c alone: find_last_not_of is npos there,
\* and npos + 1 is 0.
TrimChar(s, c) ==
  LET rest == {i \in DOMAIN s : s[i] # c}
  IN  IF rest = {} THEN <<>> ELSE SubSeq(s, Min(rest), Max(rest))

\* What the loop of an encoder over the characters of s leaves in its string,
\* when put[t, ch] is what its body makes of the string t and the character ch.
ForEach(s, put) ==
  LET t[i \in 0 .. Len(s)] == IF i = 0 THEN <<>> ELSE put[<<t[i - 1], s[i]>>]
  IN  t[Len(s)]

\* Letters, digits and dots stay; a digit that follows a dot gets a '_'.
PutRoot_Plain(t, ch) == IF ch = Other THEN t ELSE Append(t, ch)

PutRoot(t, ch) ==
  CASE ch \in {Letter, Dot} -> Append(t, ch)
    [] ch = Digit /\ t # <<>> /\ t[Len(t)] = Dot -> t \o <<Underscore, Digit>>
    [] ch = Digit /\ (t = <<>> \/ t[Len(t)] # Dot) -> Append(t, Digit)
    [] OTHER -> t

EncodeStringForRootServiceName(s) ==
  TrimChar(ForEach(s, [p \in Seq(Encoded) \X Char |-> PutRoot(p[1], p[2])]), Dot)

\* Letters stay, so that the test for a leading digit is never true.
PutName(t, ch) == IF ch = Letter THEN Append(t, Letter) ELSE t

EncodeStringForServiceName(s) ==
  ForEach(s, [p \in Seq(Encoded) \X Char |-> PutName(p[1], p[2])])

\* What BuildServiceName leaves in m_serviceName, and whether it succeeds.
CanBuildServiceName(adapter) ==
  /\ EncodeStringForRootServiceName(adapter.prefix) # <<>>
  /\ EncodeStringForServiceName(adapter.name) # <<>>

BuildServiceName(adapter) ==
  LET root == EncodeStringForRootServiceName(adapter.prefix)
      name == EncodeStringForServiceName(adapter.name)
  IN  CASE root = <<>> -> <<>>
        [] root # <<>> /\ name = <<>> -> root \o <<Dot, Letter>>
        [] OTHER -> root \o <<Dot, Letter, Dot>> \o name

-----------------------------------------------------------------------------
\* The names the router accepts: elements between dots, two at least, none
\* empty, none with a digit in front.
LegalBusName(s) ==
  /\ Dot \in {s[i] : i \in DOMAIN s}
  /\ \A i \in DOMAIN s \cup {Len(s) + 1} :
       (i = 1 \/ s[i - 1] = Dot) => i \in DOMAIN s /\ s[i] \notin {Dot, Digit}
  /\ \A i \in DOMAIN s : s[i] # Other

\* A prefix in which a letter or a dot comes before every digit and a letter
\* or a digit between any two dots.
SoundPrefix(s) ==
  /\ \A i \in DOMAIN s : s[i] = Digit => \E j \in 1 .. i - 1 : s[j] \in {Letter, Dot}
  /\ \A i, j \in DOMAIN s : i < j /\ s[i] = Dot /\ s[j] = Dot =>
       \E k \in i .. j : s[k] \in {Letter, Digit}
=============================================================================
