------------------------------- MODULE ShmNames -------------------------------
(***************************************************************************)
(* How the two languages derive the name of a shared-memory object and the *)
(* name of a metadata topic.  A name is a sequence of characters; words    *)
(* that are never taken apart are one character.                           *)
(***************************************************************************)
EXTENDS Integers, Sequences, SequencesExt

Slash == "/"
Underscore == "_"
Hidden == "_shm"                        \* the suffix of metadata topics
Accented == "e_acute"                   \* a letter that is not ASCII
Words == {"ros2_shm", "ros2_shm_topic", "topic", "hash"}

Letters == {"a", "b"} \cup Words

\* What std::isalnum (on bytes, in the C locale) and str.isalnum (on characters)
\* accept.
CppAlnum == Letters
PyAlnum == Letters \cup {Accented}

\* A Python string reaches the file system, a message and C++ as UTF-8.
Utf8(name) ==
  FlattenSeq([i \in DOMAIN name |->
                IF name[i] = Accented THEN <<"byte1", "byte2">> ELSE <<name[i]>>])

StartsWithSlash(name) == name # <<>> /\ Head(name) = Slash

\* The part of s that does not end with ch.
Trimmed(s, ch) == SubSeq(s, 1, SelectLastInSeq(s, LAMBDA c : c # ch))

\* The part of s that does not begin with ch.
LeftTrimmed(s, ch) ==
  IF \A i \in DOMAIN s : s[i] = ch THEN <<>>
  ELSE SubSeq(s, SelectInSeq(s, LAMBDA c : c # ch), Len(s))

Cleaned(name, alnum) ==
  [i \in DOMAIN name |-> IF name[i] \in alnum THEN name[i] ELSE Underscore]

\* A leading slash, letters and digits kept, the rest underscores, none at the
\* end.  Both languages have this loop, with their own alnum.
Normalized(name, alnum) ==
  Trimmed(IF StartsWithSlash(name) THEN <<Slash>> \o Cleaned(Tail(name), alnum)
          ELSE <<Slash>> \o Cleaned(name, alnum), Underscore)

NormalizeAddingSlash(name) ==
  Trimmed(<<Slash>> \o Cleaned(name, CppAlnum), Underscore)

CppNormalize(name) == Normalized(name, CppAlnum)

PyNormalize(name) ==
  Normalized(IF name = <<>> THEN <<Slash, "ros2_shm_topic">> ELSE name, PyAlnum)

Stem(topic, alnum) ==
  LET stem == LeftTrimmed(Cleaned(topic, alnum), Underscore)
  IN  IF stem = <<>> THEN <<"topic">> ELSE stem

\* The hash that ends the name is a word that does not change under
\* normalisation.
MadeName(topic, alnum) ==
  <<Slash, "ros2_shm", Underscore>> \o Stem(topic, alnum) \o <<Underscore, "hash">>

CppMakeName(topic) == CppNormalize(MadeName(topic, CppAlnum))
PyMakeName(topic) == PyNormalize(MadeName(topic, PyAlnum))

\* The name create() gives the ring, for a shm_name option and a topic.
RingName(language, option, topic) ==
  IF language = "cpp"
  THEN CppNormalize(IF option = <<>> THEN CppMakeName(topic)
                    ELSE CppNormalize(Utf8(option)))
  ELSE PyNormalize(IF option = <<>> THEN PyMakeName(topic) ELSE option)

\* The file under /dev/shm that a ring of this name is created as.
CreatedFile(name) == Utf8(Tail(name))

\* The file that a handle opens for the shm_name of a metadata message.
OpenedFile(language, name) ==
  IF language = "cpp" THEN Tail(CppNormalize(Utf8(name)))
  ELSE Utf8(IF StartsWithSlash(name) THEN Tail(name) ELSE name)

-----------------------------------------------------------------------------
(* Topics                                                                   *)

NoTopic == <<>>                         \* the functions throw

ResolvedAppending(topic) ==
  LET normalized == Trimmed(topic, Slash)
  IN  IF normalized = <<>> THEN NoTopic ELSE normalized \o <<Slash, Hidden>>

ResolveMetadataTopic(topic) ==
  LET normalized == Trimmed(topic, Slash)
  IN  IF normalized = <<>> THEN NoTopic
      ELSE IF IsSuffix(<<Slash, Hidden>>, normalized) THEN normalized
      ELSE normalized \o <<Slash, Hidden>>

\* What a relay reports as its meta_topic; the publisher resolves by itself.
MakeHiddenMetadataTopic(topic) ==
  IF topic # <<>> /\ Last(topic) = Slash THEN topic \o <<Hidden>>
  ELSE topic \o <<Slash, Hidden>>

\* Where the transport plugins look up their parameters.
ParameterPrefix(topic) ==
  LET resolved == ResolveMetadataTopic(topic)
      relative == IF StartsWithSlash(resolved) THEN Tail(resolved) ELSE resolved
  IN  [i \in DOMAIN relative |-> IF relative[i] = Slash THEN "." ELSE relative[i]]
===============================================================================
