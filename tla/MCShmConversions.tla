--------------------------- MODULE MCShmConversions ---------------------------
(* The inputs of ShmConversions, small enough to be tried one by one.        *)
EXTENDS ShmConversions

\* Options and topics of up to three or four characters.
NameJobs ==
  [kind : {"name"}, writer : Languages, reader : Languages,
   option : BoundedSeq({"a", Slash, Underscore, ".", Accented}, 3),
   topic : {<<Slash, "a">>, <<Slash, Underscore, "a", Slash, "b">>, <<Slash>>}]

TopicJobs == [kind : {"topic"}, topic : BoundedSeq({"a", Slash, Hidden}, 4)]

LayoutJobs == [kind : {"layout"}, host : {"relay", "plugin"},
               count : -1..4, size : -2..20]

\* Every combination of fields that are set, and the odd truth value 2 that an
\* Image may carry.
MessageJobs ==
  UNION {[kind : {"message"}, writer : Languages, reader : Languages, type : {type},
          values : {v \in [RosFields(type) -> 0..2] :
                      \A f \in RosFields(type) : v[f] = 2 =>
                        f = "is_bigendian" /\ type = "Image"}] :
         type \in {"CompressedImage", "Image", "PointCloud2"}}

\* A payload in which every byte is known by its place.
Bytes(size) == [i \in 1..size |-> i]

ImageJob(height, width, encoding, padding) ==
  LET step == width * encoding[1] * encoding[2] + padding IN
  [kind |-> "image", data |-> Bytes(height * step),
   shape |-> [height |-> height, width |-> width, step |-> step,
              item |-> encoding[1], channels |-> encoding[2]]]

ImageJobs == {ImageJob(h, w, e, p) : h \in 1..3, w \in 1..3, e \in Encodings, p \in 0..2}

CloudJob(height, width, pointStep, padding, fields) ==
  LET rowStep == width * pointStep + padding IN
  [kind |-> "cloud", data |-> Bytes(height * rowStep),
   shape |-> [height |-> height, width |-> width, point_step |-> pointStep,
              row_step |-> rowStep, fields |-> fields]]

CloudJobs ==
  {CloudJob(h, w, s, p, f) :
     h \in 1..3, w \in 1..3, s \in 3..4, p \in 0..2,
     f \in {{[offset |-> 0, size |-> 1], [offset |-> 1, size |-> 2]},
            {[offset |-> 1, size |-> 1]}}}
  \cup {CloudJob(0, w, 1, 0, {[offset |-> 0, size |-> 1]}) : w \in 0..1}

OwnershipJobs == [kind : {"ownership"}, class : {"ring", "handle"}, keepsText : BOOLEAN, calls : {6}]

AllJobs == NameJobs \cup TopicJobs \cup LayoutJobs \cup MessageJobs \cup ImageJobs \cup CloudJobs
           \cup OwnershipJobs
===============================================================================
