---------------------------- MODULE ShmConversions ----------------------------
(***************************************************************************)
(* The pure functions of the transport, run end to end: a shm_name option  *)
(* becomes an object of one process and is opened by another, a topic is   *)
(* resolved by publisher, subscriber, relay and plugin, parameters become  *)
(* a layout, a message crosses the metadata and a payload becomes an       *)
(* array; and the objects that own descriptors and mappings are moved      *)
(* about, call by call.  A behaviour is one job, given in Init.            *)
(***************************************************************************)
EXTENDS ShmNames, ShmLayout, ShmMessages, ShmOwnership

CONSTANTS Jobs        \* the inputs tried, see MCShmConversions

Languages == {"cpp", "python"}

\* What an input may be: a ring is named after a topic, and ROS accepts no accented
\* one; sizes are what the option's type holds; a message has one of three types; an
\* image or a cloud has the payload that its fields announce, and no row that is
\* shorter than its pixels or points; points are not empty, nor are padded rows absent.
ASSUME JobsAssumption ==
  \A j \in Jobs :
    CASE j.kind = "layout" ->
           j \in [kind : {"layout"}, host : {"relay", "plugin"}, count : Int, size : Int]
      [] j.kind = "ownership" ->
           j \in [kind : {"ownership"}, class : {"ring", "handle"}, keepsText : BOOLEAN,
                  calls : Nat]
      [] j.kind = "message" -> j.type \in {"CompressedImage", "Image", "PointCloud2"}
      [] j.kind = "image" ->
           /\ j.data \in Seq(Nat) /\ Len(j.data) = j.shape.height * j.shape.step
           /\ j.shape \in [height : Nat, width : Nat, step : Nat, item : Nat \ {0},
                           channels : Nat \ {0}]
           /\ j.shape.width * j.shape.channels * j.shape.item <= j.shape.step
      [] j.kind = "cloud" ->
           /\ j.data \in Seq(Nat) /\ Len(j.data) = j.shape.height * j.shape.row_step
           /\ j.shape \in [height : Nat, width : Nat, point_step : Nat \ {0}, row_step : Nat,
                           fields : SUBSET [offset : Nat, size : Nat]]
           /\ j.shape.width * j.shape.point_step <= j.shape.row_step
           /\ j.shape.height = 0 => j.shape.row_step = j.shape.width * j.shape.point_step
           /\ \A f \in j.shape.fields : f.offset + f.size <= j.shape.point_step
      [] j.kind = "topic" -> j.topic \in Seq(STRING)
      [] j.kind = "name" ->
           /\ j.writer \in Languages /\ j.reader \in Languages
           /\ j.option \in Seq(STRING) /\ j.topic \in Seq(STRING \ {Accented})
      [] OTHER -> FALSE

VARIABLES job, done

vars == <<job, done>>

Init ==
  /\ job \in Jobs
  /\ done = IF job.kind = "ownership" THEN {NewProcess(job.class, job.keepsText)} ELSE {}

\* ensure_buffer and create in the writer, encode, then open in the reader.
OpenByName ==
  /\ job.kind = "name" /\ done = {}
  /\ LET name == RingName(job.writer, job.option, job.topic) IN
     done' = {[created |-> CreatedFile(name), opened |-> OpenedFile(job.reader, name)]}
  /\ UNCHANGED job

\* A publisher, a subscriber that is given the same topic or the metadata topic,
\* a relay's status and a plugin's parameters.
MeetOnTopic ==
  /\ job.kind = "topic" /\ done = {}
  /\ LET resolved == ResolveMetadataTopic(job.topic) IN
     done' = {[publisher |-> resolved,
               subscribers |-> {ResolveMetadataTopic(t) :
                                  t \in {job.topic, resolved, job.topic \o <<Slash>>}},
               status |-> MakeHiddenMetadataTopic(job.topic),
               prefixes |-> {ParameterPrefix(t) : t \in {job.topic, resolved}}]}
  /\ UNCHANGED job

LayOut ==
  /\ job.kind = "layout" /\ done = {}
  /\ CreateAccepts(job.host, job.count, job.size)
  /\ LET count == SlotCountOf(job.host, job.count)
         size == SlotSizeOf(job.host, job.size) IN
     done' = {[total |-> TotalSize(count, size), exact |-> ExactTotal(count, size),
               size |-> size,
               headers |-> [s \in 0..(count - 1) |-> SlotHeaderOffset(s)],
               payloads |-> [s \in 0..(count - 1) |-> PayloadOffset(count, size, s)]]}
  /\ UNCHANGED job

\* encode in the publisher, decode (or a ROS loader) in the subscriber.
CarryMessage ==
  /\ job.kind = "message" /\ done = {}
  /\ done' = {Decoded(job.reader, job.type, Encoded(job.writer, job.type, job.values))}
  /\ UNCHANGED job

LoadImage ==
  /\ job.kind = "image" /\ done = {}
  /\ done' = {NumpyImage(job.data, job.shape)}
  /\ UNCHANGED job

LoadCloud ==
  /\ job.kind = "cloud" /\ done = {}
  /\ done' = {NumpyCloud(job.data, job.shape)}
  /\ UNCHANGED job

MoveObjects ==
  /\ job.kind = "ownership" /\ job.calls > 0
  /\ \E call \in Calls(job.class) : done' = {Perform(d, call) : d \in done}
  /\ job' = [job EXCEPT !.calls = @ - 1]

Next ==
  \/ OpenByName \/ MeetOnTopic \/ LayOut \/ CarryMessage
  \/ LoadImage \/ LoadCloud \/ MoveObjects

Spec == Init /\ [][Next]_vars

-----------------------------------------------------------------------------

NamedInAscii(name) == \A i \in DOMAIN name : name[i] # Accented

\* Whatever name an object is given, and in whichever language, a subscriber of
\* either language opens the file the publisher created, although one side
\* normalises the name again and the other does not.  Only a Python publisher's
\* name with letters that are not ASCII is lost on a C++ subscriber, since
\* std::isalnum and str.isalnum disagree on it.
SubscriberOpensTheRing ==
  \A d \in done : job.kind = "name" =>
    \/ d.opened = d.created
    \/ job.writer = "python" /\ job.reader = "cpp" /\ ~NamedInAscii(job.option)

ValidTopic(topic) ==
  /\ topic # <<>> /\ Last(topic) # Slash
  /\ \A i \in 1..(Len(topic) - 1) : ~(topic[i] = Slash /\ topic[i + 1] = Slash)

\* Publisher and subscriber meet on one metadata topic, whether they are given
\* the sensor topic, the topic with a slash behind it or the metadata topic, a
\* plugin finds its parameters under one prefix, and for a topic ROS accepts
\* the relay reports the metadata topic its publisher uses.
TopicsMeet ==
  \A d \in done : job.kind = "topic" /\ d.publisher # NoTopic =>
    /\ d.subscribers = {d.publisher}
    /\ Cardinality(d.prefixes) = 1
    /\ ValidTopic(job.topic) /\ ~IsSuffix(<<Slash, Hidden>>, job.topic) =>
         d.status = d.publisher

\* The slot headers and payloads of a ring lie behind its header and inside the
\* object, and no two of them overlap, unless the sizes exceed the word: then
\* only create() stands between the configuration and the mapping.
SlotsAreDisjoint ==
  \A d \in done : job.kind = "layout" /\ d.exact < Word =>
    LET Part(first, size) == first..(first + size - 1)
        slots == DOMAIN d.headers
        parts == {<<"header", s, Part(d.headers[s], SlotHeaderSize)>> : s \in slots} \cup
                 {<<"payload", s, Part(d.payloads[s], d.size)>> : s \in slots}
    IN  /\ \A p \in parts : p[3] \subseteq HeaderSize..(d.total - 1)
        /\ \A p, q \in parts : p[3] \cap q[3] # {} => p = q

\* A message arrives with the fields it was published with, for every pairing of
\* publisher and subscriber languages: no translation forgets a field.  The
\* endianness arrives as a truth value.
MessagesSurvive ==
  \A d \in done : job.kind = "message" =>
    \A f \in RosFields(job.type) :
      IF f = "is_bigendian" THEN (d[f] # 0) = (job.values[f] # 0)
      ELSE d[f] = job.values[f]

\* The array a loader returns holds the pixels of a byte image, or the points of
\* a cloud, with and without padding of the rows.
ArraysAreExact ==
  \A d \in done :
    /\ job.kind = "image" /\ job.shape.item = 1 => d = MeantImage(job.data, job.shape)
    /\ job.kind = "cloud" => d = MeantCloud(job.data, job.shape)

\* However rings and handles are moved, assigned to one another or themselves,
\* closed, opened again and destroyed, and whichever of their system calls fail:
\* what the process holds is owned by one object and can be given back with the
\* size it was mapped with, nothing is given back twice, an opened object is
\* mapped, and a ring that was moved goes on with its numbers.
OwnedOnce ==
  \A d \in done : job.kind = "ownership" =>
    LET owners == {o \in Objects : d.objects[o].mapping # 0}
        holders == {o \in Objects : d.objects[o].fd # 0}
    IN  /\ d.right
        /\ d.maps = {MapOf(d.objects[o]) : o \in owners}
        /\ \A a, b \in owners : MapOf(d.objects[a]) = MapOf(d.objects[b]) => a = b
        /\ d.fds = {d.objects[o].fd : o \in holders}
        /\ \A a, b \in holders : d.objects[a].fd = d.objects[b].fd => a = b
        /\ \A o \in owners : d.objects[o].next > d.last[d.objects[o].mapping]

\* NumpyImageLoader reads images of every encoding it lists.
EveryEncodingIsRead == \A d \in done : job.kind = "image" => d # Error
===============================================================================
