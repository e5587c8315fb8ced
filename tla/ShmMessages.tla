------------------------------ MODULE ShmMessages ------------------------------
(***************************************************************************)
(* What becomes of a sensor message on its way through metadata, a slot    *)
(* and a loader: the field-wise translations of both languages, and the    *)
(* loaders that make arrays of images and point clouds.                    *)
(***************************************************************************)
EXTENDS Integers, Sequences, FiniteSetsExt, SequencesExt

-----------------------------------------------------------------------------
(* Translation of fields                                                    *)

\* The fields of the ROS message types, payload apart.
RosFields(type) ==
  {"header"} \cup
  CASE type = "CompressedImage" -> {"format"}
    [] type = "Image" -> {"height", "width", "encoding", "is_bigendian", "step"}
    [] type = "PointCloud2" -> {"height", "width", "fields", "is_bigendian",
                                "point_step", "row_step", "is_dense"}

\* The fields that encode() stores for each type.
CppEncodes(type) ==
  {"header"} \cup
  CASE type = "CompressedImage" -> {"format"}
    [] type = "Image" -> {"height", "width", "encoding", "step", "is_bigendian"}
    [] type = "PointCloud2" -> {"height", "width", "fields", "is_bigendian",
                                "point_step", "row_step", "is_dense"}

CppDecodes(type) == CppEncodes(type)

\* _make_metadata shares the assignments that images and clouds have in common.
PyEncodesImagesOnly(type) ==
  {"header"} \cup
  CASE type = "CompressedImage" -> {"format"}
    [] type = "Image" -> {"encoding", "step", "height", "width", "is_bigendian"}
    [] type = "PointCloud2" -> {"fields", "point_step", "row_step", "is_dense"}

PyEncodes(type) ==
  {"header"} \cup
  (CASE type = "CompressedImage" -> {"format"}
     [] type = "Image" -> {"encoding", "step"}
     [] type = "PointCloud2" -> {"fields", "point_step", "row_step", "is_dense"}) \cup
  (IF type = "CompressedImage" THEN {} ELSE {"height", "width", "is_bigendian"})

\* The loaders of ros_messages.py.
PyDecodes(type) ==
  {"header"} \cup
  CASE type = "CompressedImage" -> {"format"}
    [] type = "Image" -> {"height", "width", "encoding", "is_bigendian", "step"}
    [] type = "PointCloud2" -> {"height", "width", "fields", "is_bigendian",
                                "point_step", "row_step", "is_dense"}

\* A field that is not assigned keeps the 0 it is constructed with.  The
\* endianness crosses as a Boolean: != 0U, bool(), ? 1U : 0U, int().
Translated(values, type, assigned) ==
  [f \in RosFields(type) |->
     IF f \notin assigned THEN 0
     ELSE IF f = "is_bigendian" THEN (IF values[f] # 0 THEN 1 ELSE 0)
     ELSE values[f]]

Encoded(language, type, values) ==
  Translated(values, type, IF language = "cpp" THEN CppEncodes(type) ELSE PyEncodes(type))

Decoded(language, type, values) ==
  Translated(values, type, IF language = "cpp" THEN CppDecodes(type) ELSE PyDecodes(type))

-----------------------------------------------------------------------------
(* Arrays                                                                   *)

Error == <<"ValueError">>

Rows(n) == 0..(n - 1)

\* The bytes of a row, from column `from' on.
Piece(data, first, size) == SubSeq(data, first + 1, first + size)

\* numpy.ndarray.reshape and .view on bytes: every size must come out even.
\* The element of row r, column x, channel c has the item bytes from that
\* place in row-major order.
Elements(rows, height, width, channels, item) ==
  [r \in Rows(height) |-> [x \in Rows(width) |-> [c \in Rows(channels) |->
     Piece(rows[r], (x * channels + c) * item, item)]]]

RowFromTheStart(data, r, step, expected) == Piece(data, r * expected, Min({step, expected}))

\* rows[:, :expected_row]
ImageRow(data, r, step, expected) == Piece(data, r * step, Min({step, expected}))

\* NumpyImageLoader.from_bytes.  The trimmed rows are reshaped to height x
\* width x channels while they still are bytes, before the view as dtype.
NumpyImage(data, im) ==
  LET expected == im.width * im.channels * im.item
      row == Min({im.step, expected})
      rows == [r \in Rows(im.height) |-> ImageRow(data, r, im.step, expected)]
  IN  IF Len(data) # im.height * im.step                         \* first reshape
         \/ im.height * row # im.height * im.width * im.channels \* second reshape
         \/ im.channels % im.item # 0                            \* view
         \/ im.channels \div im.item # im.channels               \* third reshape
      THEN Error
      ELSE Elements(rows, im.height, im.width, im.channels, im.item)

\* The pixels an image message means, by the definition of sensor_msgs/Image.
MeantImage(data, im) ==
  [r \in Rows(im.height) |-> [x \in Rows(im.width) |-> [c \in Rows(im.channels) |->
     Piece(data, r * im.step + (x * im.channels + c) * im.item, im.item)]]]

\* The encodings of the loader: item size and channels.
Encodings == {<<1, 1>>, <<1, 3>>, <<1, 4>>, <<2, 1>>, <<4, 1>>}

FieldsOf(point, cloud) ==
  [f \in cloud.fields |-> Piece(point, f.offset, f.size)]

\* numpy.frombuffer with count: the buffer may be longer, not shorter, and no item
\* is empty.
FromBuffer(bytes, count, cloud) ==
  IF cloud.point_step = 0 \/ Len(bytes) < count * cloud.point_step THEN Error
  ELSE [p \in Rows(count) |->
          FieldsOf(Piece(bytes, p * cloud.point_step, cloud.point_step), cloud)]

RowsFromOneBuffer(data, cloud) ==
  LET points == FromBuffer(data, cloud.height * cloud.width, cloud)
  IN  IF points = Error THEN Error
      ELSE [r \in Rows(cloud.height) |-> [x \in Rows(cloud.width) |->
              points[r * cloud.width + x]]]

\* numpy.vstack wants a row.
RowsOneByOne(data, cloud) ==
  LET row(r) == FromBuffer(Piece(data, r * cloud.row_step,
                                 Min({cloud.width * cloud.point_step,
                                      Len(data) - r * cloud.row_step})),
                           cloud.width, cloud)
  IN  IF cloud.height = 0 \/ \E r \in Rows(cloud.height) : row(r) = Error THEN Error
      ELSE [r \in Rows(cloud.height) |-> row(r)]

\* PointCloud2NumpyLoader.from_bytes
NumpyCloud(data, cloud) ==
  IF cloud.row_step = cloud.width * cloud.point_step
  THEN RowsFromOneBuffer(data, cloud)
  ELSE RowsOneByOne(data, cloud)

\* The points a cloud message means, by the definition of sensor_msgs/PointCloud2.
MeantCloud(data, cloud) ==
  [r \in Rows(cloud.height) |-> [x \in Rows(cloud.width) |->
     [f \in cloud.fields |->
        Piece(data, r * cloud.row_step + x * cloud.point_step + f.offset, f.size)]]]
===============================================================================
