----------------------------- MODULE S3Transfer -----------------------------
(***************************************************************************)
(* How the bytes of a layer get into the bucket and out of it again:       *)
(* S3Backend::finish_layer cuts a file that is larger than a chunk into    *)
(* the parts of a multipart upload, ObjectReader fetches an object in      *)
(* ranges of at most a chunk and hands them out in the sizes its caller    *)
(* asks for.  Contents are sequences, sizes are counted in small units.    *)
(***************************************************************************)
EXTENDS Integers, SequencesExt

CONSTANTS
    CHUNK_SIZE,   \* 10 MiB in the code
    MaxRoom       \* bound: the largest buffer a caller of poll_read passes

ASSUME ChunkAssumption == CHUNK_SIZE \in Nat \ {0}

AtMost(n, m) == IF n > m THEN m ELSE n
Slice(file, pos, n) == SubSeq(file, pos + 1, pos + n)

(* The while loop of finish_layer from pos on: the parts, by part number. *)
Parts(file) ==
    LET cut[pos \in 0 .. Len(file)] ==
            IF pos >= Len(file) THEN <<>>
            ELSE LET n == AtMost(Len(file) - pos, CHUNK_SIZE)
                 IN <<Slice(file, pos, n)>> \o cut[pos + n]
    IN cut[0]

(* The object a finished upload makes: S3 joins the parts by number. *)
Upload(file) == IF Len(file) > CHUNK_SIZE THEN FlattenSeq(Parts(file)) ELSE file

(* Faulty variant: the end of the object is noticed before the buffer. *)
ForgetTail(object, room) ==
    LET poll[pos \in 0 .. Len(object), held \in 0 .. Len(object)] ==
            LET start == pos - held IN
            IF held > room THEN <<Slice(object, start, room)>> \o poll[pos, held - room]
            ELSE IF pos >= Len(object) THEN <<>>
            ELSE LET n == AtMost(Len(object) - pos, CHUNK_SIZE) IN poll[pos + n, held + n]
    IN poll[0, 0]

(* ObjectReader read to its end with buffers of room bytes: the segments in  *)
(* the order poll_read hands them out.  pos is position, held the length of *)
(* buffer, whose bytes are the ones just before pos.  A read that fills     *)
(* nothing is the end of the stream.                                       *)
Stream(object, room) ==
    LET poll[pos \in 0 .. Len(object), held \in 0 .. Len(object)] ==
            LET start == pos - held IN
            IF held > room THEN <<Slice(object, start, room)>> \o poll[pos, held - room]
            ELSE IF pos >= Len(object)
            THEN IF held = 0 THEN <<>> ELSE <<Slice(object, start, held)>> \o poll[pos, 0]
            ELSE LET n == AtMost(Len(object) - pos, CHUNK_SIZE) IN poll[pos + n, held + n]
    IN poll[0, 0]
=============================================================================
