--------------------------- MODULE TimeseriesEncode ---------------------------
(***************************************************************************)
(* thingsboard_timeseries_encode: how many entries of a batch one request  *)
(* payload takes, and how long the message gets.  An entry is represented  *)
(* by the number of bytes its own encoding has: 0 when no field is set,    *)
(* Unencodable when its encoder fails for another reason than space.       *)
(***************************************************************************)
EXTENDS Integers, Sequences

Unencodable == -1

ENOMEM == "ENOMEM"
EINVAL == "EINVAL"
OK     == "OK"

-----------------------------------------------------------------------------
(* JSON: entry by entry between brackets, as many as there is room for *)

Comma(loop) == IF loop.encoded > 0 THEN 1 ELSE 0

\* encode_timestamped_telemetry_to_buf into the space that is left without
\* the closing bracket and the delimiter; the JSON encoder needs a byte for
\* its own delimiter, and an entry without values never reaches it.
Fits(size, space) == size = 0 \/ size < space

\* One round of the loop.  An entry that does not fit takes its comma along;
\* mutated, the comma stays.
MutantEncodeEntry(loop, size) ==
    LET left == loop.left - Comma(loop) IN
    IF size # Unencodable /\ Fits(size, left - 2)
    THEN [loop EXCEPT !.pos = @ + Comma(loop) + size,
                      !.left = left - size,
                      !.encoded = @ + 1]
    ELSE [loop EXCEPT !.pos = @ + Comma(loop),
                      !.left = left,
                      !.exit = IF size = Unencodable THEN EINVAL ELSE "full"]

EncodeEntry(loop, size) ==
    LET left == loop.left - Comma(loop) IN
    IF loop.encoded > 0 /\ loop.left <= 2
    THEN [loop EXCEPT !.exit = "full"]
    ELSE IF size = Unencodable
    THEN [loop EXCEPT !.exit = EINVAL]
    ELSE IF Fits(size, left - 2)
    THEN [loop EXCEPT !.pos = @ + Comma(loop) + size,
                      !.left = left - size,
                      !.encoded = @ + 1]
    ELSE [loop EXCEPT !.exit = "full"]

EncodeLoop(sizes, len) ==
    LET after[i \in 0 .. Len(sizes)] ==
            IF i = 0
            THEN [pos |-> 1, left |-> len - 1, encoded |-> 0, exit |-> "no"]
            ELSE IF after[i - 1].exit = "no"
                 THEN EncodeEntry(after[i - 1], sizes[i])
                 ELSE after[i - 1]
    IN  after[Len(sizes)]

\* Mutant: an entry that does not fit is an error.
MutantEncodeJson(sizes, len) ==
    LET loop == EncodeLoop(sizes, len) IN
    IF len < 3 \/ loop.exit # "no"
    THEN [ret |-> EINVAL, count |-> 0, len |-> 0]
    ELSE [ret |-> OK, count |-> loop.encoded, len |-> loop.pos + 1]

EncodeJson(sizes, len) ==
    LET loop == EncodeLoop(sizes, len) IN
    IF len < 3 \/ loop.left < 2
    THEN [ret |-> ENOMEM, count |-> 0, len |-> 0]
    ELSE IF loop.exit = EINVAL
    THEN [ret |-> EINVAL, count |-> 0, len |-> 0]
    ELSE [ret |-> OK, count |-> loop.encoded, len |-> loop.pos + 1]

-----------------------------------------------------------------------------
(* Protobuf: all entries or an error *)

\* Tag and length in front of every submessage.
Overhead == 2

SumOfSizes(sizes) ==
    LET upto[i \in 0 .. Len(sizes)] ==
            IF i = 0 THEN 0 ELSE upto[i - 1] + sizes[i]
    IN  upto[Len(sizes)]

Encodable(sizes) == \A i \in DOMAIN sizes : sizes[i] # Unencodable

EncodeProtobuf(sizes, len) ==
    LET total == SumOfSizes(sizes) + Overhead * Len(sizes) IN
    IF Encodable(sizes) /\ total <= len
    THEN [ret |-> OK, count |-> Len(sizes), len |-> total]
    ELSE [ret |-> EINVAL, count |-> 0, len |-> 0]

-----------------------------------------------------------------------------
(* What a JSON message has to be *)

\* The length of brackets, entries of these sizes and the commas between.
ArrayLength(sizes) ==
    2 + SumOfSizes(sizes) + (IF Len(sizes) > 1 THEN Len(sizes) - 1 ELSE 0)

\* A message of the first n entries and its delimiter fits into len bytes,
\* and the length the encoder reports is the length of just that.
SoundJson(sizes, len, n, msg_len) ==
    /\ msg_len = ArrayLength(SubSeq(sizes, 1, n))
    /\ msg_len < len

\* One more entry would not have fitted.  The encoder keeps a byte for the
\* entry's delimiter that the message does not need.
MaximalJson(sizes, len, n) ==
    n < Len(sizes) => ArrayLength(SubSeq(sizes, 1, n + 1)) + 2 > len
=============================================================================
