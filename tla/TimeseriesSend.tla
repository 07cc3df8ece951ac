---------------------------- MODULE TimeseriesSend ----------------------------
(***************************************************************************)
(* One call of thingsboard_send_timeseries (with                           *)
(* CONFIG_THINGSBOARD_TELEMETRY_ALWAYS_TIMESTAMP also every call of        *)
(* thingsboard_send_telemetry): it first prepares a request block for each *)
(* message of the batch and then hands the messages to the CoAP client,    *)
(* while other threads take and give back blocks of the same slab.  The    *)
(* client has been found active before.                                    *)
(***************************************************************************)
EXTENDS TimeseriesEncode, FiniteSets

CONSTANTS
    Request,        \* the blocks of request_slab
    NULL,           \* no block
    PayloadSize,    \* CONFIG_COAP_CLIENT_MESSAGE_SIZE
    EntrySize,      \* the sizes entries of a batch may have
    MaxCount        \* the longest batch

ASSUME BatchAssumption ==
    /\ IsFiniteSet(Request)
    /\ NULL \notin Request
    /\ PayloadSize \in Nat
    /\ EntrySize \subseteq Nat \cup {Unencodable}
    /\ MaxCount \in Nat

\* CONFIG_COAP_CLIENT_MAX_REQUESTS sizes the slab and the local arrays.
MaxRequests == Cardinality(Request)

VARIABLES
    format,       \* CONFIG_THINGSBOARD_CONTENT_FORMAT, never changed
    ts,           \* the batch: the sizes of its entries
    pc,           \* where the call is
    requests,     \* the local array of blocks
    content,      \* the entries each prepared block carries
    request_num,  \* how many messages are prepared
    ts_sent,      \* how many entries are in them
    next,         \* the message to be sent next
    owner,        \* who has each block of the slab
    submitted,    \* the entries handed to the CoAP client, in order
    result        \* what the call returns

vars == <<format, ts, pc, requests, content, request_num, ts_sent, next, owner,
          submitted, result>>

given == <<format, ts>>

Index == 0 .. MaxRequests - 1

Batches == UNION {[1 .. n -> EntrySize] : n \in 1 .. MaxCount}

TypeOK ==
    /\ format \in {"JSON", "Protobuf"}
    /\ ts \in Batches
    /\ pc \in {"prepare", "send", "free_requests", "done", "assertion",
               "fault"}
    /\ requests \in [Index -> Request \cup {NULL}]
    /\ content \in [Index -> Seq(1 .. MaxCount)]
    /\ request_num \in 0 .. MaxRequests
    /\ ts_sent \in 0 .. MaxCount
    /\ next \in 0 .. MaxRequests
    /\ owner \in [Request -> {"free", "call", "coap", "other"}]
    /\ submitted \in Seq(1 .. MaxCount)
    /\ result \in {"none", OK, ENOMEM, EINVAL, "EIO"}

Init ==
    /\ format \in {"JSON", "Protobuf"}
    /\ ts \in Batches
    /\ pc = "prepare"
    /\ requests = [k \in Index |-> NULL]
    /\ content = [k \in Index |-> <<>>]
    /\ request_num = 0
    /\ ts_sent = 0
    /\ next = 0
    /\ owner \in [Request -> {"free", "other"}]
    /\ submitted = <<>>
    /\ result = "none"

-----------------------------------------------------------------------------
(* Preparing *)

Remaining == SubSeq(ts, ts_sent + 1, Len(ts))

thingsboard_timeseries_encode(sizes) ==
    IF format = "JSON" THEN EncodeJson(sizes, PayloadSize)
                       ELSE EncodeProtobuf(sizes, PayloadSize)

\* The entries that message number request_num takes, by their index.
\* Mutated, every message starts at the first entry again.
MutantEntries(n) == [k \in 1 .. n |-> k]
Entries(n) == [k \in 1 .. n |-> ts_sent + k]

MutantNextEntryTooFar(n) == ts_sent + n + 1   \* an entry is left out
NextEntry(n) == ts_sent + n

Fail(err) ==
    /\ pc' = "free_requests"
    /\ result' = err

\* Message request_num is encoded into block r.
Encode(r) ==
    LET message == thingsboard_timeseries_encode(Remaining) IN
    /\ requests' = [requests EXCEPT ![request_num] = r]
    /\ owner' = [owner EXCEPT ![r] = "call"]
    /\ CASE message.ret # OK ->
              /\ Fail(EINVAL)
              /\ UNCHANGED <<content, request_num, ts_sent>>
         [] message.ret = OK /\ message.count = 0 ->
              /\ pc' = "assertion"
              /\ UNCHANGED <<content, request_num, ts_sent, result>>
         [] OTHER ->
              /\ content' = [content EXCEPT
                                ![request_num] = Entries(message.count)]
              /\ request_num' = request_num + 1
              /\ ts_sent' = NextEntry(message.count)
              /\ UNCHANGED <<pc, result>>

PrepareMessage ==
    /\ pc = "prepare"
    /\ ts_sent < Len(ts)
    /\ \E r \in Request : owner[r] = "free" /\ Encode(r)
    /\ UNCHANGED <<given, next, submitted>>

\* thingsboard_request_alloc returns NULL.
PrepareWithoutBlock ==
    /\ pc = "prepare"
    /\ ts_sent < Len(ts)
    /\ \A r \in Request : owner[r] # "free"
    /\ Fail(ENOMEM)
    /\ UNCHANGED <<given, requests, content, request_num, ts_sent, next, owner,
                   submitted>>

Prepared ==
    /\ pc = "prepare"
    /\ ts_sent = Len(ts)
    /\ pc' = "send"
    /\ UNCHANGED <<given, requests, content, request_num, ts_sent, next, owner,
                   submitted, result>>

-----------------------------------------------------------------------------
(* Sending *)

SendMessage ==
    /\ pc = "send"
    /\ next < request_num
    /\ owner' = [owner EXCEPT ![requests[next]] = "coap"]
    /\ submitted' = submitted \o content[next]
    /\ next' = next + 1
    /\ UNCHANGED <<given, pc, requests, content, request_num, ts_sent, result>>

\* The failed message frees its own block (in
\* thingsboard_send_telemetry_request), the loop behind it the later ones.
MutantUnsentFrom == next + 2
MutantUnsentFromFirst == 0     \* those already sent, too
UnsentFrom == next + 1

SendFails ==
    LET unsent == {requests[next]}
                    \cup {requests[k] : k \in UnsentFrom .. request_num - 1}
    IN
    /\ pc = "send"
    /\ next < request_num
    /\ owner' = [r \in Request |-> IF r \in unsent THEN "free" ELSE owner[r]]
    /\ pc' = "done"
    /\ result' = "EIO"
    /\ UNCHANGED <<given, requests, content, request_num, ts_sent, next,
                   submitted>>

SendDone ==
    /\ pc = "send"
    /\ next = request_num
    /\ pc' = "done"
    /\ result' = OK
    /\ UNCHANGED <<given, requests, content, request_num, ts_sent, next, owner,
                   submitted>>

\* The label free_requests: the loop runs up to and including request_num.
\* That element is a block when the encoder failed; when there was no block
\* it is NULL, or lies behind the end of the array.
free_requests ==
    /\ pc = "free_requests"
    /\ owner' = [r \in Request |->
                    IF \E k \in Index : k <= request_num /\ requests[k] = r
                    THEN "free" ELSE owner[r]]
    /\ pc' = IF request_num \in Index /\ requests[request_num] \in Request
             THEN "done" ELSE "fault"
    /\ UNCHANGED <<given, requests, content, request_num, ts_sent, next,
                   submitted, result>>

-----------------------------------------------------------------------------
(* The other users of the slab *)

OtherTakesBlock(r) ==
    /\ owner[r] = "free"
    /\ owner' = [owner EXCEPT ![r] = "other"]
    /\ UNCHANGED <<given, pc, requests, content, request_num, ts_sent, next,
                   submitted, result>>

\* A response frees a block, of this call or of another one.
thingsboard_handle_response(r) ==
    /\ owner[r] \in {"coap", "other"}
    /\ owner' = [owner EXCEPT ![r] = "free"]
    /\ UNCHANGED <<given, pc, requests, content, request_num, ts_sent, next,
                   submitted, result>>

Next ==
    \/ PrepareMessage
    \/ PrepareWithoutBlock
    \/ Prepared
    \/ SendMessage
    \/ SendFails
    \/ SendDone
    \/ free_requests
    \/ \E r \in Request : OtherTakesBlock(r)
    \/ \E r \in Request : thingsboard_handle_response(r)

Spec == Init /\ [][Next]_vars

-----------------------------------------------------------------------------
(* Properties *)

\* While the call runs it owns exactly the blocks of its unsent messages, a
\* different one for each, and when it has returned it owns none: nothing is
\* leaked or freed twice on any of its ways out.
BlocksOfCall ==
    LET unsent == next .. request_num - 1
        mine == {r \in Request : owner[r] = "call"}
    IN
    /\ pc \in {"prepare", "send"} =>
          /\ mine = {requests[k] : k \in unsent}
          /\ \A j, k \in unsent : requests[j] = requests[k] => j = k
    /\ pc = "done" => mine = {}

\* What is sent is the batch from its start, each entry once and in order;
\* all of it if the call succeeds, and nothing if it could not be prepared
\* (the comment at thingsboard.c:489, as far as it goes).
SentInOrder ==
    /\ submitted = [k \in 1 .. Len(submitted) |-> k]
    /\ result = OK => Len(submitted) = Len(ts)
    /\ result \in {ENOMEM, EINVAL} => submitted = <<>>

Slab == INSTANCE RequestSlab WITH
    Sender  <- {"call"},
    Purpose <- {"coap", "other"},
    Nobody  <- "free",
    place   <- [r \in Request |->
                   CASE owner[r] = "free" -> "free"
                     [] owner[r] = "call" -> "prepared"
                     [] OTHER             -> "lent"],
    user    <- owner

\* The call and the other users share the slab as RequestSlab.tla says: in
\* particular the call never gives back a block that the CoAP client still
\* has, whichever message fails.
ImplementsSlab == Slab!Spec

\* Every prepared JSON message fits into the payload with its delimiter, has
\* the length of its brackets, entries and commas (nothing of an entry that
\* did not fit stays behind), and takes as many entries as it can.
MessagesSound ==
    format = "JSON" =>
        \A k \in 0 .. request_num - 1 :
            LET sizes == SubSeq(ts, content[k][1], Len(ts))
                n == Len(content[k])
                msg == EncodeJson(sizes, PayloadSize)
            IN  /\ SoundJson(sizes, PayloadSize, n, msg.len)
                /\ msg.ret = OK /\ MaximalJson(sizes, PayloadSize, n)

\* A batch is refused as invalid only because of an entry that cannot be sent
\* by itself; otherwise it is split.
OnlyForAnEntry ==
    result = EINVAL =>
        \E i \in DOMAIN ts : thingsboard_timeseries_encode(<<ts[i]>>).count = 0

\* The JSON encoder splits a batch that is too large for one message, and the
\* comma and the bracket it has to take back never make it refuse one.
SplitsLargeBatches == format = "JSON" => OnlyForAnEntry

\* "Data might be sent in multiple messages" (thingsboard.h:225), as the encoder
\* of either format returns "the amount of `thingsboard_timeseries` objects,
\* which could be fitted into `buffer`" (tb_internal.h:370).
SplitsEveryBatch == OnlyForAnEntry

\* "Free slab, previous allocated with thingsboard_request_alloc()"
\* (tb_internal.h:114): nothing else is ever given to the slab.
FreesAllocatedBlocks == pc # "fault"
=============================================================================
