--------------------------- MODULE SharedAttributes ---------------------------
(***************************************************************************)
(* The device's copy of its shared attributes (thingsboard.c and the two   *)
(* message formats).  The device observes the attributes; the server       *)
(* answers with all of them and from then on sends what changes.  The      *)
(* handler decodes a notification and merges it into shared_attributes,    *)
(* field by field: the JSON merge stops at the first string that is too    *)
(* long, the Protobuf one cuts it.  Deleted attributes are ignored.        *)
(*                                                                         *)
(* The server is external: it keeps the order of its notifications, sends  *)
(* one again if it is not acknowledged, and forgets the observation when   *)
(* one stays unacknowledged.  The device rejects the notifications of an   *)
(* observation that has ended, so that it ends for both at once here.      *)
(***************************************************************************)
EXTENDS Naturals, Sequences

CONSTANTS
    Field,        \* the attributes of the schema
    Order,        \* their order in the generated code
    Value,        \* their values
    TooLong,      \* strings of THINGSBOARD_MAX_STRINGS_LENGTH or more bytes
    Cut,          \* what strncpy makes of them
    Unset,        \* no value: has_<field> is false
    Assignments,  \* what the server may set at once
    Deletions,    \* what it may delete at once
    MaxSent       \* bound: notifications on the way

Changes == UNION {[fields -> Value] : fields \in SUBSET Field}

ASSUME AttributesAssumption ==
    /\ Order \in [Field -> Nat]
    /\ TooLong \subseteq Value
    /\ Cut \in [TooLong -> Value]
    /\ Unset \notin Value
    /\ Assignments \subseteq Changes
    /\ Deletions \subseteq SUBSET Field
    /\ MaxSent \in Nat

VARIABLES
    format,       \* CONFIG_THINGSBOARD_CONTENT_FORMAT
    server,       \* the attributes at the server
    observed,     \* the server keeps the observation
    sent,         \* notifications on the way: changes, and the state they make
    subscribed,   \* attributes_observation # NULL
    shared,       \* thingsboard_client.shared_attributes
    seen,         \* the server's attributes as of the last notification handled
    unstored      \* attributes of which the last value sent was not stored

attributesVars == <<format, server, observed, sent, subscribed, shared,
                    seen, unstored>>

Attributes == [Field -> Value \cup {Unset}]

Notification == [changes : Changes, attributes : Attributes]

AttributesTypeOK ==
    /\ format \in {"JSON", "Protobuf"}
    /\ server \in Attributes
    /\ observed \in BOOLEAN
    /\ sent \in Seq(Notification)
    /\ subscribed \in BOOLEAN
    /\ shared \in Attributes
    /\ seen \in Attributes
    /\ unstored \subseteq Field

Nothing == [f \in Field |-> Unset]

AttributesInit ==
    /\ format \in {"JSON", "Protobuf"}
    /\ server = Nothing
    /\ observed = FALSE
    /\ sent = <<>>
    /\ subscribed = FALSE
    /\ shared = Nothing
    /\ seen = Nothing
    /\ unstored = {}

-----------------------------------------------------------------------------
(* The server *)

\* attributes with the changes made to them.
Merge(changes, attributes) ==
    [f \in Field |->
        IF f \in DOMAIN changes THEN changes[f] ELSE attributes[f]]

Without(fields, attributes) ==
    [f \in Field |-> IF f \in fields THEN Unset ELSE attributes[f]]

IsSet(attributes) == {f \in Field : attributes[f] # Unset}

\* All the attributes that are set.
Snapshot(attributes) == [f \in IsSet(attributes) |-> attributes[f]]

\* The server's attributes change, and the device is told what was set.
Announce(changes, attributes) ==
    /\ server' = attributes
    /\ IF observed
       THEN /\ Len(sent) < MaxSent
            /\ sent' = Append(sent, [changes |-> changes,
                                     attributes |-> attributes])
       ELSE UNCHANGED sent
    /\ UNCHANGED <<format, observed, subscribed, shared, seen, unstored>>

ServerSets ==
    \E changes \in Assignments : Announce(changes, Merge(changes, server))

\* A notification with sharedDeleted, or "deleted", and no values.
ServerDeletes ==
    \E fields \in Deletions : Announce(<<>>, Without(fields, server))

\* The observation is over for the server: no notification is on the way.
Unobserved == observed' = FALSE /\ sent' = <<>>

\* A notification is not acknowledged after all retransmissions; the others
\* are not sent any more, and the device does not learn of it.
ServerForgets ==
    /\ observed
    /\ sent # <<>>
    /\ Unobserved
    /\ UNCHANGED <<format, server, subscribed, shared, seen, unstored>>

-----------------------------------------------------------------------------
(* Observing *)

\* The server answers with all the attributes.
ServerObserves ==
    /\ observed' = TRUE
    /\ sent' = <<[changes |-> Snapshot(server), attributes |-> server]>>

\* The request arrives, or is lost and ends the observation later.
thingsboard_client_subscribe_attributes ==
    /\ ~subscribed
    /\ subscribed' = TRUE
    /\ ServerObserves \/ UNCHANGED <<observed, sent>>
    /\ UNCHANGED <<format, server, shared, seen, unstored>>

\* client_handle_attribute_notification with -ECANCELED, a timeout or a
\* reset.  The device forgets the observed, and keeps the attributes.
ObservationEnds ==
    /\ subscribed
    /\ subscribed' = FALSE
    /\ Unobserved
    /\ UNCHANGED <<format, server, shared, seen, unstored>>

\* RAM is lost.
ForgetAttributes ==
    /\ subscribed' = FALSE
    /\ Unobserved
    /\ shared' = Nothing
    /\ seen' = Nothing
    /\ unstored' = {}
    /\ UNCHANGED <<format, server>>

-----------------------------------------------------------------------------
(* client_handle_attribute_notification *)

\* The generated code copies the fields in their order and returns at the
\* first string that does not fit.
Copied(changes, f) ==
    \A g \in DOMAIN changes :
        Order[g] <= Order[f] => changes[g] \notin TooLong

Fits(changes) == \A f \in DOMAIN changes : changes[f] \notin TooLong

\* What is not stored as it was sent.
Unstorable(changes) ==
    IF format = "JSON" THEN {f \in DOMAIN changes : ~Copied(changes, f)}
                       ELSE {f \in DOMAIN changes : changes[f] \in TooLong}

Stored(value) == IF value \in TooLong THEN Cut[value] ELSE value

\* Mutated, a field that has a value keeps it.
MutantUpdate(changes) ==
    [f \in Field |-> IF f \in DOMAIN changes /\ shared[f] = Unset
                     THEN Stored(changes[f]) ELSE shared[f]]
thingsboard_attributes_update(changes) ==
    [f \in Field |->
        IF f \in DOMAIN changes /\ (format = "JSON" => Copied(changes, f))
        THEN Stored(changes[f]) ELSE shared[f]]

\* The notification reaches the device; if its acknowledgement is lost, it
\* comes again.
Receive ==
    /\ subscribed
    /\ sent # <<>>
    /\ sent' \in {Tail(sent), sent}
    /\ seen' = Head(sent).attributes
    /\ UNCHANGED <<format, server, observed, subscribed>>

\* A value of the wrong type, or a payload of several blocks.
NotificationUndecodable ==
    /\ Receive
    /\ unstored' = unstored \cup DOMAIN Head(sent).changes
    /\ UNCHANGED shared

StoreChanges ==
    /\ Receive
    /\ shared' = thingsboard_attributes_update(Head(sent).changes)
    /\ unstored' = (unstored \ DOMAIN Head(sent).changes)
                       \cup Unstorable(Head(sent).changes)

\* The update fails half way, and the handler returns.
NotificationTooLong ==
    /\ StoreChanges
    /\ format = "JSON" /\ ~Fits(Head(sent).changes)

\* What follows, the check for new firmware and the callback of the
\* application, sees the attributes merged.
NotificationStored ==
    /\ StoreChanges
    /\ format = "JSON" => Fits(Head(sent).changes)

AttributesNext ==
    \/ ServerSets
    \/ ServerDeletes
    \/ ServerForgets
    \/ thingsboard_client_subscribe_attributes
    \/ ObservationEnds
    \/ ForgetAttributes
    \/ NotificationUndecodable
    \/ NotificationTooLong
    \/ NotificationStored

AttributesSpec == AttributesInit /\ [][AttributesNext]_attributesVars

-----------------------------------------------------------------------------
(* Properties *)

\* The device agrees with attributes on everything they set, except the
\* fields that could not be stored.
Agrees(attributes) ==
    \A f \in IsSet(attributes) \ unstored : shared[f] = attributes[f]

\* The device's attributes are those the server had at one moment: merging
\* changes, some of them twice, losing others with the observation and
\* getting all of them again never mixes values of different moments.
OneMoment == Agrees(seen)

\* An observed device that has handled everything sent to it agrees with the
\* server as it is now, whatever was lost, deleted or repeated before.
UpToDate ==
    observed /\ sent = <<>> => Agrees(server)
=============================================================================
