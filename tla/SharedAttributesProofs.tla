------------------------ MODULE SharedAttributesProofs ------------------------
(***************************************************************************)
(* Proofs about SharedAttributes, for any schema, values and number of     *)
(* notifications on the way: the device's attributes are those of one      *)
(* moment, and the present ones when all notifications are handled.        *)
(***************************************************************************)
EXTENDS SharedAttributes, TLAPS

\* A notification takes a device that has old to the state it announces: it
\* carries what is new, and nothing else.
LeadsOn(old, notification) ==
    /\ \A f \in DOMAIN notification.changes :
           notification.attributes[f] = notification.changes[f]
    /\ \A f \in IsSet(notification.attributes) \ DOMAIN notification.changes :
           notification.attributes[f] = old[f]

\* The notifications on the way lead from what the device has seen to what
\* the server has now, one after the other.
Chain ==
    /\ ~observed => sent = <<>>
    /\ observed /\ sent = <<>> => seen = server
    /\ sent # <<>> => /\ LeadsOn(seen, sent[1])
                      /\ sent[Len(sent)].attributes = server
    /\ \A i \in 1 .. Len(sent) - 1 :
           LeadsOn(sent[i].attributes, sent[i + 1])

AttributesInv == AttributesTypeOK /\ Chain /\ OneMoment

-----------------------------------------------------------------------------
(* The operators *)

LEMMA NoneSent == <<>> \in Seq(Notification)
OBVIOUS

LEMMA OneSent ==
  ASSUME NEW n \in Notification PROVE <<n>> \in Seq(Notification)
OBVIOUS

LEMMA MergeLeadsOn ==
  ASSUME NEW changes \in Changes, NEW old \in Attributes
  PROVE  /\ Merge(changes, old) \in Attributes
         /\ LeadsOn(old, [changes |-> changes,
                          attributes |-> Merge(changes, old)])
<1>1. PICK fields \in SUBSET Field : changes \in [fields -> Value]
  BY DEF Changes
<1>. QED BY <1>1 DEF Merge, LeadsOn, IsSet, Attributes

LEMMA DeletionLeadsOn ==
  ASSUME NEW fields, NEW old \in Attributes
  PROVE  /\ <<>> \in Changes
         /\ Without(fields, old) \in Attributes
         /\ LeadsOn(old, [changes |-> <<>>,
                          attributes |-> Without(fields, old)])
<1>1. <<>> \in [{} -> Value]
  OBVIOUS
<1>2. <<>> \in Changes
  BY <1>1 DEF Changes
<1>3. DOMAIN <<>> = {}
  OBVIOUS
<1>. QED BY <1>2, <1>3 DEF Without, LeadsOn, IsSet, Attributes

LEMMA SnapshotLeadsOn ==
  ASSUME NEW attributes \in Attributes, NEW old
  PROVE  /\ Snapshot(attributes) \in Changes
         /\ LeadsOn(old, [changes |-> Snapshot(attributes),
                          attributes |-> attributes])
<1>1. IsSet(attributes) \in SUBSET Field
  BY DEF IsSet
<1>2. Snapshot(attributes) \in [IsSet(attributes) -> Value]
  BY DEF Snapshot, IsSet, Attributes
<1>. QED BY <1>1, <1>2 DEF Snapshot, Changes, LeadsOn

\* What is stored of a notification is what it says, but for the attributes
\* it counts as unstorable.
LEMMA StoredAsSent ==
  ASSUME NEW changes \in Changes, NEW f \in DOMAIN changes \ Unstorable(changes)
  PROVE  thingsboard_attributes_update(changes)[f] = changes[f]
<1>1. f \in Field /\ Order[f] \in Nat
  BY AttributesAssumption DEF Changes
<1>2. changes[f] \notin TooLong
  BY <1>1 DEF Unstorable, Copied
<1>3. format = "JSON" => Copied(changes, f)
  BY DEF Unstorable
<1>. QED BY <1>1, <1>2, <1>3 DEF thingsboard_attributes_update, Stored

LEMMA UpdateTyped ==
  ASSUME NEW changes \in Changes, shared \in Attributes
  PROVE  /\ thingsboard_attributes_update(changes) \in Attributes
         /\ \A f \in Field \ DOMAIN changes :
                thingsboard_attributes_update(changes)[f] = shared[f]
         /\ Unstorable(changes) \subseteq DOMAIN changes
         /\ DOMAIN changes \subseteq Field
<1>1. PICK fields \in SUBSET Field : changes \in [fields -> Value]
  BY DEF Changes
<1>2. \A f \in fields : Stored(changes[f]) \in Value
  BY <1>1, AttributesAssumption DEF Stored
<1>. QED BY <1>1, <1>2
       DEF thingsboard_attributes_update, Unstorable, Attributes

-----------------------------------------------------------------------------
(* The server *)

LEMMA AnnounceKeeps ==
  ASSUME AttributesInv, NEW changes \in Changes, NEW attributes \in Attributes,
         LeadsOn(server, [changes |-> changes, attributes |-> attributes]),
         Announce(changes, attributes)
  PROVE  AttributesInv'
<1> DEFINE n == [changes |-> changes, attributes |-> attributes]
<1>1. n \in Notification /\ sent \in Seq(Notification)
  BY DEF Notification, AttributesInv, AttributesTypeOK
<1>2. /\ server' = attributes
      /\ UNCHANGED <<format, observed, subscribed, shared, seen, unstored>>
      /\ IF observed THEN sent' = Append(sent, n) ELSE UNCHANGED sent
  BY DEF Announce
<1>3. AttributesTypeOK'
  BY <1>1, <1>2 DEF AttributesInv, AttributesTypeOK
<1>4. OneMoment'
  BY <1>2 DEF AttributesInv, OneMoment, Agrees, IsSet
<1>5. CASE ~observed
  <2>1. sent = <<>> /\ sent' = <<>> /\ ~observed'
    BY <1>2, <1>5 DEF AttributesInv, Chain
  <2>2. Chain'
    BY <2>1 DEF Chain
  <2>. QED BY <2>2, <1>3, <1>4 DEF AttributesInv
<1>6. CASE observed
  <2>1. /\ sent' # <<>>
        /\ Len(sent') = Len(sent) + 1
        /\ sent'[Len(sent')] = n
        /\ \A i \in 1 .. Len(sent) : sent'[i] = sent[i]
        /\ Len(sent) \in Nat
    BY <1>1, <1>2, <1>6
  <2>2. LeadsOn(seen, sent'[1])
    <3>1. CASE sent = <<>>
      BY <3>1, <2>1, <1>6 DEF AttributesInv, Chain
    <3>2. CASE sent # <<>>
      <4>1. Len(sent) >= 1
        BY <3>2, <1>1
      <4>. QED BY <3>2, <4>1, <2>1 DEF AttributesInv, Chain
    <3>. QED BY <3>1, <3>2
  <2>3. ASSUME NEW i \in 1 .. Len(sent') - 1
        PROVE  LeadsOn(sent'[i].attributes, sent'[i + 1])
    <3>1. CASE i = Len(sent)
      <4>1. sent[Len(sent)].attributes = server
        BY <3>1, <2>1, <1>1 DEF AttributesInv, Chain
      <4>. QED BY <3>1, <4>1, <2>1
    <3>2. CASE i \in 1 .. Len(sent) - 1
      BY <3>2, <2>1 DEF AttributesInv, Chain
    <3>. QED BY <3>1, <3>2, <2>1
  <2>4. LeadsOn(seen, sent'[1]) <=> LeadsOn(seen', sent'[1])
    BY <1>2
  <2>5. Chain'
    BY <1>2, <1>6, <2>1, <2>2, <2>3 DEF Chain, LeadsOn, IsSet
  <2>. QED BY <2>5, <1>3, <1>4 DEF AttributesInv
<1>. QED BY <1>5, <1>6

LEMMA ServerSetsKeeps == AttributesInv /\ ServerSets => AttributesInv'
<1> SUFFICES ASSUME AttributesInv, NEW changes \in Assignments,
                    Announce(changes, Merge(changes, server))
             PROVE  AttributesInv'
  BY DEF ServerSets
<1>1. changes \in Changes /\ server \in Attributes
  BY AttributesAssumption DEF AttributesInv, AttributesTypeOK
<1>. QED BY <1>1, MergeLeadsOn, AnnounceKeeps

LEMMA ServerDeletesKeeps == AttributesInv /\ ServerDeletes => AttributesInv'
<1> SUFFICES ASSUME AttributesInv, NEW fields \in Deletions,
                    Announce(<<>>, Without(fields, server))
             PROVE  AttributesInv'
  BY DEF ServerDeletes
<1>1. server \in Attributes
  BY DEF AttributesInv, AttributesTypeOK
<1>. QED BY <1>1, DeletionLeadsOn, AnnounceKeeps

\* Nothing is on the way, and nobody observes.
LEMMA UnobservedKeeps ==
  ASSUME AttributesInv, Unobserved, subscribed' \in BOOLEAN,
         UNCHANGED <<format, server, shared, seen, unstored>>
  PROVE  AttributesInv'
<1>1. AttributesTypeOK'
  BY NoneSent DEF Unobserved, AttributesInv, AttributesTypeOK
<1>2. Chain'
  BY DEF Unobserved, Chain
<1>3. OneMoment'
  BY DEF AttributesInv, OneMoment, Agrees, IsSet
<1>. QED BY <1>1, <1>2, <1>3 DEF AttributesInv

LEMMA ForgetAttributesKeeps ==
  AttributesInv /\ ForgetAttributes => AttributesInv'
<1> SUFFICES ASSUME AttributesInv, ForgetAttributes PROVE AttributesInv'
  OBVIOUS
<1>1. /\ observed' = FALSE /\ sent' = <<>> /\ subscribed' = FALSE
      /\ shared' = Nothing /\ seen' = Nothing /\ unstored' = {}
      /\ UNCHANGED <<format, server>>
  BY DEF ForgetAttributes, Unobserved
<1>2. Nothing \in Attributes
  BY DEF Nothing, Attributes
<1>3. AttributesTypeOK'
  BY <1>1, <1>2, NoneSent DEF AttributesInv, AttributesTypeOK
<1>4. Chain'
  BY <1>1 DEF Chain
<1>5. OneMoment'
  BY <1>1 DEF OneMoment, Agrees
<1>. QED BY <1>3, <1>4, <1>5 DEF AttributesInv

LEMMA SubscribeKeeps ==
  AttributesInv /\ thingsboard_client_subscribe_attributes => AttributesInv'
<1> SUFFICES ASSUME AttributesInv, thingsboard_client_subscribe_attributes
             PROVE  AttributesInv'
  OBVIOUS
<1> DEFINE n == [changes |-> Snapshot(server), attributes |-> server]
<1>1. /\ subscribed' = TRUE
      /\ \/ observed' = TRUE /\ sent' = <<n>>
         \/ UNCHANGED <<observed, sent>>
      /\ UNCHANGED <<format, server, shared, seen, unstored>>
  BY DEF thingsboard_client_subscribe_attributes, ServerObserves
<1>2. n \in Notification /\ LeadsOn(seen, n)
  BY SnapshotLeadsOn DEF Notification, AttributesInv, AttributesTypeOK
<1>3. AttributesTypeOK'
  <2>1. sent' \in Seq(Notification) /\ observed' \in BOOLEAN
    <3>1. <<n>> \in Seq(Notification)
      BY <1>2, OneSent
    <3>. QED BY <3>1, <1>1 DEF AttributesInv, AttributesTypeOK
  <2>. QED BY <1>1, <2>1 DEF AttributesInv, AttributesTypeOK
<1>4. OneMoment'
  BY <1>1 DEF AttributesInv, OneMoment, Agrees, IsSet
<1>5. Chain'
  <2>1. CASE observed' = TRUE /\ sent' = <<n>>
    <3>1. Len(sent') = 1 /\ sent'[1] = n /\ sent' # <<>>
      BY <2>1
    <3>. QED BY <3>1, <2>1, <1>1, <1>2 DEF Chain, LeadsOn, IsSet
  <2>2. CASE UNCHANGED <<observed, sent>>
    BY <1>1, <2>2 DEF AttributesInv, Chain, LeadsOn, IsSet
  <2>. QED BY <1>1, <2>1, <2>2
<1>. QED BY <1>3, <1>4, <1>5 DEF AttributesInv

-----------------------------------------------------------------------------
(* The device *)

\* The chain gets shorter by what has been received, or stays.
LEMMA ReceiveKeepsChain ==
  ASSUME AttributesInv, Receive
  PROVE  /\ Chain'
         /\ sent' \in Seq(Notification)
         /\ Head(sent) \in Notification
         /\ LeadsOn(seen, Head(sent))
         /\ seen' = Head(sent).attributes
<1>1. /\ sent # <<>> /\ sent \in Seq(Notification)
      /\ sent' \in {Tail(sent), sent}
      /\ seen' = sent[1].attributes
      /\ Head(sent) = sent[1]
      /\ UNCHANGED <<server, observed>>
      /\ Len(sent) \in Nat \ {0}
  BY DEF Receive, AttributesInv, AttributesTypeOK
<1>2. /\ LeadsOn(seen, sent[1])
      /\ sent[Len(sent)].attributes = server
      /\ observed
      /\ \A i \in 1 .. Len(sent) - 1 :
             LeadsOn(sent[i].attributes, sent[i + 1])
  BY <1>1 DEF AttributesInv, Chain
<1>3. sent[1] \in Notification /\ sent' \in Seq(Notification)
  BY <1>1
<1>4. CASE sent' = sent
  <2>1. LeadsOn(sent[1].attributes, sent[1])
    BY <1>2 DEF LeadsOn
  <2>2. LeadsOn(seen', sent'[1])
    BY <1>1, <1>4, <2>1
  <2>3. Chain'
    BY <1>1, <1>2, <1>4, <2>2 DEF Chain, LeadsOn, IsSet
  <2>. QED BY <1>1, <1>2, <1>3, <2>3
<1>5. CASE sent' = Tail(sent)
  <2>1. /\ Len(sent') = Len(sent) - 1
        /\ \A i \in 1 .. Len(sent') : sent'[i] = sent[i + 1]
        /\ sent' = <<>> => Len(sent) = 1
        /\ sent' # <<>> => Len(sent) > 1
    <3>1. Len(sent') = Len(sent) - 1
      BY <1>1, <1>5
    <3>2. \A i \in 1 .. Len(sent') : sent'[i] = sent[i + 1]
      BY <1>1, <1>5, <3>1
    <3>3. sent' = <<>> <=> Len(sent') = 0
      BY <1>3
    <3>. QED BY <1>1, <3>1, <3>2, <3>3
  <2>2. observed /\ sent' = <<>> => seen' = server
    BY <1>1, <1>2, <2>1
  <2>3. sent' # <<>> => /\ LeadsOn(seen', sent'[1])
                        /\ sent'[Len(sent')].attributes = server
    BY <1>1, <1>2, <2>1
  <2>4. ASSUME NEW i \in 1 .. Len(sent') - 1
        PROVE  LeadsOn(sent'[i].attributes, sent'[i + 1])
    BY <1>1, <1>2, <2>1
  <2>5. Chain'
    BY <1>1, <1>2, <2>2, <2>3, <2>4 DEF Chain, LeadsOn, IsSet
  <2>. QED BY <1>1, <1>2, <1>3, <2>5
<1>. QED BY <1>1, <1>4, <1>5

LEMMA StoreKeeps == AttributesInv /\ StoreChanges => AttributesInv'
<1> SUFFICES ASSUME AttributesInv, StoreChanges PROVE AttributesInv'
  OBVIOUS
<1> DEFINE n == Head(sent)
           changes == n.changes
<1>1. /\ Receive
      /\ shared' = thingsboard_attributes_update(changes)
      /\ unstored' = (unstored \ DOMAIN changes) \cup Unstorable(changes)
      /\ UNCHANGED <<format, server, observed, subscribed>>
  BY DEF StoreChanges, Receive
<1>2. /\ Chain' /\ sent' \in Seq(Notification) /\ n \in Notification
      /\ LeadsOn(seen, n) /\ seen' = n.attributes
  BY <1>1, ReceiveKeepsChain
<1>3. changes \in Changes /\ n.attributes \in Attributes
  BY <1>2 DEF Notification
<1>4. /\ shared' \in Attributes
      /\ \A f \in Field \ DOMAIN changes : shared'[f] = shared[f]
      /\ Unstorable(changes) \subseteq DOMAIN changes
      /\ DOMAIN changes \subseteq Field
  BY <1>1, <1>3, UpdateTyped DEF AttributesInv, AttributesTypeOK
<1>5. AttributesTypeOK'
  BY <1>1, <1>2, <1>3, <1>4 DEF AttributesInv, AttributesTypeOK
<1>6. ASSUME NEW f \in IsSet(n.attributes) \ unstored'
      PROVE  shared'[f] = n.attributes[f]
  <2>1. CASE f \in DOMAIN changes
    BY <1>1, <1>2, <1>3, <1>6, <2>1, StoredAsSent DEF LeadsOn
  <2>2. CASE f \notin DOMAIN changes
    <3>1. f \in Field /\ n.attributes[f] # Unset /\ f \notin unstored
      BY <1>1, <1>6, <2>2 DEF IsSet
    <3>2. n.attributes[f] = seen[f]
      BY <1>2, <1>6, <2>2 DEF LeadsOn
    <3>3. shared[f] = seen[f]
      BY <3>1, <3>2 DEF AttributesInv, OneMoment, Agrees, IsSet
    <3>. QED BY <1>4, <2>2, <3>1, <3>2, <3>3
  <2>. QED BY <2>1, <2>2
<1>7. OneMoment'
  BY <1>2, <1>6 DEF OneMoment, Agrees, IsSet
<1>. QED BY <1>2, <1>5, <1>7 DEF AttributesInv

LEMMA UndecodableKeeps ==
  AttributesInv /\ NotificationUndecodable => AttributesInv'
<1> SUFFICES ASSUME AttributesInv, NotificationUndecodable
             PROVE  AttributesInv'
  OBVIOUS
<1> DEFINE n == Head(sent)
<1>1. /\ Receive /\ shared' = shared
      /\ unstored' = unstored \cup DOMAIN n.changes
      /\ UNCHANGED <<format, server, observed, subscribed>>
  BY DEF NotificationUndecodable, Receive
<1>2. /\ Chain' /\ sent' \in Seq(Notification) /\ n \in Notification
      /\ LeadsOn(seen, n) /\ seen' = n.attributes
  BY <1>1, ReceiveKeepsChain
<1>3. DOMAIN n.changes \subseteq Field /\ n.attributes \in Attributes
  BY <1>2 DEF Notification, Changes
<1>4. AttributesTypeOK'
  BY <1>1, <1>2, <1>3 DEF AttributesInv, AttributesTypeOK
<1>5. OneMoment'
  BY <1>1, <1>2 DEF AttributesInv, OneMoment, Agrees, LeadsOn, IsSet
<1>. QED BY <1>2, <1>4, <1>5 DEF AttributesInv

-----------------------------------------------------------------------------
(* Theorems *)

LEMMA AttributesKept ==
  AttributesInv /\ [AttributesNext]_attributesVars => AttributesInv'
<1> SUFFICES ASSUME AttributesInv, [AttributesNext]_attributesVars
             PROVE  AttributesInv'
  OBVIOUS
<1>1. CASE ServerForgets
  BY <1>1, UnobservedKeeps DEF ServerForgets, AttributesInv, AttributesTypeOK
<1>2. CASE ObservationEnds
  BY <1>2, UnobservedKeeps DEF ObservationEnds
<1>3. CASE NotificationTooLong \/ NotificationStored
  BY <1>3, StoreKeeps DEF NotificationTooLong, NotificationStored
<1>4. CASE UNCHANGED attributesVars
  BY <1>4 DEF attributesVars, AttributesInv, AttributesTypeOK, Chain,
              OneMoment, Agrees, LeadsOn, IsSet
<1>. QED BY <1>1, <1>2, <1>3, <1>4, ServerSetsKeeps, ServerDeletesKeeps,
            SubscribeKeeps, ForgetAttributesKeeps, UndecodableKeeps
         DEF AttributesNext

LEMMA AttributesStarted == AttributesInit => AttributesInv
<1> SUFFICES ASSUME AttributesInit PROVE AttributesInv
  OBVIOUS
<1>1. Nothing \in Attributes
  BY DEF Nothing, Attributes
<1>2. AttributesTypeOK
  BY <1>1, NoneSent DEF AttributesInit, AttributesTypeOK
<1>3. Chain /\ OneMoment
  BY DEF AttributesInit, Chain, OneMoment, Agrees
<1>. QED BY <1>2, <1>3 DEF AttributesInv

LEMMA AttributesInductive == AttributesSpec => []AttributesInv
BY AttributesStarted, AttributesKept, PTL DEF AttributesSpec

\* The attributes, at the server, on the way and on the device, are values of
\* the schema's fields.
THEOREM AttributesTypeCorrect == AttributesSpec => []AttributesTypeOK
BY AttributesInductive, PTL DEF AttributesInv

\* The device's attributes are those the server had at one moment.
THEOREM NeverMixed == AttributesSpec => []OneMoment
BY AttributesInductive, PTL DEF AttributesInv

LEMMA InvUpToDate == AttributesInv => UpToDate
BY DEF AttributesInv, Chain, OneMoment, UpToDate

\* When every notification is handled, the device's attributes are the
\* server's.
THEOREM ObservedUpToDate == AttributesSpec => []UpToDate
BY InvUpToDate, AttributesInductive, PTL
=============================================================================
