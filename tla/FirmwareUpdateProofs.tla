------------------------- MODULE FirmwareUpdateProofs -------------------------
(***************************************************************************)
(* Proofs about FirmwareUpdate.  The composition does nothing that Fota    *)
(* and SharedAttributes do not do on their own, so that their theorems     *)
(* hold of it; and what is installed is an image the server named.         *)
(***************************************************************************)
EXTENDS FirmwareUpdate, FotaProofs, SharedAttributesProofs

NoFirmware(attributes) == \A f \in Firmware : attributes[f] = Unset

ImageOrNone(attributes) == NoFirmware(attributes) \/ NamesImage(attributes)

\* Changes are those of one image, or of no image.
NamesTogether(changes) ==
    \/ Firmware \cap DOMAIN changes = {}
    \/ Firmware \subseteq DOMAIN changes /\ NamesImage(changes)

\* Images are named as a whole, at the server, on the way and, if they could
\* be stored, on the device.
NamingInv ==
    /\ ImageOrNone(server)
    /\ \A i \in 1 .. Len(sent) : NamesTogether(sent[i].changes)
    /\ unstored \cap Firmware = {} => ImageOrNone(shared)
    /\ shared["fw_size"] \in Nat \cup {Unset}

\* The target was named and its size is right, unless a block that was not
\* the first came to an empty slot, which then remains without a first block.
TargetInv ==
    ~misnamed /\ ~mixed =>
        \/ /\ size = ImageLen[target]
           /\ \E image \in FirmwareAssignments : Named(image) = target
        \/ /\ ~applied
           /\ size = 0 /\ offset = 0
           /\ \A k \in Running : transfers[k].number # 1

FirmwareInv ==
    /\ FotaInv
    /\ AttributesInv
    /\ NamingInv
    /\ misnamed \in BOOLEAN
    /\ subscribed => connected
    /\ TargetInv

-----------------------------------------------------------------------------
(* The attributes *)

LEMMA AttributesPart ==
  FirmwareNext => [AttributesNext]_attributesVars
<1> SUFFICES ASSUME FirmwareNext PROVE [AttributesNext]_attributesVars
  OBVIOUS
<1>1. CASE Connect
  BY <1>1 DEF Connect, AttributesNext
<1>2. CASE Resubscribe
  BY <1>2 DEF Resubscribe, AttributesNext
<1>3. CASE CheckFirmware
  BY <1>3 DEF CheckFirmware, AttributesNext
<1>4. CASE NotificationFails
  BY <1>4 DEF NotificationFails, AttributesNext
<1>5. CASE AttributesStep
  BY <1>5 DEF AttributesStep, AttributesNext
<1>6. CASE FirmwareStep
  BY <1>6 DEF FirmwareStep
<1>7. CASE Restart
  BY <1>7 DEF Restart, AttributesNext
<1>. QED BY <1>1, <1>2, <1>3, <1>4, <1>5, <1>6, <1>7 DEF FirmwareNext

\* Of an image that is named only what the device can store.
LEMMA ImageTyped ==
  ASSUME NEW changes \in FirmwareAssignments
  PROVE  /\ changes \in Changes /\ Firmware \subseteq DOMAIN changes
         /\ changes["fw_size"] \in Nat \ TooLong
         /\ changes["fw_size"] = ImageLen[Named(changes)]
         /\ \A f \in Firmware : changes[f] \in Value
<1>1. changes \in Changes /\ Firmware \subseteq DOMAIN changes
  BY AttributesAssumption DEF FirmwareAssignments
<1>2. \A f \in Firmware : changes[f] \in Value
  BY <1>1 DEF Changes
<1>3. Named(changes) \in Image
  BY <1>2, FirmwareAssumption DEF Named, Firmware
<1>. QED BY <1>1, <1>2, <1>3, FirmwareAssumption, FotaAssumption

LEMMA AnnounceNames ==
  ASSUME NamingInv, sent \in Seq(Notification), NEW changes, NEW attributes,
         ImageOrNone(attributes), NamesTogether(changes),
         Announce(changes, attributes)
  PROVE  NamingInv'
<1> DEFINE n == [changes |-> changes, attributes |-> attributes]
<1>1. /\ server' = attributes
      /\ sent' = Append(sent, n) \/ sent' = sent
      /\ UNCHANGED <<shared, unstored>>
  BY DEF Announce
<1>2. \A i \in 1 .. Len(sent') : NamesTogether(sent'[i].changes)
  <2>1. CASE sent' = Append(sent, n)
    <3>1. /\ Len(sent') = Len(sent) + 1 /\ Len(sent) \in Nat
          /\ sent'[Len(sent) + 1] = n
          /\ \A i \in 1 .. Len(sent) : sent'[i] = sent[i]
      BY <2>1
    <3>. QED BY <3>1 DEF NamingInv
  <2>2. CASE sent' = sent
    BY <2>2 DEF NamingInv
  <2>. QED BY <1>1, <2>1, <2>2
<1>. QED BY <1>1, <1>2
       DEF NamingInv, ImageOrNone, NoFirmware, NamesImage, NamesTogether

LEMMA SubscribeNames ==
  ASSUME AttributesInv, NamingInv, thingsboard_client_subscribe_attributes
  PROVE  NamingInv'
<1> DEFINE n == [changes |-> Snapshot(server), attributes |-> server]
<1>1. /\ sent' = <<n>> \/ sent' = sent
      /\ UNCHANGED <<server, shared, unstored>>
  BY DEF thingsboard_client_subscribe_attributes, ServerObserves
<1>2. NamesTogether(Snapshot(server))
  <2>1. /\ DOMAIN Snapshot(server) = IsSet(server)
        /\ \A f \in IsSet(server) : Snapshot(server)[f] = server[f]
    BY DEF Snapshot
  <2>2. CASE NoFirmware(server)
    BY <2>1, <2>2 DEF NoFirmware, IsSet, NamesTogether
  <2>3. CASE NamesImage(server)
    <3>1. PICK image \in FirmwareAssignments :
              \A f \in Firmware : server[f] = image[f]
      BY <2>3 DEF NamesImage
    <3>2. Firmware \subseteq IsSet(server)
      BY <3>1, ImageTyped, AttributesAssumption, FirmwareAssumption DEF IsSet
    <3>. QED BY <2>1, <3>1, <3>2 DEF NamesTogether, NamesImage
  <2>. QED BY <2>2, <2>3 DEF NamingInv, ImageOrNone
<1>3. \A i \in 1 .. Len(sent') : NamesTogether(sent'[i].changes)
  <2>1. CASE sent' = <<n>>
    <3>1. Len(sent') = 1 /\ sent'[1] = n
      BY <2>1
    <3>. QED BY <3>1, <1>2
  <2>2. CASE sent' = sent
    BY <2>2 DEF NamingInv
  <2>. QED BY <1>1, <2>1, <2>2
<1>. QED BY <1>1, <1>3
       DEF NamingInv, ImageOrNone, NoFirmware, NamesImage, NamesTogether

\* What is left of the notifications after one was received.
LEMMA ReceiveNames ==
  ASSUME AttributesInv, NamingInv, Receive
  PROVE  /\ \A i \in 1 .. Len(sent') : NamesTogether(sent'[i].changes)
         /\ NamesTogether(Head(sent).changes)
         /\ Head(sent).changes \in Changes
         /\ UNCHANGED server
<1>1. /\ sent # <<>> /\ sent \in Seq(Notification)
      /\ sent' \in {Tail(sent), sent}
      /\ Head(sent) = sent[1]
      /\ Len(sent) \in Nat \ {0}
      /\ UNCHANGED server
  BY DEF Receive, AttributesInv, AttributesTypeOK
<1>2. Head(sent).changes \in Changes
  <2>1. Head(sent) \in Notification
    BY <1>1
  <2>. QED BY <2>1 DEF Notification
<1>3. NamesTogether(Head(sent).changes)
  BY <1>1 DEF NamingInv
<1>4. CASE sent' = sent
  BY <1>1, <1>2, <1>3, <1>4 DEF NamingInv
<1>5. CASE sent' = Tail(sent)
  <2>1. Len(sent') = Len(sent) - 1
    BY <1>1, <1>5
  <2>2. \A i \in 1 .. Len(sent') : sent'[i] = sent[i + 1]
    BY <1>1, <1>5, <2>1
  <2>3. \A i \in 1 .. Len(sent') : i + 1 \in 1 .. Len(sent)
    BY <1>1, <2>1
  <2>. QED BY <1>1, <1>2, <1>3, <2>2, <2>3 DEF NamingInv
<1>. QED BY <1>1, <1>4, <1>5

LEMMA StoreNames ==
  ASSUME AttributesInv, NamingInv, StoreChanges
  PROVE  NamingInv'
<1> DEFINE changes == Head(sent).changes
<1>1. /\ Receive
      /\ shared' = thingsboard_attributes_update(changes)
      /\ unstored' = (unstored \ DOMAIN changes) \cup Unstorable(changes)
  BY DEF StoreChanges
<1>2. /\ \A i \in 1 .. Len(sent') : NamesTogether(sent'[i].changes)
      /\ NamesTogether(changes) /\ changes \in Changes
      /\ UNCHANGED server
  BY <1>1, ReceiveNames
<1>3. /\ \A f \in Field \ DOMAIN changes : shared'[f] = shared[f]
      /\ Unstorable(changes) \subseteq DOMAIN changes
  BY <1>1, <1>2, UpdateTyped DEF AttributesInv, AttributesTypeOK
<1>4. CASE Firmware \cap DOMAIN changes = {}
  <2>1. \A f \in Firmware : shared'[f] = shared[f]
    BY <1>3, <1>4, FirmwareAssumption
  <2>2. unstored' \cap Firmware = unstored \cap Firmware
    BY <1>1, <1>3, <1>4
  <2>. QED BY <1>2, <2>1, <2>2
         DEF NamingInv, ImageOrNone, NoFirmware, NamesImage, NamesTogether,
             Firmware
<1>5. CASE Firmware \subseteq DOMAIN changes /\ NamesImage(changes)
  <2>1. PICK image \in FirmwareAssignments :
            \A f \in Firmware : changes[f] = image[f]
    BY <1>5 DEF NamesImage
  <2>2. \A f \in Firmware \ Unstorable(changes) : shared'[f] = image[f]
    BY <1>1, <1>2, <1>5, <2>1, StoredAsSent
  <2>3. unstored' \cap Firmware = Unstorable(changes) \cap Firmware
    BY <1>1, <1>5
  <2>4. shared'["fw_size"] \in Nat \cup {Unset}
    <3>1. changes["fw_size"] \in Nat \ TooLong
      BY <2>1, ImageTyped DEF Firmware
    <3>2. shared'["fw_size"] \in {changes["fw_size"], shared["fw_size"]}
      BY <1>1, <1>5, <3>1, FirmwareAssumption
         DEF thingsboard_attributes_update, Stored, Firmware
    <3>. QED BY <3>1, <3>2 DEF NamingInv
  <2>. QED BY <1>2, <2>2, <2>3, <2>4
         DEF NamingInv, ImageOrNone, NoFirmware, NamesImage, NamesTogether
<1>. QED BY <1>2, <1>4, <1>5 DEF NamesTogether

LEMMA UndecodableNames ==
  ASSUME AttributesInv, NamingInv, NotificationUndecodable
  PROVE  NamingInv'
<1>1. /\ Receive /\ shared' = shared
      /\ unstored' = unstored \cup DOMAIN Head(sent).changes
  BY DEF NotificationUndecodable
<1>2. /\ \A i \in 1 .. Len(sent') : NamesTogether(sent'[i].changes)
      /\ UNCHANGED server
  BY <1>1, ReceiveNames
<1>. QED BY <1>1, <1>2
       DEF NamingInv, ImageOrNone, NoFirmware, NamesImage, NamesTogether

LEMMA NamingKept ==
  AttributesInv /\ NamingInv /\ [AttributesNext]_attributesVars => NamingInv'
<1> SUFFICES ASSUME AttributesInv, NamingInv, [AttributesNext]_attributesVars
             PROVE  NamingInv'
  OBVIOUS
<1>1. sent \in Seq(Notification) /\ server \in Attributes
  BY DEF AttributesInv, AttributesTypeOK
<1>2. ASSUME NEW changes \in Assignments,
             Announce(changes, Merge(changes, server))
      PROVE  NamingInv'
  <2>1. PICK fields \in SUBSET Field : changes \in [fields -> Value]
    BY AttributesAssumption DEF Changes
  <2>2. CASE changes \in FirmwareAssignments
    <3>1. NamesTogether(changes) /\ ImageOrNone(Merge(changes, server))
      BY <2>2, ImageTyped, FirmwareAssumption
         DEF NamesTogether, ImageOrNone, NamesImage, Merge
    <3>. QED BY <1>1, <1>2, <3>1, AnnounceNames
  <2>3. CASE changes \notin FirmwareAssignments
    <3>1. Firmware \cap DOMAIN changes = {}
      BY <2>3, FirmwareAssumption
    <3>2. \A f \in Firmware : Merge(changes, server)[f] = server[f]
      BY <3>1, FirmwareAssumption DEF Merge
    <3>3. NamesTogether(changes) /\ ImageOrNone(Merge(changes, server))
      BY <3>1, <3>2
         DEF NamingInv, NamesTogether, ImageOrNone, NoFirmware, NamesImage
    <3>. QED BY <1>1, <1>2, <3>3, AnnounceNames
  <2>. QED BY <2>2, <2>3
<1>3. ASSUME NEW fields \in Deletions, Announce(<<>>, Without(fields, server))
      PROVE  NamingInv'
  <2>1. NamesTogether(<<>>)
    <3>1. DOMAIN <<>> = {}
      OBVIOUS
    <3>. QED BY <3>1 DEF NamesTogether
  <2>2. CASE Firmware \cap fields = {}
    <3>1. \A f \in Firmware : Without(fields, server)[f] = server[f]
      BY <2>2, FirmwareAssumption DEF Without
    <3>2. ImageOrNone(Without(fields, server))
      BY <3>1 DEF NamingInv, ImageOrNone, NoFirmware, NamesImage
    <3>. QED BY <1>1, <1>3, <2>1, <3>2, AnnounceNames
  <2>3. CASE Firmware \subseteq fields
    <3>1. ImageOrNone(Without(fields, server))
      BY <2>3, FirmwareAssumption DEF ImageOrNone, NoFirmware, Without
    <3>. QED BY <1>1, <1>3, <2>1, <3>1, AnnounceNames
  <2>. QED BY <2>2, <2>3, FirmwareAssumption
<1>4. ASSUME Unobserved, UNCHANGED <<server, shared, unstored>>
      PROVE  NamingInv'
  <2>1. Len(sent') = 0
    BY <1>4 DEF Unobserved
  <2>. QED BY <1>4, <2>1
         DEF NamingInv, ImageOrNone, NoFirmware, NamesImage
<1>5. ASSUME ForgetAttributes PROVE NamingInv'
  <2>1. Len(sent') = 0 /\ shared' = Nothing /\ UNCHANGED server
    BY <1>5 DEF ForgetAttributes, Unobserved
  <2>. QED BY <2>1, FirmwareAssumption
         DEF NamingInv, ImageOrNone, NoFirmware, NamesImage, Nothing, Firmware
<1>6. CASE UNCHANGED attributesVars
  BY <1>6 DEF attributesVars, NamingInv, ImageOrNone, NoFirmware, NamesImage,
              NamesTogether
<1>. QED BY <1>2, <1>3, <1>4, <1>5, <1>6, SubscribeNames, StoreNames,
            UndecodableNames
         DEF AttributesNext, ServerSets, ServerDeletes, ServerForgets,
             ObservationEnds, NotificationTooLong, NotificationStored

-----------------------------------------------------------------------------
(* The firmware *)

\* The check for new firmware starts an update of an image that was named,
\* unless it sees attributes that could not be stored.
LEMMA CheckNames ==
  ASSUME FirmwareInv, NamingInv', HasFirmware(shared'), AttributesInv'
  PROVE  /\ Named(shared') \in Image
         /\ shared'["fw_size"] \in Nat
         /\ unstored' \cap Firmware = {} =>
                /\ shared'["fw_size"] = ImageLen[Named(shared')]
                /\ \E image \in FirmwareAssignments :
                       Named(image) = Named(shared')
<1>1. shared' \in Attributes
  BY DEF AttributesInv, AttributesTypeOK
<1>2. \A f \in Firmware : shared'[f] \in Value
  BY <1>1, FirmwareAssumption DEF HasFirmware, Attributes
<1>3. Named(shared') \in Image
  BY <1>2, FirmwareAssumption DEF Named, Firmware
<1>4. shared'["fw_size"] \in Nat
  BY DEF NamingInv, HasFirmware, Firmware
<1>5. ASSUME unstored' \cap Firmware = {}
      PROVE  /\ shared'["fw_size"] = ImageLen[Named(shared')]
             /\ \E image \in FirmwareAssignments :
                    Named(image) = Named(shared')
  <2>1. \E image \in FirmwareAssignments :
            \A f \in Firmware : shared'[f] = image[f]
    BY <1>5 DEF NamingInv, ImageOrNone, NoFirmware, NamesImage, HasFirmware,
                Firmware
  <2>2. PICK image \in FirmwareAssignments :
            \A f \in Firmware : shared'[f] = image[f]
    BY <2>1
  <2>3. Named(shared') = Named(image) /\ shared'["fw_size"] = image["fw_size"]
    BY <2>2 DEF Named, Firmware
  <2>. QED BY <2>3, ImageTyped
<1>. QED BY <1>3, <1>4, <1>5

\* The composition makes the steps of Fota.
LEMMA FotaPart ==
  FirmwareInv /\ FirmwareNext /\ NamingInv' /\ AttributesInv' => [Next]_vars
<1> SUFFICES ASSUME FirmwareInv, FirmwareNext, NamingInv', AttributesInv'
             PROVE  [Next]_vars
  OBVIOUS
<1>1. CASE CheckFirmware
  <2>1. CASE HasFirmware(shared')
    <3>1. thingsboard_fota_on_attributes(Named(shared'), shared'["fw_size"])
      BY <1>1, <2>1 DEF CheckFirmware, Checked
    <3>2. connected /\ ~applied
      BY <1>1 DEF CheckFirmware, NotificationStored, StoreChanges, Receive,
                  FirmwareInv
    <3>. QED BY <3>1, <3>2, <2>1, CheckNames DEF Next
  <2>2. CASE ~HasFirmware(shared')
    BY <1>1, <2>2 DEF CheckFirmware, Checked
  <2>. QED BY <2>1, <2>2
<1>2. CASE Connect
  BY <1>2 DEF Connect, Next
<1>3. CASE FirmwareStep
  BY <1>3 DEF FirmwareStep, Next
<1>4. CASE Restart
  BY <1>4 DEF Restart, Next
<1>5. CASE Resubscribe \/ NotificationFails \/ AttributesStep
  BY <1>5 DEF Resubscribe, NotificationFails, AttributesStep
<1>. QED BY <1>1, <1>2, <1>3, <1>4, <1>5 DEF FirmwareNext

\* Nothing that the target depends on changes, except that transfers end or
\* go on.
LEMMA TargetStays ==
  ASSUME TargetInv, Running' \subseteq Running,
         \A k \in Running' :
             transfers'[k].number = 1 => transfers[k].number = 1,
         UNCHANGED <<target, offset, size, mixed, applied, misnamed>>
  PROVE  TargetInv'
BY DEF TargetInv

LEMMA CheckKeepsTarget ==
  ASSUME FirmwareInv, CheckFirmware, NamingInv', AttributesInv'
  PROVE  TargetInv'
<1> DEFINE image == Named(shared')
           fw_size == shared'["fw_size"]
<1>1. CASE HasFirmware(shared') /\ Starts(image, fw_size)
  <2>1. /\ target' = image /\ size' = fw_size
        /\ misnamed' = (misnamed \/ unstored' \cap Firmware # {})
    BY <1>1 DEF CheckFirmware, Checked, thingsboard_fota_on_attributes,
                thingsboard_start_fw_update
  <2>2. ASSUME ~misnamed'
        PROVE  /\ fw_size = ImageLen[image]
               /\ \E i \in FirmwareAssignments : Named(i) = image
    BY <1>1, <2>1, <2>2, CheckNames
  <2>. QED BY <2>1, <2>2 DEF TargetInv
<1>2. CASE ~(HasFirmware(shared') /\ Starts(image, fw_size))
  <2>1. UNCHANGED vars /\ (misnamed' <=> misnamed)
    BY <1>2 DEF CheckFirmware, Checked, thingsboard_fota_on_attributes,
                FirmwareInv
  <2>2. misnamed' = misnamed
    BY <1>2, <2>1 DEF CheckFirmware, Checked, FirmwareInv
  <2>3. Running' = Running
    BY <2>1 DEF vars, Running
  <2>. QED BY <2>1, <2>2, <2>3, TargetStays DEF vars, FirmwareInv
<1>. QED BY <1>1, <1>2

LEMMA ChunkKeepsTarget ==
  ASSUME FirmwareInv, NEW k \in Transfer, Chunk(k), misnamed' = misnamed
  PROVE  TargetInv'
<1>1. TypeOK /\ TargetInv
  BY DEF FirmwareInv, FotaInv
<1>2. k \in Running
  BY DEF Chunk, ChunkMissing, ChunkRejected, ChunkNotWritten, ChunkWritten,
         Arrives
<1>3. CASE ChunkMissing(k)
  <2>1. /\ transfers' = [transfers EXCEPT ![k] = NoTransfer]
        /\ UNCHANGED <<target, offset, size, mixed, applied>>
    BY <1>3 DEF ChunkMissing, update
  <2>. QED BY <1>1, <1>2, <2>1, OtherTransfersStay, TargetStays
<1>4. ASSUME Advance(k), transfers[k].number <= ImageLen[transfers[k].image]
      PROVE  /\ Running' \subseteq Running
             /\ \A l \in Running' :
                    transfers'[l].number = 1 => transfers[l].number = 1
             /\ k \in Running' => transfers'[k].number # 1
  <2>1. transfers[k].number \in Nat \ {0}
    BY <1>1, <1>2, <1>4, AdvanceMoves DEF Block
  <2>2. k \in Running' => transfers'[k].number # 1
    <3>1. k \in Running' =>
              transfers'[k] = [image |-> transfers[k].image,
                               number |-> transfers[k].number + 1]
      BY <1>1, <1>2, <1>4, AdvanceMoves
    <3>2. transfers[k].number + 1 # 1
      BY <2>1
    <3>. QED BY <3>1, <3>2
  <2>. QED BY <1>1, <1>2, <1>4, <2>2, AdvanceMoves
<1>5. CASE ChunkNotWritten(k)
  BY <1>1, <1>4, <1>5, TargetStays DEF ChunkNotWritten, Arrives, update
<1>6. CASE ChunkRejected(k)
  <2>1. /\ Advance(k) /\ transfers[k].number <= ImageLen[transfers[k].image]
        /\ ~applied' /\ size' = 0 /\ offset' = 0 /\ mixed' = mixed
    BY <1>6 DEF ChunkRejected, Arrives, NotAnImage
  <2>2. ~mixed => \A l \in Running : l = k
    BY <1>2 DEF FirmwareInv, FotaInv, SlotInv
  <2>. QED BY <1>4, <2>1, <2>2 DEF TargetInv
<1>7. CASE ChunkWritten(k)
  <2>1. /\ Advance(k) /\ transfers[k].number <= ImageLen[transfers[k].image]
        /\ ~(offset = 0 /\ transfers[k].number # 1)
        /\ UNCHANGED <<target, size, mixed>>
    BY <1>7 DEF ChunkWritten, Arrives, NotAnImage
  <2>. QED BY <1>1, <1>2, <2>1 DEF TargetInv
<1>. QED BY <1>3, <1>5, <1>6, <1>7 DEF Chunk

LEMMA FirmwareStepKeeps ==
  FirmwareInv /\ [FirmwareNext]_firmwareVars => FirmwareInv'
<1> SUFFICES ASSUME FirmwareInv, [FirmwareNext]_firmwareVars PROVE FirmwareInv'
  OBVIOUS
<1>1. CASE UNCHANGED firmwareVars
  <2>1. UNCHANGED vars /\ UNCHANGED attributesVars /\ misnamed' = misnamed
    BY <1>1 DEF firmwareVars
  <2>2. AttributesInv' /\ NamingInv'
    BY <2>1, AttributesKept, NamingKept DEF FirmwareInv
  <2>3. FotaInv' /\ Running' = Running
    BY <2>1, StutterKeeps DEF FirmwareInv, vars, Running
  <2>4. TargetInv'
    BY <2>1, <2>3, TargetStays DEF FirmwareInv, vars
  <2>. QED BY <2>1, <2>2, <2>3, <2>4 DEF FirmwareInv, vars, attributesVars
<1>2. CASE FirmwareNext
  <2>1. AttributesInv' /\ NamingInv'
    BY <1>2, AttributesPart, AttributesKept, NamingKept DEF FirmwareInv
  <2>2. FotaInv'
    BY <1>2, <2>1, FotaPart, FotaStep DEF FirmwareInv
  <2>3. misnamed' \in BOOLEAN
    BY <1>2 DEF FirmwareNext, Connect, Resubscribe, CheckFirmware,
                NotificationFails, AttributesStep, FirmwareStep, Restart,
                FirmwareInv
  <2>4. subscribed' => connected'
    <3>1. CASE Connect
      BY <3>1 DEF Connect, start_client, thingsboard_fota_init
    <3>2. CASE Resubscribe
      BY <3>2 DEF Resubscribe, vars
    <3>3. CASE CheckFirmware
      BY <3>3 DEF CheckFirmware, NotificationStored, StoreChanges, Receive,
                  thingsboard_fota_on_attributes, device, vars, FirmwareInv
    <3>4. CASE NotificationFails
      BY <3>4 DEF NotificationFails, NotificationUndecodable, StoreChanges,
                  NotificationTooLong, Receive, vars, FirmwareInv
    <3>5. CASE AttributesStep
      BY <3>5 DEF AttributesStep, ServerSets, ServerDeletes, Announce,
                  ServerForgets, ObservationEnds, vars, FirmwareInv
    <3>6. CASE FirmwareStep
      <4>1. UNCHANGED attributesVars /\ \E k \in Transfer : Chunk(k)
        BY <3>6 DEF FirmwareStep
      <4>2. \A k \in Transfer : Chunk(k) => connected' = connected
        BY DEF Chunk, ChunkMissing, ChunkRejected, ChunkNotWritten,
               ChunkWritten, device
      <4>. QED BY <4>1, <4>2 DEF attributesVars, FirmwareInv
    <3>7. CASE Restart
      BY <3>7 DEF Restart, ForgetAttributes
    <3>. QED BY <1>2, <3>1, <3>2, <3>3, <3>4, <3>5, <3>6, <3>7
         DEF FirmwareNext
  <2>5. TargetInv'
    <3>1. CASE UNCHANGED <<vars, misnamed>>
      <4>1. Running' = Running
        BY <3>1 DEF vars, Running
      <4>. QED BY <3>1, <4>1, TargetStays DEF vars, FirmwareInv
    <3>2. CASE Connect
      <4>1. /\ UNCHANGED <<target, offset, size, transfers, mixed, applied,
                           misnamed>>
        BY <3>2 DEF Connect, start_client, update
      <4>2. Running' = Running
        BY <4>1 DEF Running
      <4>. QED BY <4>1, <4>2, TargetStays DEF FirmwareInv
    <3>3. CASE CheckFirmware
      BY <3>3, <2>1, CheckKeepsTarget
    <3>4. CASE FirmwareStep
      BY <3>4, ChunkKeepsTarget DEF FirmwareStep
    <3>5. CASE Restart
      BY <3>5, RebootStops DEF Restart, Reboot, TargetInv
    <3>. QED BY <1>2, <3>1, <3>2, <3>3, <3>4, <3>5
         DEF FirmwareNext, Resubscribe, NotificationFails, AttributesStep
  <2>. QED BY <2>1, <2>2, <2>3, <2>4, <2>5 DEF FirmwareInv
<1>. QED BY <1>1, <1>2

-----------------------------------------------------------------------------
(* Theorems *)

LEMMA FirmwareStarts == FirmwareInit => FirmwareInv
<1> SUFFICES ASSUME FirmwareInit PROVE FirmwareInv
  OBVIOUS
<1>1. Init /\ AttributesInit /\ misnamed = FALSE
  BY DEF FirmwareInit
<1>2. FotaInv /\ AttributesInv
  BY <1>1, FotaStarts, AttributesStarted
<1>3. Len(sent) = 0 /\ server = Nothing /\ shared = Nothing
  BY <1>1 DEF AttributesInit
<1>4. NamingInv
  BY <1>3, FirmwareAssumption
     DEF NamingInv, ImageOrNone, NoFirmware, Nothing, Firmware
<1>5. TargetInv
  <2>1. Running = {} /\ size = 0 /\ offset = 0 /\ ~applied
    BY <1>1 DEF Init, Running
  <2>. QED BY <2>1 DEF TargetInv
<1>. QED BY <1>1, <1>2, <1>4, <1>5 DEF FirmwareInv, AttributesInit

LEMMA FirmwareInductive == FirmwareSpec => []FirmwareInv
BY FirmwareStarts, FirmwareStepKeeps, PTL DEF FirmwareSpec

\* The composition implements the firmware update on its own: what the
\* attributes can ask of it is within what it was proved for.
THEOREM ImplementsFota == FirmwareSpec => Spec
<1>1. FirmwareInv /\ FirmwareInv' /\ [FirmwareNext]_firmwareVars
      => [Next]_vars
  BY FotaPart DEF FirmwareInv, firmwareVars
<1>2. FirmwareInit => Init
  BY DEF FirmwareInit
<1>. QED BY <1>1, <1>2, FirmwareInductive, PTL DEF FirmwareSpec, Spec

\* The composition implements the shared attributes on their own.
THEOREM ImplementsAttributes == FirmwareSpec => AttributesSpec
<1>1. [FirmwareNext]_firmwareVars => [AttributesNext]_attributesVars
  BY AttributesPart DEF firmwareVars
<1>2. FirmwareInit => AttributesInit
  BY DEF FirmwareInit
<1>. QED BY <1>1, <1>2, PTL DEF FirmwareSpec, AttributesSpec

\* Title, version and size on the device are those of one image the server
\* named, if the last one it named could be stored.
THEOREM NamesOneImage == FirmwareSpec => []OneImageNamed
<1>1. FirmwareInv => OneImageNamed
  BY DEF FirmwareInv, NamingInv, ImageOrNone, NoFirmware, OneImageNamed,
         HasFirmware, Firmware
<1>. QED BY <1>1, FirmwareInductive, PTL

\* What is about to be installed is an image the server named, complete.
THEOREM InstallsNamed == FirmwareSpec => []InstallsNamedImage
<1>1. FirmwareInv => InstallsNamedImage
  BY DEF FirmwareInv, FotaInv, AppliesWholeImage, TargetInv,
         InstallsNamedImage
<1>. QED BY <1>1, FirmwareInductive, PTL

\* Theorems of the parts hold of the whole.
THEOREM UpdateIsSound ==
  FirmwareSpec => /\ []AppliesWholeImage
                  /\ []TrialHasFallback
                  /\ ConnectedImageStays
                  /\ []UpToDate
BY ImplementsFota, ImplementsAttributes, InstallsWholeImages, FallbackKept,
   ConnectedImageIsKept, ObservedUpToDate
=============================================================================
