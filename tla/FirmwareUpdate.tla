---------------------------- MODULE FirmwareUpdate ----------------------------
(***************************************************************************)
(* The shared attributes and the firmware update they cause: Fota and      *)
(* SharedAttributes in one device.  start_client confirms the image and    *)
(* then subscribes; each notification that is stored ends with the check   *)
(* for new firmware, on the attributes as they are then.  The CoAP thread  *)
(* handles neither notifications nor blocks while it waits in fw_apply.    *)
(*                                                                         *)
(* The server names an image by setting title, version and size together.  *)
(***************************************************************************)
EXTENDS Fota, SharedAttributes

Firmware == {"fw_title", "fw_version", "fw_size"}

Named(attributes) == <<attributes["fw_title"], attributes["fw_version"]>>

\* What the server says of the images it names.
FirmwareAssignments ==
    {changes \in Assignments : Firmware \subseteq DOMAIN changes}

\* The attributes are those of one image that the server may name.
NamesImage(attributes) ==
    \E image \in FirmwareAssignments :
        \A f \in Firmware : attributes[f] = image[f]

ASSUME FirmwareAssumption ==
    /\ Firmware \subseteq Field
    /\ Value \X Value \subseteq Image
    /\ \A changes \in Assignments \ FirmwareAssignments :
           Firmware \cap DOMAIN changes = {}
    /\ \A fields \in Deletions :
           Firmware \cap fields = {} \/ Firmware \subseteq fields
    /\ \A image \in FirmwareAssignments :
           /\ image["fw_size"] = ImageLen[Named(image)]
           /\ image["fw_size"] # 0
           /\ image["fw_size"] \notin TooLong

VARIABLE
    misnamed      \* an update began on attributes that were not all stored

firmwareVars == <<vars, attributesVars, misnamed>>

FirmwareInit == Init /\ AttributesInit /\ misnamed = FALSE

HasFirmware(attributes) == \A f \in Firmware : attributes[f] # Unset

-----------------------------------------------------------------------------

\* start_client: subscribing may fail for want of a block or a socket.
Connect ==
    /\ ~subscribed
    /\ start_client
    /\ \/ thingsboard_client_subscribe_attributes
       \/ UNCHANGED attributesVars
    /\ UNCHANGED misnamed

\* thingsboard_socket_resume.
Resubscribe ==
    /\ connected
    /\ thingsboard_client_subscribe_attributes
    /\ UNCHANGED <<vars, misnamed>>

\* Mutated, the check runs before the attributes are merged.
MutantChecked == shared
Checked == shared'

\* A notification is stored, and thingsboard_fota_on_attributes checks for
\* new firmware if all three attributes are there.
CheckFirmware ==
    /\ ~applied
    /\ NotificationStored
    /\ IF HasFirmware(Checked)
       THEN /\ thingsboard_fota_on_attributes(Named(Checked),
                                              Checked["fw_size"])
            /\ misnamed' = (misnamed \/ /\ Starts(Named(Checked),
                                                  Checked["fw_size"])
                                        /\ unstored' \cap Firmware # {})
       ELSE UNCHANGED <<vars, misnamed>>

NotificationFails ==
    /\ ~applied
    /\ NotificationUndecodable \/ NotificationTooLong
    /\ UNCHANGED <<vars, misnamed>>

\* What the server and the observation do by themselves.
AttributesStep ==
    /\ \/ ServerSets
       \/ ServerDeletes
       \/ ServerForgets
       \/ ~applied /\ ObservationEnds
    /\ UNCHANGED <<vars, misnamed>>

FirmwareStep ==
    /\ \E k \in Transfer : Chunk(k)
    /\ UNCHANGED <<attributesVars, misnamed>>

Restart ==
    /\ Reboot
    /\ ForgetAttributes
    /\ misnamed' = FALSE

FirmwareNext ==
    \/ Connect
    \/ Resubscribe
    \/ CheckFirmware
    \/ NotificationFails
    \/ AttributesStep
    \/ FirmwareStep
    \/ Restart

FirmwareSpec == FirmwareInit /\ [][FirmwareNext]_firmwareVars

-----------------------------------------------------------------------------
(* Properties *)

\* Title, version and size on the device are those of one image that the
\* server named, as long as the last one it named could be stored: neither
\* a lost observation nor a deletion mixes two of them.
OneImageNamed ==
    HasFirmware(shared) /\ unstored \cap Firmware = {} => NamesImage(shared)

\* What is about to be installed is an image the server named, complete,
\* unless the update began on attributes that could not be stored or did
\* not have the flash slot for itself.
InstallsNamedImage ==
    applied /\ ~misnamed /\ ~mixed
    => /\ \E image \in FirmwareAssignments : Named(image) = target
       /\ Intact(target)
=============================================================================
