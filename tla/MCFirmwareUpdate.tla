--------------------------- MODULE MCFirmwareUpdate ---------------------------
(***************************************************************************)
(* An instance of FirmwareUpdate: the installed image, the next version of *)
(* it, and an image whose version is too long, under a title of which an   *)
(* old image exists.                                                       *)
(***************************************************************************)
EXTENDS FirmwareUpdate, TLC

CONSTANTS app, other, v1, v2, long

MCValue == {app, other, v1, v2, long} \cup 1 .. 2

MCImage == MCValue \X MCValue

MCImageLen ==
    [image \in MCImage |->
        CASE image = <<app, v1>>     -> 1
          [] image = <<app, v2>>     -> 2
          [] image = <<other, v2>>   -> 1
          [] image = <<other, long>> -> 1
          [] OTHER                   -> 0]

MCInstalled == <<app, v1>>

MCField == Firmware \cup {"app"}

MCOrder == [fw_title |-> 1, fw_version |-> 2, fw_size |-> 3, app |-> 4]

MCCut == [value \in {long} |-> v2]

Name(title, version) ==
    [fw_title |-> title, fw_version |-> version,
     fw_size |-> MCImageLen[<<title, version>>]]

MCAssignments ==
    {Name(app, v2), Name(other, long), [app |-> 1]}

MCDeletions == {Firmware}

Symmetry == Permutations(Transfer)
=============================================================================
