---------------------------- MODULE MCProvisioning ----------------------------
(***************************************************************************)
(* An instance of Provisioning: the server may issue three tokens, that is *)
(* forget the device twice.                                                *)
(***************************************************************************)
EXTENDS Provisioning
=============================================================================
