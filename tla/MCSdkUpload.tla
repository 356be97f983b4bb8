--------------------------- MODULE MCSdkUpload ---------------------------
(* SdkUpload on a small instance: every file has the same name. *)
EXTENDS SdkUpload, TLC

CONSTANT key
MCKeyOf == [u \in Uploads |-> key]
=============================================================================
