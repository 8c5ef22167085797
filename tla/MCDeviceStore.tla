--------------------------- MODULE MCDeviceStore ----------------------------
(***************************************************************************)
(* An instance of DeviceStore.                                             *)
(***************************************************************************)
EXTENDS DeviceStore

\* The statements of pm-store's eight migrations; two messages.
MigrationSizes == <<6, 2, 3, 1, 1, 2, 1, 2>>
TwoMessages == <<"m1", "m2">>
=============================================================================
