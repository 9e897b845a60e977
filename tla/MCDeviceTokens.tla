--------------------------- MODULE MCDeviceTokens ---------------------------
(***************************************************************************)
(* Small instances of DeviceTokens.  Server devices, secrets and handlers  *)
(* are interchangeable: no action or property tells two of them apart.     *)
(***************************************************************************)
EXTENDS DeviceTokens, TLC

MCSymmetry ==
    Permutations(Request) \cup Permutations(Secret) \cup Permutations(Device \ CliDevices)
=============================================================================
