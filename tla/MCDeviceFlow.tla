---------------------------- MODULE MCDeviceFlow ----------------------------
(***************************************************************************)
(* DeviceFlow for TLC: every HTTP request is served by a handler that has  *)
(* no identity of its own, so handlers are interchangeable.                *)
(***************************************************************************)
EXTENDS DeviceFlow, TLC

HandlerSymmetry == Permutations(Handlers)
=============================================================================
