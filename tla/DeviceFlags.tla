----------------------------- MODULE DeviceFlags -----------------------------
(***************************************************************************)
(* A device as the device manager of the FreeRTOS port sees it             *)
(* (device_manager.cc): a set of flags, and at most one listener waiting   *)
(* for some of them.  An event that is sent takes the listener with it.    *)
(***************************************************************************)
EXTENDS Integers, Sequences, FiniteSets

CONSTANT NoListener, kMailQSize

\* The constructor of Device.  lost: flags that SetFlags did not set.
NewDevice == [flags |-> {}, mask |-> {}, listener |-> NoListener, lost |-> {}]

IsReady(device) == device.listener # NoListener /\ device.flags \cap device.mask # {}

\* SendIfReady: <<device, events sent>>.
SendIfReady(device) ==
  IF IsReady(device)
  THEN <<[device EXCEPT !.listener = NoListener],
         <<[listener |-> device.listener, flags |-> device.flags \cap device.mask]>> >>
  ELSE <<device, <<>> >>

\* Nothing is set when one of the flags is.
SetFlags(device, flags) ==
  IF device.flags \cap flags # {}
  THEN <<[device EXCEPT !.lost = @ \cup (flags \ device.flags)], <<>> >>
  ELSE SendIfReady([device EXCEPT !.flags = @ \cup flags])

ClearFlags(device, flags) == [device EXCEPT !.flags = @ \ flags]

\* DeviceManager::SetEventListener of a device without a listener.
SetEventListener(device, mask, listener) ==
  SendIfReady([device EXCEPT !.mask = mask, !.listener = listener])
=============================================================================
