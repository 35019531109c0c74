------------------------------ MODULE FwUpload ------------------------------
(***************************************************************************)
(* The firmware upload plugin of the SoFIA virtual modem.  package() only  *)
(* stores the path of the firmware and reports success at once; flash()    *)
(* starts a detached thread that copies the firmware and then reports.     *)
(* op_ongoing is set and cleared by that thread, not by flash().           *)
(***************************************************************************)
EXTENDS Ipc

VARIABLES
    fw_path,   \* fw_path # NULL
    flasher,   \* the thread: "idle", "spawned" (dev_path # NULL) or
               \* "writing" (op_ongoing as well)
    flashed,   \* statuses of finished copies, not yet notified
    ctrlQ      \* queue of the control thread

uploadVars == <<fw_path, flasher, flashed>>

Init == fw_path = FALSE /\ flasher = "idle" /\ flashed = <<>>

(***************************************************************************)
(* package(), called by control.  A stored path makes it return silently.  *)
(***************************************************************************)
PackageFails == flasher = "writing"          \* ASSERT(op_ongoing == false)
PackageReport == IF fw_path THEN <<>> ELSE <<"EV_FW_SUCCESS">>
package == fw_path' = TRUE /\ UNCHANGED <<flasher, flashed>>

(***************************************************************************)
(* flash(), called by control.                                             *)
(***************************************************************************)
FlashFails == flasher # "idle" \/ ~fw_path   \* the ASSERTs on the paths
flash == flasher' = "spawned" /\ UNCHANGED <<fw_path, flashed>>

\* write_firmware: the thread runs.
FlashBegin == /\ flasher = "spawned" /\ flasher' = "writing"
              /\ UNCHANGED <<fw_path, flashed, ctrlQ>>

\* write_firmware: the copy is over, the paths are freed.
FlashEnd(status) == /\ flasher = "writing" /\ flasher' = "idle"
                    /\ fw_path' = FALSE
                    /\ flashed' = Append(flashed, status)
                    /\ UNCHANGED ctrlQ

\* write_firmware: notify_fw_upload_status.
FlashNotify == /\ flashed # <<>>
               /\ ctrlQ' = Send(ctrlQ, <<Head(flashed)>>)
               /\ flashed' = Tail(flashed)
               /\ UNCHANGED <<fw_path, flasher>>
=============================================================================
