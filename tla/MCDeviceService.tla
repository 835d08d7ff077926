-------------------------- MODULE MCDeviceService --------------------------
(* Small instances of DeviceService for TLC. *)
EXTENDS DeviceService, TLC

MCMinTemp == -1
MCTempInputs == {-2, -1, 1, 2, NaN}
MCBattInputs == -1..2
MCTimeInputs == {3, ZeroTime}

=============================================================================
