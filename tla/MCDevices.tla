------------------------------ MODULE MCDevices ------------------------------
(* Every device of the table is connected to every box.                     *)
EXTENDS Devices

AllDevices == 1..Len(deviceDefinitions)
\* ... identified, named, or forced with a mega, an Xmega, a name nobody has
MCForced == {1, 78, Len(deviceDefinitions) + 1}
MCFuseStates == {{}, {8, 15}, 0..23}

=============================================================================
