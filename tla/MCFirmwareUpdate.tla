-------------------------- MODULE MCFirmwareUpdate --------------------------
EXTENDS FirmwareUpdateProperties
=============================================================================
