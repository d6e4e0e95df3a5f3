------------------------------- MODULE MCDevices -------------------------------
EXTENDS Devices
=============================================================================
