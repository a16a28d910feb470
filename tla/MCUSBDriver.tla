----------------------------- MODULE MCUSBDriver ------------------------------
EXTENDS USBDriver

CONSTANTS cyclops, fan

MCDisplays == {cyclops, fan}
MCCyclops == {cyclops}
MCOpeners == {"winusb", "injected"}
=============================================================================
