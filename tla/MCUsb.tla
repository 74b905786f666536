------------------------------- MODULE MCUsb -------------------------------
EXTENDS Usb
MCRoot == <<"r">>
MCHub == <<"h">>
=============================================================================
