------------------------ MODULE MCHostbridgeService ------------------------
(* Channels and bytes for HostbridgeService.  90 is a plain byte that      *)
(* looks like an escaped SOP; a channel whose number is CHANNEL is         *)
(* selected with an escaped number.                                        *)
EXTENDS HostbridgeService

MCPacketized == {1, 4}
MCEscapedNumber == {1, CHANNEL}
MCNone == {}
MCUnregistered == {3}
MCData == {90, ESCAPE}

MCOnePacketized == {1}
MCRaw == {2}
MCRawData == {7, 90}
MCSpecialData == {7, SOP}
==============================================================================
