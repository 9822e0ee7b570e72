------------------------------- MODULE MCRtc -------------------------------
EXTENDS Rtc

MCTicks == [asked : {TRUE}, mode : {0, 1, 3}, single : BOOLEAN]
MCAlarms == [asked : {TRUE}, mask : {{0, 2}, {1}, {3}}, at : {5}, single : BOOLEAN]
=============================================================================
