------------------------------- MODULE MCRelay -------------------------------
EXTENDS Relay

CONSTANTS MaxUp, MaxDown, CapUp, CapDown

\* Per-direction constants are functions, which a cfg file cannot write.
MCMaxSent == [d \in Dirs |-> IF d = "up" THEN MaxUp ELSE MaxDown]
MCSinkCap == [d \in Dirs |-> IF d = "up" THEN CapUp ELSE CapDown]
=============================================================================
