------------------------ MODULE MCInteractiveThread ------------------------
EXTENDS InteractiveThread
CONSTANTS main, net, log, e1, e2, io, tcp
============================================================================
