---------------------------- MODULE MCSopCallers ----------------------------
EXTENDS SopCallers, MCSopEngine
=============================================================================
