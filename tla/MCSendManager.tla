--------------------------- MODULE MCSendManager ---------------------------
EXTENDS SendManager
=============================================================================
