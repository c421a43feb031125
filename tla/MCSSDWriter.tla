----------------------------- MODULE MCSSDWriter -----------------------------
EXTENDS SSDWriter
=============================================================================
