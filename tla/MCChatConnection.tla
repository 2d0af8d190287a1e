--------------------------- MODULE MCChatConnection ---------------------------
EXTENDS ChatConnection
=============================================================================
