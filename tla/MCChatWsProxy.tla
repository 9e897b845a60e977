--------------------------- MODULE MCChatWsProxy ----------------------------
EXTENDS ChatWsProxy
=============================================================================
