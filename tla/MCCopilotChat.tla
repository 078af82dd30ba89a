--------------------------- MODULE MCCopilotChat ---------------------------
EXTENDS CopilotChat, TLC
=============================================================================
