------------------------- MODULE MCDeadLetterQueue -------------------------
EXTENDS DeadLetterQueue
=============================================================================
