------------------------- MODULE MCInnerProductArgument -------------------------
EXTENDS InnerProductArgument
================================================================================
