-------------------------- MODULE MCWriterLifecycle --------------------------
EXTENDS WriterLifecycle

CONSTANTS k1, k2   \* the key of an RC4 or AESV2 document, and of an AESV3 one

MCKeys == {k1, k2}
MCPDF20 == {k2}
=============================================================================
