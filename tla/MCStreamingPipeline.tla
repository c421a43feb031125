------------------------- MODULE MCStreamingPipeline -------------------------
EXTENDS StreamingPipeline
=============================================================================
