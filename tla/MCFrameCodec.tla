---------------------------- MODULE MCFrameCodec -----------------------------
(* FrameCodec with a limit of three bytes.                                    *)
EXTENDS FrameCodec
==============================================================================
