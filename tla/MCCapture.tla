----------------------------- MODULE MCCapture -----------------------------
(* The way into a file on a small instance: both buffers can overflow.        *)
EXTENDS Capture

CONSTANTS f1

MCSenders == {Forwarder}
MCClosers == {Program}
MCPaths == {f1}
=============================================================================
