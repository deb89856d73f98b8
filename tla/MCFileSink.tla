----------------------------- MODULE MCFileSink -----------------------------
(* The file sink on a small instance: two Sends race the worker and two Closes. *)
EXTENDS FileSink

CONSTANTS p1, p2, c1, c2, f1

MCSenders == {p1, p2}
MCClosers == {c1, c2}
MCPaths == {f1}
=============================================================================
