-------------------------- MODULE MC_TftpTransfer --------------------------
(* Model-checking instance of TftpTransfer: files of up to two full blocks *)
(* (with or without a short block), block numbers modulo 4, three          *)
(* timeouts before the child gives up and one for the client.  The        *)
(* listener has two ports (NPorts = 1), so every fork wraps next_port.    *)
EXTENDS TftpTransfer

\* The file the server writes, seen through TftpFile.
File == INSTANCE TftpFile WITH total <- Last

\* handle_wrq writes the client's blocks in order, each once, and never
\* creates over an existing file.
ImplementsTftpFile == File!Spec
=============================================================================
