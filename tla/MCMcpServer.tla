---------------------------- MODULE MCMcpServer ----------------------------
(* Model-checking instances of McpServer. *)
EXTENDS McpServer

\* One frame of each kind and, of those that may be either, also notifications.
MCFrames ==
    [what : {"blank", "garbled", "huge", "note"}, asks : {FALSE}]
        \cup [what : {"note", "local", "anonymous", "overflow"}, asks : {TRUE}]
        \cup [what : {"ping", "upstream"}, asks : BOOLEAN]

MCToolFrames == [what : {"upstream"}, asks : {TRUE}]
============================================================================
