------------------------- MODULE MCServerLifecycle -------------------------
(* Small instances of ServerLifecycle for TLC. *)
EXTENDS ServerLifecycle

Limit(tokens, seconds) == [tokens |-> tokens, seconds |-> seconds]
File(port, level, limit) == [port |-> port, level |-> level, limit |-> limit]
Env(port, tokens, seconds) ==
    [port |-> port, level |-> NULL, tokens |-> tokens, seconds |-> seconds]

\* No file, the file of the repository, a rate limit that is left empty, and a
\* level that does not exist.
MCFileInputs == {File(NULL, NULL, NULL), File(8080, "info", Limit(5, 1)),
                 File(NULL, NULL, Limit(0, 0)), File(NULL, "verbose", NULL)}

\* Nothing, a rate limit, one that lets nothing through, and ports beside the
\* range.
MCEnvInputs == {Env(NULL, NULL, NULL), Env(NULL, 60, 60), Env(NULL, 0, NULL),
                Env(0, NULL, NULL), Env(65536, NULL, NULL)}

=============================================================================
