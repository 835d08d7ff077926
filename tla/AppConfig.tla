----------------------------- MODULE AppConfig -----------------------------
(***************************************************************************)
(* config.Load (config/config.go): the defaults, overridden by the YAML    *)
(* file, overridden by environment variables, and then validated.          *)
(*                                                                         *)
(* A setting that a file or the environment does not have is NULL.  The    *)
(* directory and the format of the log have no bearing on what follows.    *)
(***************************************************************************)
EXTENDS Integers

CONSTANTS NULL

Defaults == [port |-> 8080, level |-> "info", limit |-> NULL]

Or(given, current) == IF given = NULL THEN current ELSE given

\* Decoding the file; what its section for the rate limit leaves out is 0.
ReadFile(cfg, file) ==
    [port |-> Or(file.port, cfg.port), level |-> Or(file.level, cfg.level),
     limit |-> Or(file.limit, cfg.limit)]

\* env.Parse does not look into a section that is nil: the environment changes
\* a rate limit and cannot introduce one.
ReadEnv(cfg, env) ==
    [port |-> Or(env.port, cfg.port), level |-> Or(env.level, cfg.level),
     limit |-> IF cfg.limit = NULL THEN NULL
               ELSE [tokens |-> Or(env.tokens, cfg.limit.tokens),
                     seconds |-> Or(env.seconds, cfg.limit.seconds)]]

Load(file, env) == ReadEnv(ReadFile(Defaults, file), env)

ParseLevel(level) == level \in {"debug", "info", "warn", "error"}

\* The port is rejected when it is below 1 and above 65535.
Validate(cfg) ==
    /\ ParseLevel(cfg.level)
    /\ ~(cfg.port < 1 /\ cfg.port > 65535)
    /\ cfg.limit # NULL => cfg.limit.tokens > 0 /\ cfg.limit.seconds > 0

\* Mutant: the file is validated before the environment is applied.
AcceptsBeforeEnv(file, env) == Validate(ReadFile(Defaults, file))

Accepts(file, env) == Validate(Load(file, env))

=============================================================================
