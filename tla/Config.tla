------------------------------- MODULE Config -------------------------------
(***************************************************************************)
(* src/config.rs and the start of the server in src/main.rs and            *)
(* src/runtime: the command line and the TOML file become a configuration, *)
(* or the program ends with an error.  An Option is a sequence of at most  *)
(* one element.                                                            *)
(***************************************************************************)
EXTENDS Naturals, SequencesExt

CONSTANTS
  Cpus,                    \* num_cpus()
  default_max_value_size   \* 8 MB, scaled down

ASSUME ConfigAssumption == Cpus \in Nat \ {0} /\ default_max_value_size \in Nat

unwrap_or(option, default) == IF option = <<>> THEN default ELSE option[1]

\* Addresses, by what rsplit_once, u16 and SocketAddr make of them.
Addresses == {"ip:port", "name:port", "ip:word", "ip"}

\* What clap and serde fill in for a setting that is not given.
Defaults ==
  [listen |-> "ip:port", max_memory |-> 64, default_ttl |-> 0, cleanup_interval |-> 60,
   max_value_size |-> default_max_value_size, log_level |-> "info",
   protocol |-> "memcached", runtime |-> "mio"]

\* CliArgs: settings that are Options, and settings with a default value of clap.
\* config is the state of the file that --config names, if it names one.
CliArgs(cli) ==
  [s \in DOMAIN cli |-> IF s \in {"log_level", "protocol", "runtime"}
                        THEN unwrap_or(cli[s], Defaults[s]) ELSE cli[s]]

\* TomlConfig: every setting but workers has a default.
TomlConfig(file) ==
  [s \in DOMAIN file |-> IF s = "workers" THEN file[s] ELSE unwrap_or(file[s], Defaults[s])]

\* The file that stands for no file.
NoFile ==
  [s \in {"listen", "workers", "protocol", "max_memory", "default_ttl", "cleanup_interval",
          "max_value_size", "log_level"} |-> <<>>]

parse_listen_address(addr) == addr \in {"ip:port", "name:port"}

\* The settings that are an Option on the command line.
OptionalSetting(cli, toml, s) == unwrap_or(cli[s], toml[s])

\* The settings for which clap fills in a default: a value that equals it counts
\* as not given.
DefaultedSetting(cli, toml, s) == IF cli[s] # Defaults[s] THEN cli[s] ELSE toml[s]

\* Config::load: an error, or the configuration.
load(args, contents) ==
  LET cli == CliArgs(args)
      toml == TomlConfig(IF cli.config = "ok" THEN contents ELSE NoFile)
      listen == OptionalSetting(cli, toml, "listen")
  IN  IF cli.config \in {"unreadable", "malformed"} THEN [error |-> cli.config]
      ELSE IF ~parse_listen_address(listen) THEN [error |-> "InvalidAddress"]
      ELSE [listen |-> listen,
            max_memory |-> OptionalSetting(cli, toml, "max_memory"),
            default_ttl |-> OptionalSetting(cli, toml, "default_ttl"),
            cleanup_interval |-> toml.cleanup_interval,
            workers |-> unwrap_or(cli.workers, unwrap_or(toml.workers, 0)),
            log_level |-> DefaultedSetting(cli, toml, "log_level"),
            protocol |-> DefaultedSetting(cli, toml, "protocol"),
            runtime |-> cli.runtime,
            max_value_size |-> OptionalSetting(cli, toml, "max_value_size")]

\* main and run: a host that is not an address is found out when the runtime
\* starts; no workers means one for each CPU.
run(config) ==
  IF "error" \in DOMAIN config THEN config
  ELSE IF config.listen # "ip:port" THEN [error |-> "InvalidInput"]
  ELSE [config EXCEPT !.workers = IF @ = 0 THEN Cpus ELSE @]

=============================================================================
