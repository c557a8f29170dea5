----------------------------- MODULE Standalone -----------------------------
(***************************************************************************)
(* The start of the program: standalone::init_config                       *)
(* (src/standalone/standalone.cpp) merges environment and command line and *)
(* checks the result, then main (src/standalone/main.cpp) prepares models  *)
(* and opens the listeners.                                                *)
(*                                                                         *)
(* A value is told apart as far as the checks do: "bad" does not parse as  *)
(* its option's type, "reserved" starts with /api/ or /health; every other *)
(* value but "none" is good.                                               *)
(***************************************************************************)
EXTENDS Naturals, FiniteSets

CONSTANTS Environments,   \* bound: what ONNX_SERVER_* variables may say
          CommandLines,   \* bound: what argv may say
          HasOpenssl      \* the build defines HAS_OPENSSL

Options == {"tcp-port", "http-port", "https-port", "https-cert", "https-key",
            "swagger-url-path", "help"}
Values == {"none", "a", "b", "bad", "reserved"}
Sources == [Options -> Values]

ASSUME InputsAreSources ==
  Environments \subseteq Sources /\ CommandLines \subseteq Sources
ASSUME HasOpensslIsBoolean == HasOpenssl \in BOOLEAN

VARIABLES
  env, cmd,    \* the two sources
  prio,        \* ONNX_SERVER_CONFIG_PRIORITY: "" or unset, "env", or longer, as "env-first"
  vm,          \* po::variables_map
  pc,          \* where main is
  listening    \* the servers constructed

vars == <<env, cmd, prio, vm, pc, listening>>

Backends == {"tcp", "http", "https"}
Port(b) == IF b = "tcp" THEN "tcp-port" ELSE IF b = "http" THEN "http-port" ELSE "https-port"

Init == /\ env \in Environments /\ cmd \in CommandLines
        /\ prio \in {"", "env", "env-first"}
        /\ vm = [o \in Options |-> "none"]
        /\ pc = "store1"
        /\ listening = {}

-----------------------------------------------------------------------------
(* init_config *)

\* Mutation: the comparison of lengths is mended and nothing else.
CommandLineFirstMended == prio \in {"env", "env-first"}

\* config_prio.length() > 3 && config_prio.substr(0, 3) == "env"
CommandLineFirst == prio = "env-first"

FirstSource == IF CommandLineFirst THEN cmd ELSE env
SecondSource == IF CommandLineFirst THEN env ELSE cmd

\* po::store: an option that already has a value keeps it, unless the value is
\* a default.  Only what is stored is parsed.
Merge(old, src) == [o \in Options |-> IF old[o] # "none" THEN old[o] ELSE src[o]]

\* Mutation: values are stored as they are.
StoreUnparsed(step, src, next) ==
  /\ pc = step
  /\ vm' = Merge(vm, src)
  /\ pc' = next
  /\ UNCHANGED <<env, cmd, prio, listening>>

Store(step, src, next) ==
  /\ pc = step
  /\ vm' = Merge(vm, src)
  /\ pc' = IF \E o \in Options : vm'[o] = "bad" THEN "failed" ELSE next
  /\ UNCHANGED <<env, cmd, prio, listening>>

Enabled(b) == vm[Port(b)] # "none"

\* Mutation: only the certificate is checked.
AcceptableNoKey ==
  /\ vm["help"] = "none"
  /\ Enabled("https") => vm["https-cert"] # "none"
  /\ vm["swagger-url-path"] # "reserved"
  /\ \E b \in IF HasOpenssl THEN Backends ELSE Backends \ {"https"} : Enabled(b)

\* The negation of every early return and throw of lines 133-243.
Acceptable ==
  /\ vm["help"] = "none"
  /\ Enabled("https") => vm["https-cert"] # "none" /\ vm["https-key"] # "none"
  /\ vm["swagger-url-path"] # "reserved"
  /\ \E b \in IF HasOpenssl THEN Backends ELSE Backends \ {"https"} : Enabled(b)

\* The model directory may be missing, too.
Configure ==
  /\ pc = "configure"
  /\ \/ Acceptable /\ pc' = "models"
     \/ pc' = "failed"
  /\ UNCHANGED <<env, cmd, prio, vm, listening>>

-----------------------------------------------------------------------------
(* main *)

\* A model that cannot be loaded ends the program.
PrepareModels ==
  /\ pc = "models"
  /\ pc' \in {"tcp", "failed"}
  /\ UNCHANGED <<env, cmd, prio, vm, listening>>

\* A server is constructed if its backend is enabled; a port in use or a
\* certificate that does not load ends the program by an uncaught exception.
StartServer(b, next) ==
  /\ pc = b
  /\ IF Enabled(b) /\ (b = "https" => HasOpenssl)
     THEN \/ listening' = listening \cup {b} /\ pc' = next
          \/ pc' = "failed" /\ UNCHANGED listening
     ELSE pc' = next /\ UNCHANGED listening
  /\ UNCHANGED <<env, cmd, prio, vm>>

Next == \/ Store("store1", FirstSource, "store2")
        \/ Store("store2", SecondSource, "configure")
        \/ Configure
        \/ PrepareModels
        \/ StartServer("tcp", "http")
        \/ StartServer("http", "https")
        \/ StartServer("https", "serving")

Spec == Init /\ [][Next]_vars

-----------------------------------------------------------------------------
(* Properties. *)

TypeOK ==
  /\ env \in Sources /\ cmd \in Sources
  /\ prio \in {"", "env", "env-first"}
  /\ vm \in Sources
  /\ pc \in {"store1", "store2", "configure", "models", "serving", "failed"} \cup Backends
  /\ listening \subseteq Backends
  /\ pc \notin {"store1", "store2", "failed"} => \A o \in Options : vm[o] # "bad"

\* What vm holds at each step of init_config, and that a step is not taken with
\* a configuration that was refused before it.
StoredInv ==
  /\ pc = "store1" => vm = [o \in Options |-> "none"] /\ listening = {}
  /\ pc = "store2" => vm = FirstSource /\ listening = {}
  /\ pc \notin {"store1", "store2", "failed"} => vm = Merge(FirstSource, SecondSource)
  /\ pc \in {"configure", "models"} => listening = {}
  /\ pc \in {"models", "serving"} \cup Backends => Acceptable

\* The backends main has come past when it is at pc.
Passed == {b \in Backends : \/ pc = "serving"
                            \/ pc = "https" /\ b # "https"
                            \/ pc = "http" /\ b = "tcp"}

StartedInv ==
  pc \in {"serving"} \cup Backends =>
    listening = {b \in Passed : Enabled(b) /\ (b = "https" => HasOpenssl)}

\* The inductive invariant.
IInv == TypeOK /\ StoredInv /\ StartedInv

\* A server that comes up listens on every backend whose port either source
\* gives, and on no other (without OpenSSL, on no HTTPS port), never on HTTPS
\* without both its files, and never with documents in front of the API.
ServesAsConfigured ==
  pc = "serving" =>
    /\ listening = {b \in Backends : /\ env[Port(b)] # "none" \/ cmd[Port(b)] # "none"
                                     /\ b = "https" => HasOpenssl}
    /\ listening # {}
    /\ "https" \in listening =>
         \A o \in {"https-cert", "https-key"} : env[o] # "none" \/ cmd[o] # "none"
    /\ vm["swagger-url-path"] # "reserved"

\* "if the `ONNX_SERVER_CONFIG_PRIORITY=env` environment variable exists,
\* environment variables have higher priority" (README.md:142-143).
EnvironmentWins ==
  pc = "serving" /\ prio = "env" =>
    \A o \in Options : env[o] # "none" => vm[o] = env[o]

\* "Normally, command-line options are prioritized over environment variables"
\* (README.md:142).
CommandLineWins ==
  pc = "serving" /\ prio = "" =>
    \A o \in Options : cmd[o] # "none" => vm[o] = cmd[o]
=============================================================================
