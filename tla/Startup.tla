------------------------------ MODULE Startup ------------------------------
(***************************************************************************)
(* How the two programs get their settings: main() of the daemon, with the *)
(* configuration file that parse_config reads line by line, and main() of  *)
(* the shell.                                                              *)
(***************************************************************************)
EXTENDS Integers, Sequences

CONSTANTS MaxPort,      \* 65535
          DefaultPort,  \* 55001
          DefaultPath,  \* "./aevum_data"
          Paths,        \* what else a path can be
          MaxConfig     \* bound of the number of lines of a configuration file

ASSUME StartupAssumption == MaxConfig \in Nat

(* The text where a port is expected: not there, only white space, no       *)
(* number for std::stoi, or a number.                                       *)
PortTexts == [kind : {"none", "blank", "word"}, n : {0}]
               \cup [kind : {"number"}, n : {0, 1, MaxPort, MaxPort + 1}]

NoPort == [kind |-> "none", n |-> 0]

ValidPort(p) == p.kind = "number" /\ p.n \in 1..MaxPort

(* A line of the file: what follows "dbPath:" and what follows "port:".     *)
ConfigLines == [db : Paths \cup {"none", "blank"}, port : PortTexts]

(* What a line sets data_path to.                                           *)
PathOf(db) == IF db = "blank" THEN "" ELSE db

(* The arguments of the daemon. A --config that nothing follows is taken    *)
(* for a path.                                                              *)
DaemonArguments ==
    [mode : {"--help", "default"}, path : {DefaultPath}, port : {NoPort}]
      \cup [mode : {"positional"}, path : Paths \cup {"--config"}, port : PortTexts]
      \cup [mode : {"--config"}, path : {DefaultPath}, port : {NoPort}]

ShellArguments == [mode : {"--help", "shell"}, path : {DefaultPath}, port : PortTexts]

VARIABLES
    boot,   \* the next step of main()
    arg,    \* the arguments
    file,   \* the lines of the configuration file
    at,     \* how many of them are parsed
    path,   \* data_path
    port    \* port

startupVars == <<boot, arg, file, at, path, port>>

StartupInit ==
    /\ boot = "start" /\ arg \in DaemonArguments \cup ShellArguments
    /\ file = <<>> /\ at = 0 /\ path = DefaultPath /\ port = DefaultPort

(* main() of the daemon up to the configuration.                            *)
Daemon ==
    /\ boot = "start" /\ arg.mode \in {"--help", "default", "positional"}
    /\ path' = IF arg.mode = "positional" THEN arg.path ELSE path
    /\ port' = IF ValidPort(arg.port) THEN arg.port.n ELSE port
    /\ boot' = CASE arg.mode = "--help" -> "exit0"
                 [] arg.port.kind = "none" \/ ValidPort(arg.port) -> "open"
                 [] OTHER -> "exit1"
    /\ UNCHANGED <<arg, file, at>>

(* parse_config: the file opens, or the exception ends the program.         *)
OpenConfig ==
    /\ boot = "start" /\ arg.mode = "--config"
    /\ \/ /\ file' \in UNION {[1..n -> ConfigLines] : n \in 0..MaxConfig}
          /\ boot' = "config"
       \/ boot' = "exit1" /\ UNCHANGED file
    /\ UNCHANGED <<arg, at, path, port>>

\* Variant: the port is looked for in a line that has a path, too.
ConfigLineBoth ==
    /\ boot = "config" /\ at < Len(file)
    /\ at' = at + 1
    /\ LET l == file[at + 1]
       IN  /\ path' = IF l.db = "none" THEN path ELSE PathOf(l.db)
           /\ port' = IF ValidPort(l.port) THEN l.port.n ELSE port
           /\ boot' = IF l.port.kind \in {"none", "blank"} \/ ValidPort(l.port)
                      THEN "config" ELSE "exit1"
    /\ UNCHANGED <<arg, file>>

(* parse_config, a line: a path may be blank, a blank port changes nothing, *)
(* and a port that is no number or out of range throws.                     *)
ConfigLine ==
    /\ boot = "config" /\ at < Len(file)
    /\ at' = at + 1
    /\ LET l == file[at + 1]
       IN  \/ /\ l.db # "none"
              /\ path' = PathOf(l.db)
              /\ UNCHANGED <<port, boot>>
           \/ /\ l.db = "none"
              /\ port' = IF ValidPort(l.port) THEN l.port.n ELSE port
              /\ boot' = IF l.port.kind \in {"none", "blank"} \/ ValidPort(l.port)
                         THEN boot ELSE "exit1"
              /\ UNCHANGED path
    /\ UNCHANGED <<arg, file>>

ConfigEnd == /\ boot = "config" /\ at = Len(file) /\ boot' = "open"
             /\ UNCHANGED <<arg, file, at, path, port>>

(* Core and Server are constructed and run() is entered; an exception of    *)
(* any of them ends the program.                                            *)
OpenDatabase == /\ boot = "open" /\ boot' \in {"serve", "exit1"}
                /\ UNCHANGED <<arg, file, at, path, port>>

ServeEnds == /\ boot = "serve" /\ boot' \in {"exit0", "exit1"}
             /\ UNCHANGED <<arg, file, at, path, port>>

(* main() of the shell: it serves its user when it is connected.            *)
ShellMain ==
    /\ boot = "start" /\ arg.mode = "shell"
    /\ port' = IF ValidPort(arg.port) THEN arg.port.n ELSE port
    /\ boot' \in IF arg.port.kind = "none" \/ ValidPort(arg.port)
                 THEN {"serve", "exit1"} ELSE {"exit1"}
    /\ UNCHANGED <<arg, file, at, path>>

StartupNext == \/ Daemon \/ OpenConfig \/ ConfigLine \/ ConfigEnd
               \/ OpenDatabase \/ ServeEnds \/ ShellMain

StartupSpec == StartupInit /\ [][StartupNext]_startupVars

-----------------------------------------------------------------------------
(* The lines that set the path and the port, and the settings after the    *)
(* first n lines.                                                           *)
PathLines(n) == {i \in 1..n : file[i].db # "none"}
PortLines(n) == {i \in 1..n : file[i].db = "none" /\ file[i].port.kind \in {"number", "word"}}

IsLast(i, lines) == \A j \in lines : j <= i

Configured(n) ==
    /\ \A i \in PortLines(n) : ValidPort(file[i].port)
    /\ arg.port # NoPort => ValidPort(arg.port)
    /\ IF PortLines(n) = {} THEN port = IF arg.port # NoPort THEN arg.port.n ELSE DefaultPort
       ELSE \E i \in PortLines(n) : IsLast(i, PortLines(n)) /\ port = file[i].port.n
    /\ IF PathLines(n) = {} THEN path = arg.path
       ELSE \E i \in PathLines(n) : IsLast(i, PathLines(n)) /\ path = PathOf(file[i].db)

(* A program that serves does so with the settings it was given: with the   *)
(* last path and the last port of the file that are not overridden, with    *)
(* the defaults for what is not set, and never after a port it could not    *)
(* use (main.cpp, parse_config).                                            *)
ServesAsConfigured == boot = "serve" => Configured(Len(file))

(* The inductive invariant: while the file is read, the settings are those  *)
(* of the lines that are parsed.                                            *)
StartupInv ==
    /\ arg \in DaemonArguments \cup ShellArguments
    /\ file \in Seq(ConfigLines) /\ at \in 0..Len(file)
    /\ boot = "start" => file = <<>> /\ path = DefaultPath /\ port = DefaultPort
    /\ boot = "config" => arg.port = NoPort
    /\ boot \in {"open", "serve"} => at = Len(file)
    /\ boot \in {"config", "open", "serve"} => Configured(at)
=============================================================================
