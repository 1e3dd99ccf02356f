------------------------------- MODULE Startup -------------------------------
(***************************************************************************)
(* The start of the process: parseArgs, one option at a time, main up to   *)
(* the server's construction, and what DNSServer's constructor makes of    *)
(* the options.  An option is its name, or a prefix of it, and what atoi   *)
(* or inet_pton makes of its value.                                        *)
(***************************************************************************)
EXTENDS Integers, Sequences, FiniteSets

CONSTANTS
  Numbers,              \* results of atoi
  Servers,              \* addresses inet_pton can read
  NoAddress,            \* text inet_pton cannot read, "" included
  TooLongText,          \* text that does not fit recursiveServer[16]
  Broadcast,            \* 255.255.255.255, which stands for no server
  Memory,               \* what fresh memory may hold where an address goes
  MaxArgs               \* bound on options

ASSUME StartupAssumption ==
  /\ Numbers \subseteq Int /\ MaxArgs \in Nat
  /\ NoAddress \notin Servers /\ TooLongText \notin Servers /\ Memory # {}

(* Option names as given, in the order parseArgs compares them: strncmp    *)
(* over the length given accepts every prefix, the empty one first of all. *)
Spellings == {"", "r", "recursiveserver", "p", "port", "t", "threads",
              "l", "logproperties", "unknown", "malformed"}
Means(name) ==
  CASE name \in {"", "r", "recursiveserver"} -> "recursiveserver"
    [] name \in {"p", "port"} -> "port"
    [] name \in {"t", "threads"} -> "threads"
    [] name \in {"l", "logproperties"} -> "logproperties"
    [] OTHER -> "none"

Option ==
  [name : Spellings, number : Numbers, text : Servers \cup {NoAddress, TooLongText}]

VARIABLES
  args, k,              \* argv after the connection string; the next option
  pc, exitCode,
  port, numThreads, recursiveServer, logProperties,
  listenPort, serverPort, serverAddress

vars == <<args, k, pc, exitCode, port, numThreads, recursiveServer, logProperties,
          listenPort, serverPort, serverAddress>>

(* argc < 2 leaves no connection string. *)
Init ==
  /\ args \in UNION {[1 .. n -> Option] : n \in 0 .. MaxArgs}
  /\ k = 1 /\ exitCode = 0 /\ pc \in {"parse", "usage"}
  /\ pc = "usage" => args = <<>>
  /\ port = 53 /\ numThreads = 64 /\ recursiveServer = NoAddress /\ logProperties = FALSE
  /\ listenPort = 0 /\ serverPort = 0 /\ serverAddress \in Memory

Parsing(option) == pc = "parse" /\ k <= Len(args) /\ Means(args[k].name) = option

ServerOption ==
  /\ Parsing("recursiveserver")
  /\ IF args[k].text = TooLongText                     \* strcpy_s ends the process
     THEN pc' = "aborted" /\ UNCHANGED <<k, recursiveServer>>
     ELSE recursiveServer' = args[k].text /\ k' = k + 1 /\ UNCHANGED pc
  /\ UNCHANGED <<args, exitCode, port, numThreads, logProperties,
                 listenPort, serverPort, serverAddress>>

BadNumber(n) == n <= 0

PortOption ==
  /\ Parsing("port")
  /\ port' = args[k].number
  /\ IF BadNumber(port') THEN pc' = "usage" /\ UNCHANGED k ELSE k' = k + 1 /\ UNCHANGED pc
  /\ UNCHANGED <<args, exitCode, numThreads, recursiveServer, logProperties,
                 listenPort, serverPort, serverAddress>>

ThreadsIntoPort ==
  /\ Parsing("threads")
  /\ port' = args[k].number /\ k' = k + 1
  /\ UNCHANGED <<args, pc, exitCode, numThreads, recursiveServer, logProperties,
                 listenPort, serverPort, serverAddress>>

(* The check is of the port again. *)
ThreadsOption ==
  /\ Parsing("threads")
  /\ numThreads' = args[k].number
  /\ IF BadNumber(port) THEN pc' = "usage" /\ UNCHANGED k ELSE k' = k + 1 /\ UNCHANGED pc
  /\ UNCHANGED <<args, exitCode, port, recursiveServer, logProperties,
                 listenPort, serverPort, serverAddress>>

LogOption ==
  /\ Parsing("logproperties")
  /\ logProperties' = TRUE /\ k' = k + 1
  /\ UNCHANGED <<args, pc, exitCode, port, numThreads, recursiveServer,
                 listenPort, serverPort, serverAddress>>

(* No dash or equals sign, or an option it does not have: usage, exit(0). *)
WrongOption ==
  /\ Parsing("none")
  /\ pc' = "usage"
  /\ UNCHANGED <<args, k, exitCode, port, numThreads, recursiveServer, logProperties,
                 listenPort, serverPort, serverAddress>>

WSAStartupFails ==
  /\ pc = "parse" /\ k > Len(args)
  /\ pc' = "failed" /\ exitCode' = 1
  /\ UNCHANGED <<args, k, port, numThreads, recursiveServer, logProperties,
                 listenPort, serverPort, serverAddress>>

(* DNSServer::DNSServer: inet_pton leaves the address alone when it cannot *)
(* read the text, and an array of a negative length throws.                *)
UShort == 65536                         \* the parameter of htons is a u_short
Htons(n) == n % UShort

Construct ==
  /\ pc = "parse" /\ k > Len(args)
  /\ serverPort' = Htons(port)
  /\ serverAddress' = IF recursiveServer = NoAddress THEN serverAddress ELSE recursiveServer
  /\ IF numThreads < 0
     THEN pc' = "failed" /\ exitCode' = -1 /\ UNCHANGED listenPort
     ELSE \/ pc' = "failed" /\ exitCode' \in {2, 5} /\ UNCHANGED listenPort
          \/ pc' = "started" /\ listenPort' = Htons(port) /\ UNCHANGED exitCode
  /\ UNCHANGED <<args, k, port, numThreads, recursiveServer, logProperties>>

Next ==
  \/ ServerOption \/ PortOption \/ ThreadsOption \/ LogOption \/ WrongOption
  \/ WSAStartupFails \/ Construct

Spec == Init /\ [][Next]_vars

-----------------------------------------------------------------------------
Given(option) == {j \in DOMAIN args : Means(args[j].name) = option}
LastOf(S) == CHOOSE j \in S : \A h \in S : h <= j

AskedPort == IF Given("port") = {} THEN 53 ELSE args[LastOf(Given("port"))].number

(* A server that starts listens on "port to listen to (default 53)", the   *)
(* last one given, and has of every other option the last value given or   *)
(* the default, however the names were shortened and ordered.  It holds of *)
(* ports of 16 bits: parseArgs accepts larger ones, and the constructor's  *)
(* htons cuts them, so that the server listens somewhere else.             *)
StartsAsAsked ==
  pc = "started" =>
    /\ AskedPort < UShort => listenPort = AskedPort
    /\ numThreads = IF Given("threads") = {} THEN 64 ELSE args[LastOf(Given("threads"))].number
    /\ recursiveServer = IF Given("recursiveserver") = {} THEN NoAddress
                         ELSE args[LastOf(Given("recursiveserver"))].text
    /\ logProperties <=> Given("logproperties") # {}
    /\ recursiveServer # NoAddress => serverAddress = recursiveServer
=============================================================================
