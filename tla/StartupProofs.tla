--------------------------- MODULE StartupProofs ----------------------------
(* Proofs about Startup, for any number of options, any results of atoi    *)
(* and inet_pton, and any content of fresh memory.                         *)
EXTENDS Startup, TLAPS

(* The options parseArgs has gone through. *)
SoFar(option) == {j \in Given(option) : j < k}

(* What parseArgs keeps of the values an option was given. *)
LastNumber(option, default) ==
  IF SoFar(option) = {} THEN default ELSE args[LastOf(SoFar(option))].number
LastServer ==
  IF SoFar("recursiveserver") = {} THEN NoAddress
  ELSE args[LastOf(SoFar("recursiveserver"))].text

(* As long as the process has not ended each setting is the last value     *)
(* among the options gone through, and the port is positive.  A server     *)
(* that started has gone through all of them, and has taken the port and   *)
(* the address over.                                                       *)
ParseInv ==
  /\ args \in Seq(Option) /\ k \in 1 .. Len(args) + 1
  /\ pc \in {"parse", "started"} =>
       /\ port = LastNumber("port", 53) /\ numThreads = LastNumber("threads", 64)
       /\ recursiveServer = LastServer /\ (logProperties <=> SoFar("logproperties") # {})
       /\ port \in Nat \ {0}
  /\ pc = "started" =>
       /\ k = Len(args) + 1 /\ listenPort = Htons(port)
       /\ recursiveServer # NoAddress => serverAddress = recursiveServer

-----------------------------------------------------------------------------
(* The last of a set of positions to which a later one is added. *)
LEMMA LastAdded ==
  ASSUME NEW n \in Nat, NEW S \in SUBSET (1 .. n - 1)
  PROVE  LastOf(S \cup {n}) = n
<1> DEFINE Latest(j) == \A h \in S \cup {n} : h <= j
<1>1. n \in S \cup {n} /\ Latest(n) OBVIOUS
<1>2. ASSUME NEW j \in S \cup {n}, Latest(j) PROVE j = n
  BY <1>2
<1> HIDE DEF Latest
<1>3. (CHOOSE j \in S \cup {n} : Latest(j)) = n
  BY Zenon, <1>1, <1>2
<1> QED BY <1>3 DEF LastOf, Latest

(* One option more has been gone through. *)
LEMMA OneMore ==
  ASSUME ParseInv, k <= Len(args), k' = k + 1, args' = args, NEW option
  PROVE  /\ Means(args[k].name) = option =>
              SoFar(option)' = SoFar(option) \cup {k} /\ LastOf(SoFar(option)') = k
         /\ Means(args[k].name) # option => SoFar(option)' = SoFar(option)
<1>1. k \in 1 .. Len(args) /\ DOMAIN args = 1 .. Len(args) /\ Len(args) \in Nat /\ k \in Nat
  BY DEF ParseInv
<1>2. Given(option)' = Given(option) /\ Given(option) \subseteq 1 .. Len(args)
  BY <1>1 DEF Given
<1>3. k \in Given(option) <=> Means(args[k].name) = option
  BY <1>1 DEF Given
<1>4. SoFar(option)' = {j \in Given(option) : j <= k}
  BY <1>1, <1>2 DEF SoFar
<1>5. ASSUME Means(args[k].name) = option
      PROVE  SoFar(option)' = SoFar(option) \cup {k}
  BY <1>1, <1>2, <1>3, <1>4, <1>5 DEF SoFar
<1>6. ASSUME Means(args[k].name) # option
      PROVE  SoFar(option)' = SoFar(option)
  BY <1>1, <1>2, <1>3, <1>4, <1>6 DEF SoFar
<1>7. SoFar(option) \in SUBSET (1 .. k - 1)
  BY <1>1, <1>2 DEF SoFar
<1> QED BY <1>1, <1>5, <1>6, <1>7, LastAdded

(* A number option that was accepted is the last one now. *)
LEMMA NumberTaken ==
  ASSUME ParseInv, k <= Len(args), k' = k + 1, args' = args, NEW option, NEW default
  PROVE  LastNumber(option, default)' =
           IF Means(args[k].name) = option THEN args[k].number
           ELSE LastNumber(option, default)
<1>1. CASE Means(args[k].name) = option
  BY Zenon, <1>1, OneMore DEF LastNumber
<1>2. CASE Means(args[k].name) # option
  BY Zenon, <1>2, OneMore DEF LastNumber
<1> QED BY <1>1, <1>2

-----------------------------------------------------------------------------
(* The invariant holds before any option is read. *)
LEMMA ParseInitially == Init => ParseInv
<1> SUFFICES ASSUME Init PROVE ParseInv
  OBVIOUS
<1>1. PICK n \in 0 .. MaxArgs : args \in [1 .. n -> Option]
  BY DEF Init
<1>2. args \in Seq(Option) /\ Len(args) \in Nat /\ DOMAIN args = 1 .. Len(args)
  BY <1>1, StartupAssumption DEF StartupAssumption
<1>3. k = 1 /\ \A option : SoFar(option) = {}
  BY <1>2 DEF Init, SoFar, Given
<1>4. port = LastNumber("port", 53) /\ numThreads = LastNumber("threads", 64)
  BY <1>3 DEF Init, LastNumber
<1>5. recursiveServer = LastServer /\ ~logProperties
  BY <1>3 DEF Init, LastServer
<1> QED BY <1>2, <1>3, <1>4, <1>5 DEF Init, ParseInv

(* The names of the options do not overlap, whatever prefix was given. *)
LEMMA ParseStep == ParseInv /\ [Next]_vars => ParseInv'
<1> SUFFICES ASSUME ParseInv, [Next]_vars PROVE ParseInv'
  OBVIOUS
<1>1. ASSUME NEW option, Parsing(option), k' = k + 1, UNCHANGED <<args, pc>>,
             port' = IF option = "port" THEN args[k].number ELSE port,
             port' \in Nat \ {0},
             numThreads' = IF option = "threads" THEN args[k].number ELSE numThreads,
             recursiveServer' =
               IF option = "recursiveserver" THEN args[k].text ELSE recursiveServer,
             logProperties' = IF option = "logproperties" THEN TRUE ELSE logProperties
      PROVE  ParseInv'
  <2>1. /\ pc = "parse" /\ k <= Len(args) /\ Means(args[k].name) = option
        /\ k' \in 1 .. Len(args) + 1 /\ args \in Seq(Option)
    BY <1>1 DEF Parsing, ParseInv
  <2>2. port' = LastNumber("port", 53)' /\ numThreads' = LastNumber("threads", 64)'
    BY <1>1, <2>1, NumberTaken DEF ParseInv
  <2>3. recursiveServer' = LastServer'
    <3>1. CASE option = "recursiveserver"
      BY Zenon, <1>1, <2>1, <3>1, OneMore DEF LastServer
    <3>2. CASE option # "recursiveserver"
      BY Zenon, <1>1, <2>1, <3>2, OneMore DEF ParseInv, LastServer
    <3> QED BY <3>1, <3>2
  <2>4. logProperties' <=> SoFar("logproperties")' # {}
    <3>1. CASE option = "logproperties"
      BY Zenon, <1>1, <2>1, <3>1, OneMore
    <3>2. CASE option # "logproperties"
      BY Zenon, <1>1, <2>1, <3>2, OneMore DEF ParseInv
    <3> QED BY <3>1, <3>2
  <2> QED BY <1>1, <2>1, <2>2, <2>3, <2>4 DEF ParseInv
<1>2. ASSUME UNCHANGED <<args, k>>, pc' \notin {"parse", "started"} PROVE ParseInv'
  BY <1>2 DEF ParseInv
<1>a. pc = "parse" => port \in Nat \ {0} BY DEF ParseInv
<1>3. CASE ServerOption
  <2>1. CASE args[k].text = TooLongText BY <1>2, <1>3, <2>1 DEF ServerOption
  <2>2. CASE args[k].text # TooLongText BY <1>1, <1>a, <1>3, <2>2 DEF ServerOption, Parsing
  <2> QED BY <2>1, <2>2
<1>4. CASE PortOption
  <2>1. CASE BadNumber(args[k].number) BY <1>2, <1>4, <2>1 DEF PortOption
  <2>2. CASE ~BadNumber(args[k].number)
    <3>1. args[k].number \in Nat \ {0}
      <4>1. k \in 1 .. Len(args) /\ args \in Seq(Option)
        BY <1>4 DEF PortOption, Parsing, ParseInv
      <4>2. args[k] \in Option BY <4>1
      <4>3. args[k].number \in Int
        BY <4>2, StartupAssumption DEF StartupAssumption, Option
      <4> QED BY <2>2, <4>3 DEF BadNumber
    <3> QED BY <1>1, <1>4, <2>2, <3>1 DEF PortOption
  <2> QED BY <2>1, <2>2
<1>5. CASE ThreadsOption
  <2>1. CASE BadNumber(port) BY <1>2, <1>5, <2>1 DEF ThreadsOption
  <2>2. CASE ~BadNumber(port) BY <1>1, <1>a, <1>5, <2>2 DEF ThreadsOption, Parsing
  <2> QED BY <2>1, <2>2
<1>6. CASE LogOption BY <1>1, <1>a, <1>6 DEF LogOption, Parsing
<1>7. CASE WrongOption BY <1>2, <1>7 DEF WrongOption
<1>8. CASE WSAStartupFails BY <1>2, <1>8 DEF WSAStartupFails
<1>9. CASE Construct
  <2>1. CASE pc' = "failed" BY <1>2, <1>9, <2>1 DEF Construct
  <2>2. CASE pc' = "started"
    <3>1. /\ pc = "parse" /\ k > Len(args)
          /\ UNCHANGED <<args, k, port, numThreads, recursiveServer, logProperties>>
          /\ listenPort' = Htons(port)
          /\ recursiveServer # NoAddress => serverAddress' = recursiveServer
      BY <1>9, <2>2 DEF Construct
    <3>2. k = Len(args) + 1 BY <3>1 DEF ParseInv
    <3> QED BY <2>2, <3>1, <3>2 DEF ParseInv, LastNumber, LastServer, SoFar, Given
  <2> QED BY <1>9, <2>1, <2>2 DEF Construct
<1>10. CASE UNCHANGED vars
  BY <1>10 DEF vars, ParseInv, LastNumber, LastServer, SoFar, Given
<1> QED BY <1>3, <1>4, <1>5, <1>6, <1>7, <1>8, <1>9, <1>10 DEF Next

(* Together: the invariant holds throughout. *)
LEMMA ParseInvariant == Spec => []ParseInv
BY ParseInitially, ParseStep, PTL DEF Spec

(* When the server starts, parseArgs has gone through all options. *)
LEMMA AllGoneThrough ==
  ASSUME ParseInv, pc = "started", NEW option
  PROVE  SoFar(option) = Given(option)
<1>1. k = Len(args) + 1 /\ DOMAIN args = 1 .. Len(args) /\ Len(args) \in Nat
  BY DEF ParseInv
<1> QED BY <1>1 DEF SoFar, Given

(* The port asked for is positive, and one of 16 bits survives htons.      *)
LEMMA PortKept ==
  ASSUME ParseInv, pc = "started", AskedPort < UShort
  PROVE  listenPort = AskedPort
<1>1. port = AskedPort /\ listenPort = Htons(port) /\ port \in Nat
  BY Zenon, AllGoneThrough DEF ParseInv, AskedPort, LastNumber
<1>2. ASSUME NEW n \in Nat, n < UShort PROVE Htons(n) = n
  BY <1>2 DEF Htons, UShort
<1> QED BY Zenon, <1>1, <1>2

(* The server listens on the last port given, or on port 53, as long as it *)
(* is one of 16 bits, and has the last value of each other option, or the  *)
(* default of one that was not given, however options were shortened,      *)
(* ordered and repeated.                                                   *)
THEOREM StartsWithLastValues == Spec => []StartsAsAsked
<1>1. ParseInv => StartsAsAsked
  BY Zenon, AllGoneThrough, PortKept DEF ParseInv, StartsAsAsked, LastNumber, LastServer
<1> QED BY <1>1, ParseInvariant, PTL
=============================================================================
