------------------------------ MODULE Console ------------------------------
(***************************************************************************)
(* The control console of trackalert and wforce (trackalert/trackalert.cc, *)
(* wforce/wforce.cc): a client (doClient) sends lines of Lua to a thread   *)
(* of the daemon (controlClientThread), which runs each in every Lua       *)
(* context and in the global one and returns what it printed. A daemon in  *)
(* the foreground also reads lines from its own terminal (doConsole).      *)
(*                                                                         *)
(* Messages are encrypted with counted nonces (common/sodcrypto.cc) and    *)
(* preceded by their length in 16 bits. Only the size of a text matters    *)
(* here, and whose text it is.                                             *)
(***************************************************************************)
EXTENDS Integers, Sequences, FiniteSets

CONSTANTS
    Clients,
    Terminals,    \* among the clients, the terminal of a daemon in the foreground
    Contexts,     \* the Lua contexts of the daemon
    Lines,        \* what a client may send: see Line
    Nonces,       \* what SodiumNonce::init may return at each end: pairs of halves
    CounterSize,  \* values of the counter in a nonce, 2^32 in the code
    Keys,
    ConfigKey,    \* the key in the configuration of daemon and clients
    MaxCommands   \* bound: commands of a client

\* putMsgLen takes 16 bits of a length.
LenSize == 65536

\* size, output: sizes of the command and of what it prints; throws: where it
\* fails, if it does; key: the key that setKey in it sets, or NoKey. A command of
\* 2^16 bytes or more would be read as several messages: these are left out.
NoKey == "none"
Nobody == "nobody"
Line == [size : 0 .. LenSize - 1, output : Nat, throws : {"nowhere", "contexts", "global"},
         key : (Keys \ {ConfigKey}) \union {NoKey}]

ASSUME ConsoleAssumption ==
    /\ Lines \subseteq Line /\ Terminals \subseteq Clients
    /\ Nonces \in [Clients \X {"client", "server"} -> SUBSET ((0 .. CounterSize - 1) \X Nat)]
    /\ CounterSize \in Nat \ {0} /\ MaxCommands \in Nat
    /\ ConfigKey \in Keys /\ NoKey \notin Keys
    /\ IsFiniteSet(Contexts) /\ Nobody \notin Clients

VARIABLES
    daemon,          \* which of the two this is; never changes
    client,          \* per client, its process
    server,          \* per client, the thread of the daemon that serves it
    toServer,        \* per client, what it has sent and is not yet read
    toClient,
    g_key,           \* the daemon's key
    g_luamutex,      \* which thread holds it
    g_outputBuffer,  \* what has been printed: whose command, and which
    mutex            \* per context, who holds its lua_mutex

consoleVars == <<daemon, client, server, toServer, toClient, g_key, g_luamutex, g_outputBuffer, mutex>>

NoNonce == <<0, 0>>
NoText == [of |-> Nobody, n |-> 0, size |-> 0]

ConsoleTypeOK ==
    /\ \A c \in Clients :
        /\ client[c].at \in {"start", "hello", "ready", "waiting", "ended", "failed"}
        /\ client[c].n \in 0 .. MaxCommands
        /\ server[c].at \in {"accept", "idle", "contexts", "global", "print", "reply", "closed"}
        /\ {client[c].reading, client[c].writing, server[c].reading, server[c].writing}
             \subseteq (0 .. CounterSize - 1) \X Nat
        /\ server[c].todo \in Seq(Contexts)
        /\ Len(toServer[c]) <= 1 /\ Len(toClient[c]) <= 1
        /\ server[c].key \in Keys
    /\ daemon \in {"wforce", "trackalert"}
    /\ g_key \in Keys
    /\ g_luamutex \in Clients \union {Nobody}

ConsoleInit ==
    /\ daemon \in {"wforce", "trackalert"}
    /\ client = [c \in Clients |-> [at |-> IF c \in Terminals THEN "ready" ELSE "start", ours |-> NoNonce, reading |-> NoNonce, writing |-> NoNonce,
                                    line |-> Nobody, n |-> 0, shown |-> NoText]]
    /\ server = [c \in Clients |-> [at |-> "accept", reading |-> NoNonce, writing |-> NoNonce, key |-> ConfigKey,
                                    line |-> Nobody, n |-> 0, todo |-> <<>>, response |-> NoText]]
    /\ toServer = [c \in Clients |-> <<>>]
    /\ toClient = [c \in Clients |-> <<>>]
    /\ g_key = ConfigKey
    /\ g_luamutex = Nobody
    /\ g_outputBuffer = NoText

-----------------------------------------------------------------------------
(***************************************************************************)
(* Encryption and framing.                                                 *)
(***************************************************************************)

\* SodiumNonce::merge
merge(lower, higher) == <<lower[1], higher[2]>>

\* SodiumNonce::increment: the first 32 bits, in network order.
increment(nonce) == <<(nonce[1] + 1) % CounterSize, nonce[2]>>

MACBytes == 16

\* sodEncryptSym, and putMsgLen, which takes 16 bits of the length.
sodEncryptSym(text, key, nonce) ==
    [text |-> text, key |-> key, nonce |-> nonce, size |-> text.size + MACBytes,
     len |-> (text.size + MACBytes) % LenSize]

\* Does sodDecryptSym accept the len bytes that were read? Of a message that has
\* only the authentication tag it checks nothing. Otherwise no byte is missing,
\* and key and nonce are those it was encrypted with.
sodDecryptSym(msg, key, nonce) ==
    \/ msg.len = MACBytes
    \/ msg.len = msg.size /\ msg.key = key /\ msg.nonce = nonce

decrypted(msg) == [msg.text EXCEPT !.size = msg.len - MACBytes]

-----------------------------------------------------------------------------
(***************************************************************************)
(* The client.                                                             *)
(***************************************************************************)

clientOnly == <<daemon, server, toClient, g_key, g_luamutex, g_outputBuffer, mutex>>

doClientConnect(c) ==
    /\ client[c].at = "start" /\ c \notin Terminals
    /\ \E ours \in Nonces[c, "client"] :
        /\ client' = [client EXCEPT ![c].at = "hello", ![c].ours = ours]
        /\ toServer' = [toServer EXCEPT ![c] = Append(@, ours)]
    /\ UNCHANGED clientOnly

doClientMerge(c) ==
    /\ client[c].at = "hello" /\ toClient[c] # <<>>
    /\ LET ours == client[c].ours
           theirs == Head(toClient[c])
       IN  client' = [client EXCEPT ![c].at = "ready", ![c].reading = merge(ours, theirs),
                                    ![c].writing = merge(theirs, ours)]
    /\ toClient' = [toClient EXCEPT ![c] = Tail(@)]
    /\ UNCHANGED <<daemon, server, toServer, g_key, g_luamutex, g_outputBuffer, mutex>>

doClientSend(c, line) ==
    /\ client[c].at = "ready" /\ c \notin Terminals /\ client[c].n < MaxCommands
    /\ LET text == [of |-> c, n |-> client[c].n + 1, size |-> line.size, line |-> line]
       IN  toServer' = [toServer EXCEPT ![c] = Append(@, sodEncryptSym(text, ConfigKey, client[c].writing))]
    /\ client' = [client EXCEPT ![c].at = "waiting", ![c].n = @ + 1, ![c].line = line,
                                ![c].writing = increment(@), ![c].shown = NoText]
    /\ UNCHANGED clientOnly

\* The answer arrives and is shown; what cannot be decrypted ends the client.
doClientShow(c) ==
    /\ client[c].at = "waiting" /\ toClient[c] # <<>>
    /\ LET msg == Head(toClient[c])
       IN  client' = IF sodDecryptSym(msg, ConfigKey, client[c].reading)
                     THEN [client EXCEPT ![c].at = "ready", ![c].shown = decrypted(msg), ![c].reading = increment(@)]
                     ELSE [client EXCEPT ![c].at = "failed"]
    /\ toClient' = [toClient EXCEPT ![c] = Tail(@)]
    /\ UNCHANGED <<daemon, server, toServer, g_key, g_luamutex, g_outputBuffer, mutex>>

\* The connection is closed while the client waits. It decrypts what it has not
\* got, which fails.
doClientClosed(c) ==
    /\ client[c].at = "waiting" /\ toClient[c] = <<>> /\ server[c].at = "closed"
    /\ client' = [client EXCEPT ![c].at = "failed"]
    /\ UNCHANGED <<toServer, clientOnly>>

\* quit, or the end of its input. (At the terminal it ends the daemon.)
doClientQuit(c) ==
    /\ client[c].at = "ready" /\ c \notin Terminals
    /\ client' = [client EXCEPT ![c].at = "ended"]
    /\ UNCHANGED <<toServer, clientOnly>>

-----------------------------------------------------------------------------
(***************************************************************************)
(* The daemon.                                                             *)
(***************************************************************************)

\* controlThread accepts, and the new thread exchanges nonces.
controlThread(c) ==
    /\ server[c].at = "accept" /\ toServer[c] # <<>>
    /\ \E ours \in Nonces[c, "server"] :
        LET theirs == Head(toServer[c])
        IN  /\ server' = [server EXCEPT ![c].at = "idle", ![c].reading = merge(ours, theirs),
                                        ![c].writing = merge(theirs, ours), ![c].key = g_key]
            /\ toClient' = [toClient EXCEPT ![c] = Append(@, ours)]
    /\ toServer' = [toServer EXCEPT ![c] = Tail(@)]
    /\ UNCHANGED <<daemon, client, g_key, g_luamutex, g_outputBuffer, mutex>>

\* wforce takes the key once, when the connection is made; trackalert uses the
\* key it has at the time.
SessionKey(c) == IF daemon = "wforce" THEN server[c].key ELSE g_key

\* The contexts, in the order in which the pool has them.
AllContexts ==
    CHOOSE s \in [1 .. Cardinality(Contexts) -> Contexts] : \A i, j \in DOMAIN s : s[i] = s[j] => i = j

\* A command arrives; one that cannot be decrypted ends the connection.
readCommand(c) ==
    /\ server[c].at = "idle" /\ toServer[c] # <<>>
    /\ LET msg == Head(toServer[c])
       IN  server' = IF sodDecryptSym(msg, SessionKey(c), server[c].reading)
                     THEN [server EXCEPT ![c].at = "contexts", ![c].todo = AllContexts, ![c].line = msg.text.line,
                                         ![c].n = msg.text.n, ![c].reading = increment(@)]
                     ELSE [server EXCEPT ![c].at = "closed"]
    /\ toServer' = [toServer EXCEPT ![c] = Tail(@)]
    /\ UNCHANGED <<daemon, client, toClient, g_key, g_luamutex, g_outputBuffer, mutex>>

closeConnection(c) ==
    /\ server[c].at = "idle" /\ toServer[c] = <<>> /\ client[c].at \in {"ended", "failed"}
    /\ server' = [server EXCEPT ![c].at = "closed"]
    /\ UNCHANGED <<daemon, client, toServer, toClient, g_key, g_luamutex, g_outputBuffer, mutex>>

\* The command runs in a context under its lock.
lockForConsole(c) ==
    /\ server[c].at = "contexts" /\ server[c].todo # <<>>
    /\ mutex[Head(server[c].todo)] = Nobody
    /\ mutex' = [mutex EXCEPT ![Head(server[c].todo)] = c]
    /\ UNCHANGED <<daemon, client, server, toServer, toClient, g_key, g_luamutex, g_outputBuffer>>

Text(c, size) == [of |-> c, n |-> server[c].n, size |-> size]

ErrorSize == 10

executeInContext(c) ==
    /\ server[c].at = "contexts" /\ server[c].todo # <<>>
    /\ mutex[Head(server[c].todo)] = c
    /\ mutex' = [mutex EXCEPT ![Head(server[c].todo)] = Nobody]
    /\ server' = IF server[c].line.throws = "contexts"
                 THEN [server EXCEPT ![c].at = "reply", ![c].todo = <<>>, ![c].response = Text(c, ErrorSize)]
                 ELSE [server EXCEPT ![c].at = IF Len(server[c].todo) = 1 THEN "global" ELSE @, ![c].todo = Tail(@)]
    /\ UNCHANGED <<daemon, client, toServer, toClient, g_key, g_luamutex, g_outputBuffer>>

\* mutant: without g_luamutex
executeGlobalUnlocked(c) ==
    /\ server[c].at = "global"
    /\ g_outputBuffer' = Text(c, server[c].line.output)
    /\ g_key' = IF server[c].line.key = NoKey THEN g_key ELSE server[c].line.key
    /\ server' = [server EXCEPT ![c].at = "print"]
    /\ UNCHANGED <<daemon, client, toServer, toClient, g_luamutex, mutex>>

\* Then in the global context: the buffer is cleared, and the command prints
\* into it. setKey, which the contexts ignore, takes effect here.
executeGlobal(c) ==
    /\ server[c].at = "global" /\ g_luamutex = Nobody
    /\ IF server[c].line.throws = "global"
       THEN /\ g_outputBuffer' = NoText
            /\ server' = [server EXCEPT ![c].at = "reply", ![c].response = Text(c, ErrorSize)]
            /\ UNCHANGED <<g_luamutex, g_key>>
       ELSE /\ g_luamutex' = c
            /\ g_outputBuffer' = Text(c, server[c].line.output)
            /\ g_key' = IF server[c].line.key = NoKey THEN g_key ELSE server[c].line.key
            /\ server' = [server EXCEPT ![c].at = "print"]
    /\ UNCHANGED <<daemon, client, toServer, toClient, mutex>>

takeOutput(c) ==
    /\ server[c].at = "print"
    /\ g_luamutex' = Nobody
    /\ server' = [server EXCEPT ![c].at = "reply", ![c].response = g_outputBuffer]
    /\ UNCHANGED <<daemon, client, toServer, toClient, g_key, g_outputBuffer, mutex>>

\* The response is encrypted, and cut to the length that was announced.
sendResponse(c) ==
    /\ server[c].at = "reply" /\ c \notin Terminals
    /\ toClient' = [toClient EXCEPT ![c] = Append(@, sodEncryptSym(server[c].response, SessionKey(c), server[c].writing))]
    /\ server' = [server EXCEPT ![c].at = "idle", ![c].writing = increment(@), ![c].response = NoText]
    /\ UNCHANGED <<daemon, client, toServer, g_key, g_luamutex, g_outputBuffer, mutex>>

-----------------------------------------------------------------------------
(***************************************************************************)
(* The terminal of the daemon: the same, without a connection.             *)
(***************************************************************************)

doConsoleRead(c, line) ==
    /\ c \in Terminals /\ client[c].at = "ready" /\ client[c].n < MaxCommands
    /\ client' = [client EXCEPT ![c].at = "waiting", ![c].n = @ + 1, ![c].line = line, ![c].shown = NoText]
    /\ server' = [server EXCEPT ![c].at = "contexts", ![c].todo = AllContexts, ![c].line = line, ![c].n = @ + 1]
    /\ UNCHANGED <<daemon, toServer, toClient, g_key, g_luamutex, g_outputBuffer, mutex>>

\* What was printed, or an error of any kind.
doConsoleShow(c) ==
    /\ c \in Terminals /\ server[c].at = "reply"
    /\ client' = [client EXCEPT ![c].at = "ready", ![c].shown = server[c].response]
    /\ server' = [server EXCEPT ![c].at = "accept", ![c].response = NoText]
    /\ UNCHANGED <<daemon, toServer, toClient, g_key, g_luamutex, g_outputBuffer, mutex>>

-----------------------------------------------------------------------------
ClientStep(c) ==
    \/ doClientConnect(c) \/ doClientMerge(c) \/ doClientShow(c) \/ doClientClosed(c) \/ doClientQuit(c)
    \/ \E line \in Lines : doClientSend(c, line) \/ doConsoleRead(c, line)

ServerStep(c) ==
    \/ controlThread(c) \/ readCommand(c) \/ closeConnection(c) \/ lockForConsole(c) \/ executeInContext(c)
    \/ executeGlobal(c) \/ takeOutput(c) \/ sendResponse(c) \/ doConsoleShow(c)

Fits(size) == size + MACBytes < LenSize

\* What a client or the terminal shows is what its own last command printed, and
\* all of it if it fits in a message. A client gives up only if the command or
\* what it printed was too long for a message, or somebody has changed the key of
\* the daemon, for wforce before the connection was made: the two ends always
\* agree on the nonces.
ConsoleAnswers ==
    \A c \in Clients :
        /\ client[c].shown # NoText =>
            /\ client[c].shown.of = c /\ client[c].shown.n = client[c].n
            /\ Fits(client[c].line.output) \/ c \in Terminals => client[c].shown.size \in {client[c].line.output, ErrorSize}
        /\ client[c].at = "failed" =>
            ~Fits(client[c].line.size) \/ ~Fits(client[c].line.output) \/ SessionKey(c) # ConfigKey
=============================================================================
