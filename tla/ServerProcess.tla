---------------------------- MODULE ServerProcess ----------------------------
(***************************************************************************)
(* Processes and their lifetimes: `serve` processes that contend for a     *)
(* loopback port and publish their Bearer token in server.token, and one   *)
(* command-line process that either connects to such a server or hosts an  *)
(* embedded one, observes its turn, and stops the embedded server again.   *)
(* A token is the number under which it was minted; two processes never    *)
(* mint the same one.  The turn itself is one status: what the coordinator *)
(* does is the subject of SessionRuntime.                                  *)
(***************************************************************************)
EXTENDS Naturals

CONSTANTS
    ServeSlots,     \* places in which a `serve` process may run
    PortOf,         \* the --port each of them was given; 0 takes a free one
    FreePorts,      \* the ports that the system gives for 0
    RemotePort,     \* the port named by --server
    MaxMints        \* bound on the processes that mint a token

ASSUME ServeAssumption == /\ PortOf \in [ServeSlots -> Nat]
                          /\ FreePorts \subseteq Nat \ {0}
                          /\ RemotePort \in Nat
                          /\ MaxMints \in Nat

NoToken == 0
NoPort == 0

VARIABLES
    servers,    \* the `serve` process in each slot: where it stands, the port
                \*   it listens on, its token
    tokenFile,  \* the content of $LATTE_CODE_HOME/server.token
    announcer,  \* history: the port of the process that wrote it
    minted,     \* tokens minted so far
    cli,        \* the command-line process: command, mode, position, token, exit
    embedded,   \* the server inside the command-line process, and its sweeper
    conns,      \* connections that server holds open
    request,    \* the create or follow-up request of the command
    latest      \* status of the session's latest turn

serveVars == <<servers, tokenFile, announcer, minted, cli, embedded, conns, request, latest>>

SettledStatus == {"completed", "denied", "failed", "waiting", "interrupted"}

\* The exit code of a terminal outcome (completed 0, denied 11, failed 1,
\* waiting 10, interrupted 130), named by the outcome.
ExitOf(status) == status

---------------------------------------------------------------------------
(* The `serve` command                                                     *)

Listening(s) == servers[s].at \in {"bound", "serving"}

Listener(p) == {s \in ServeSlots : Listening(s) /\ servers[s].port = p}

\* Configuration is checked and the token minted before anything is bound.
PrepareServer(s) ==
    /\ servers[s].at = "down" /\ minted < MaxMints
    /\ minted' = minted + 1
    /\ servers' = [servers EXCEPT ![s] =
                      [at |-> "prepared", port |-> NoPort, token |-> minted + 1]]
    /\ UNCHANGED <<tokenFile, announcer, cli, embedded, conns, request, latest>>

Stopped(s) == [at |-> "down", port |-> NoPort, token |-> servers[s].token]

\* The listener is bound first; a port in use ends the process.
BindListener(s) ==
    /\ servers[s].at = "prepared"
    /\ \E p \in IF PortOf[s] = 0 THEN FreePorts ELSE {PortOf[s]} :
           servers' = [servers EXCEPT ![s] =
                          IF Listener(p) = {}
                          THEN [at |-> "bound", port |-> p, token |-> servers[s].token]
                          ELSE Stopped(s)]
    /\ UNCHANGED <<tokenFile, announcer, minted, cli, embedded, conns, request, latest>>

\* A fault, for comparison: whoever is about to serve writes the file.
PublishBeforeBind(s) ==
    /\ servers[s].at \in {"prepared", "bound"}
    /\ tokenFile' = servers[s].token
    /\ announcer' = IF servers[s].at = "bound" THEN servers[s].port ELSE PortOf[s]
    /\ servers' = [servers EXCEPT ![s].at = IF @ = "bound" THEN "serving" ELSE @]
    /\ UNCHANGED <<minted, cli, embedded, conns, request, latest>>

\* The token is written aside and renamed into place, readiness announced.
PublishToken(s) ==
    /\ servers[s].at = "bound"
    /\ tokenFile' = servers[s].token
    /\ announcer' = servers[s].port
    /\ servers' = [servers EXCEPT ![s].at = "serving"]
    /\ UNCHANGED <<minted, cli, embedded, conns, request, latest>>

\* SIGTERM, Ctrl-C, a failed write of the token, or a crash: the port is free.
\* The token file stays.
ServerStops(s) ==
    /\ servers[s].at # "down"
    /\ servers' = [servers EXCEPT ![s] = Stopped(s)]
    /\ UNCHANGED <<tokenFile, announcer, minted, cli, embedded, conns, request, latest>>

---------------------------------------------------------------------------
(* Connecting                                                              *)

Leave(code) == cli' = [cli EXCEPT !.at = "gone", !.exit = code]

\* A command that fails or ends has its client dropped before the embedded
\* server is stopped.
Finish(code) == cli' = [cli EXCEPT !.at = "finishing", !.exit = code]

StartCommand(name, mode) ==
    /\ cli.at = "off"
    /\ name = "tui" => mode = "embedded"
    /\ cli' = [cli EXCEPT !.command = name, !.mode = mode, !.at = "connecting"]
    /\ UNCHANGED <<servers, tokenFile, announcer, minted, embedded, conns, request, latest>>

\* EmbeddedServer::start: the token stays in memory, the port is random.
StartEmbedded ==
    /\ cli.at = "connecting" /\ cli.mode = "embedded"
    /\ \/ /\ minted < MaxMints
          /\ minted' = minted + 1
          /\ embedded' = [at |-> "up", sweeper |-> TRUE]
          /\ cli' = [cli EXCEPT !.at = "connected", !.token = minted + 1]
       \/ /\ \E code \in {"usage", "internal"} : Leave(code)
          /\ UNCHANGED <<minted, embedded>>
    /\ UNCHANGED <<servers, tokenFile, announcer, conns, request, latest>>

\* --token, or else the file: without either there is nothing to send.
ResolveToken ==
    /\ cli.at = "connecting" /\ cli.mode = "remote"
    /\ IF tokenFile = NoToken
       THEN Leave("usage")
       ELSE cli' = [cli EXCEPT !.at = "token", !.token = tokenFile]
    /\ UNCHANGED <<servers, tokenFile, announcer, minted, embedded, conns, request, latest>>

\* /health needs no token, so it says nothing about the one just read.
HealthCheck ==
    /\ cli.at = "token"
    /\ IF Listener(RemotePort) = {}
       THEN Leave("unreachable")
       ELSE cli' = [cli EXCEPT !.at = "connected"]
    /\ UNCHANGED <<servers, tokenFile, announcer, minted, embedded, conns, request, latest>>

\* The server that answers a request of the client, and whether it lets it in.
Reaches == IF cli.mode = "embedded" THEN embedded.at = "up"
                                    ELSE Listener(RemotePort) # {}

Authorized == \/ cli.mode = "embedded"
              \/ \E s \in Listener(RemotePort) : servers[s].token = cli.token

Denial == IF Reaches THEN "unauthorized" ELSE "unreachable"

---------------------------------------------------------------------------
(* The session command                                                     *)

\* Workspace and binding are resolved; `list` and `show` are done with that.
Resolve ==
    /\ cli.at = "connected"
    /\ CASE ~(Reaches /\ Authorized) -> Finish(Denial)
         [] cli.command = "list" -> Finish("completed")
         [] cli.command = "tui" -> cli' = [cli EXCEPT !.at = "watching"]
         [] OTHER -> cli' = [cli EXCEPT !.at = "resolved"]
    /\ conns' = IF cli.command = "tui" /\ Reaches THEN conns \union {"sse"} ELSE conns
    /\ UNCHANGED <<servers, tokenFile, announcer, minted, embedded, request, latest>>

\* tui_setup gives up after the connection: the server is only signalled.
SetupFails ==
    /\ cli.at = "connected" /\ cli.command = "tui"
    /\ embedded' = [embedded EXCEPT !.at = "draining"]
    /\ Leave("failed")
    /\ UNCHANGED <<servers, tokenFile, announcer, minted, conns, request, latest>>

\* The create request of `run`, the follow-up of `resume`.
SendTurn ==
    /\ cli.at = "resolved"
    /\ IF Reaches /\ Authorized
       THEN /\ request' = "sent"
            /\ cli' = [cli EXCEPT !.at = "asking"]
            /\ conns' = IF cli.mode = "embedded" THEN conns \union {"rest"} ELSE conns
       ELSE /\ Finish(Denial)
            /\ UNCHANGED <<request, conns>>
    /\ UNCHANGED <<servers, tokenFile, announcer, minted, embedded, latest>>

\* The server accepts or refuses the turn, whether or not the client waits.
AcceptTurn ==
    /\ request = "sent"
    /\ IF cli.mode = "embedded" THEN cli.at # "gone" ELSE Reaches
    /\ \/ request' = "accepted" /\ latest' = "running"
       \/ request' = "refused" /\ UNCHANGED latest
    /\ conns' = conns \ {"rest"}
    /\ UNCHANGED <<servers, tokenFile, announcer, minted, cli, embedded>>

\* Observation starts once the turn was accepted.
Answered ==
    /\ cli.at = "asking" /\ request \in {"accepted", "refused"}
    /\ IF request = "accepted" THEN cli' = [cli EXCEPT !.at = "observing"]
                               ELSE Finish("failed")
    /\ UNCHANGED <<servers, tokenFile, announcer, minted, embedded, conns, request, latest>>

\* The server went away before it answered.
AnswerLost ==
    /\ cli.at = "asking" /\ cli.mode = "remote" /\ request = "sent"
    /\ request' \in {"lost", "sent"}
    /\ Finish("unreachable")
    /\ UNCHANGED <<servers, tokenFile, announcer, minted, embedded, conns, latest>>

\* check_terminal: a snapshot of the latest turn decides the exit code.
Observe ==
    /\ cli.at \in {"observing", "watching"} /\ cli.command # "tui"
    /\ CASE ~(Reaches /\ Authorized) -> Finish(Denial) /\ UNCHANGED conns
         [] latest \in SettledStatus -> Finish(ExitOf(latest)) /\ UNCHANGED conns
         [] OTHER -> /\ cli' = [cli EXCEPT !.at = "watching"]
                     /\ conns' = IF cli.mode = "embedded" THEN conns \union {"sse"}
                                                          ELSE conns
    /\ UNCHANGED <<servers, tokenFile, announcer, minted, embedded, request, latest>>

\* The coordinator settles the turn.
TurnSettles ==
    /\ latest = "running"
    /\ cli.mode = "embedded" => embedded.at # "over" /\ cli.at # "gone"
    /\ latest' \in SettledStatus
    /\ UNCHANGED <<servers, tokenFile, announcer, minted, cli, embedded, conns, request>>

\* The first Ctrl-C: before the connection the process leaves at once, before
\* the turn was sent there is nothing to cancel.
Interrupted ==
    /\ CASE cli.at \in {"connecting", "token"} -> Leave("interrupted")
         [] cli.at \in {"connected", "resolved"} -> Finish("interrupted")
         [] cli.at \in {"asking", "observing", "watching"} /\ cli.command # "tui" ->
              cli' = [cli EXCEPT !.at = "cancelling"]
         [] OTHER -> FALSE
    /\ UNCHANGED <<servers, tokenFile, announcer, minted, embedded, conns, request, latest>>

\* cancel_session is best effort: the session may not exist yet, the call may
\* fail, and the client does not wait for the turn to stop.
CancelTurn ==
    /\ cli.at = "cancelling"
    /\ latest' \in IF latest = "running" /\ Reaches /\ Authorized
                   THEN {"running", "interrupted"} ELSE {latest}
    /\ Finish("interrupted")
    /\ UNCHANGED <<servers, tokenFile, announcer, minted, embedded, conns, request>>

\* The user leaves the terminal UI.
QuitUi ==
    /\ cli.at = "watching" /\ cli.command = "tui"
    /\ \E code \in {"completed", "interrupted", "internal"} : Finish(code)
    /\ UNCHANGED <<servers, tokenFile, announcer, minted, embedded, conns, request, latest>>

---------------------------------------------------------------------------
(* Leaving                                                                 *)

\* drop(client), or the abort of the SSE bridge: the connections are closed.
\* A request already handed to its own task may still take effect.
DropClient ==
    /\ cli.at = "finishing"
    /\ cli' = [cli EXCEPT !.at = "dropped"]
    /\ conns' = {}
    /\ request' \in IF request = "sent" THEN {"sent", "lost"} ELSE {request}
    /\ UNCHANGED <<servers, tokenFile, announcer, minted, embedded, latest>>

SignalShutdown ==
    /\ cli.at = "dropped"
    /\ IF cli.mode = "remote"
       THEN cli' = [cli EXCEPT !.at = "gone"] /\ UNCHANGED embedded
       ELSE /\ cli' = [cli EXCEPT !.at = "waiting"]
            /\ embedded' = [embedded EXCEPT !.at = "draining"]
    /\ UNCHANGED <<servers, tokenFile, announcer, minted, conns, request, latest>>

\* Graceful shutdown waits for every open connection, then stops the sweeper
\* and waits for that.
Drained ==
    /\ embedded.at = "draining" /\ conns = {}
    /\ embedded' = [at |-> "over", sweeper |-> FALSE]
    /\ UNCHANGED <<servers, tokenFile, announcer, minted, cli, conns, request, latest>>

ExitCommand ==
    /\ cli.at = "waiting" /\ embedded.at = "over"
    /\ cli' = [cli EXCEPT !.at = "gone"]
    /\ UNCHANGED <<servers, tokenFile, announcer, minted, embedded, conns, request, latest>>

---------------------------------------------------------------------------

\* A `resume` finds the session's previous turn settled.
ServeInit ==
    /\ servers = [s \in ServeSlots |-> [at |-> "down", port |-> NoPort, token |-> NoToken]]
    /\ tokenFile = NoToken
    /\ announcer = NoPort
    /\ minted = 0
    /\ cli = [command |-> "none", mode |-> "none", at |-> "off",
              token |-> NoToken, exit |-> "none"]
    /\ embedded = [at |-> "off", sweeper |-> FALSE]
    /\ conns = {}
    /\ request = "none"
    /\ latest \in {"none", "completed", "failed"}

ClientStep ==
    \/ StartEmbedded \/ ResolveToken \/ HealthCheck
    \/ Resolve \/ SetupFails \/ SendTurn \/ Answered \/ AnswerLost
    \/ Observe \/ CancelTurn
    \/ DropClient \/ SignalShutdown \/ ExitCommand

ServeNext ==
    \/ \E s \in ServeSlots : \/ PrepareServer(s) \/ BindListener(s)
                             \/ PublishToken(s) \/ ServerStops(s)
    \/ \E name \in {"turn", "list", "tui"}, mode \in {"embedded", "remote"} :
          StartCommand(name, mode)
    \/ ClientStep \/ QuitUi \/ AcceptTurn \/ TurnSettles \/ Interrupted \/ Drained

\* The command's own steps, the answer to a request (bounded by the REST
\* timeout), the end of a turn and the drain of a server without connections
\* happen; nobody has to press Ctrl-C or start a server.
ServeFairness == /\ WF_serveVars(ClientStep)
                 /\ WF_serveVars(AcceptTurn)
                 /\ WF_serveVars(TurnSettles)
                 /\ WF_serveVars(Drained)

ServeSpec == ServeInit /\ [][ServeNext]_serveVars /\ ServeFairness

---------------------------------------------------------------------------

\* serve_bound: "only the process that will actually serve writes
\* server.token".  There is one file for all ports: a server on another port
\* that announces itself later displaces the token.  Nothing else does: the
\* token in the file opens the server that announced itself, unless it was
\* written for another port since, whatever other processes tried the same
\* port and failed, or died there, before or since.
AnnouncedTokenOpens ==
    \A s \in ServeSlots :
        servers[s].at = "serving" =>
            tokenFile = servers[s].token \/ announcer \notin {NoPort, servers[s].port}

\* The exit code of run and resume is the outcome of the turn this command
\* submitted, never that of the session's previous turn: an exit code that
\* classifies a turn is given only after the turn was accepted, and names the
\* status in which it settled.
ExitTellsOutcome ==
    /\ cli.command = "turn"
    /\ cli.at \in {"finishing", "dropped", "waiting", "gone"}
    /\ cli.exit \in SettledStatus \ {"interrupted"}
    => \/ request = "accepted" /\ latest = cli.exit
       \/ request \in {"refused", "lost"} /\ cli.exit = "failed"

\* Every session command ends, and so does the terminal UI once it is left: the
\* connections it opened to its own server never keep that server's
\* graceful shutdown, which the command waits for, from ending.
CommandMustEnd == cli.at = "finishing" \/ (cli.at # "off" /\ cli.command # "tui")
CommandEnds == CommandMustEnd ~> (cli.at = "gone")

\* The invariants of server processes and commands together.
ServerProcessCorrect == AnnouncedTokenOpens /\ ExitTellsOutcome
==============================================================================
