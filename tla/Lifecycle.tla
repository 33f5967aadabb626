------------------------------ MODULE Lifecycle ------------------------------
(***************************************************************************)
(* The process (runServe of main.go): it loads the settings, builds and    *)
(* starts the components, runs two background tasks, and on a signal stops *)
(* them all and closes the database, while requests come and go.           *)
(***************************************************************************)
EXTENDS Settings, Sequences

CONSTANTS Servers,    \* the sockets, one per component, protocol and address
          ServersOf,  \* the sockets of each component, in the order of its Start
          Waiting,    \* sockets of net/http, whose Shutdown waits for requests
          Admin,      \* the socket of the REST API
          Asked,      \* the sockets a goroutine's requests come in on
          Hijacking,  \* sockets some of whose requests take over the connection
          Checks,     \* the sockets a health check asks, in its order
          Given,      \* the options of command lines; --listen takes an address
          NoServer

Components == {"dns", "reverse", "forward", "api"}
StartOrder == <<"dns", "reverse", "forward", "api">>
StopOrder  == <<"api", "forward", "reverse", "dns">>
Tasks == {"health", "maintenance"}

Of(c) == {ServersOf[c][i] : i \in DOMAIN ServersOf[c]}

ASSUME LifecycleAssumption ==
    /\ ServersOf \in [Components -> Seq(Servers)]
    /\ Servers = UNION {Of(c) : c \in Components}
    /\ \A c, d \in Components : c # d => Of(c) \cap Of(d) = {}
    /\ Waiting \subseteq Servers /\ Hijacking \subseteq Servers
    /\ Admin \in Of("api") /\ Admin \in Waiting
    /\ Asked \in [Handlers -> SUBSET Servers]
    /\ Checks \in Seq(Servers) \ {<<>>}
    /\ Given \subseteq PartialOf(Options) /\ Nothing \in Given
    /\ \A o \in Given : Listen \in DOMAIN o => o[Listen] # Zero
    /\ NoServer \notin Servers

VARIABLES options,  \* until the components are built: what the operator asked for,
                    \* of serve, or of the installation of the service that runs it
          main,     \* the locals of the main goroutine
          server,   \* what became of each socket
          op,       \* the request each goroutine works on
          bg        \* the background tasks

processVars == <<options, main, server, op, bg>>
vars == <<settingsVars, processVars>>

Down == [pc |-> "down", left |-> <<>>, todo |-> <<>>, expired |-> FALSE]
Idle == [pc |-> "idle", at |-> NoServer]
Off  == [pc |-> "off", jobs |-> <<>>]
Wait == [pc |-> "wait", jobs |-> <<>>]

Commands  == [asked : Given, byService : BOOLEAN]
NoCommand == [asked |-> Nothing, byService |-> FALSE]

\* The options serve is called with.
Args(cmd) == IF cmd.byService THEN ServiceArgs(cmd.asked) ELSE cmd.asked

\* One run of a task.
Jobs(t) == IF t = "health" THEN Checks ELSE <<"cleanup", "renew">>

DbOpen  == main.pc \notin {"down", "closed"}
BgStop  == main.pc \in {"stopping", "stop", "closed"}
\* The context of the live sockets, cancelled when the API is stopped.
Cancelled == /\ main.pc \in {"stop", "closed"}
             /\ \A i \in DOMAIN main.left : main.left[i] # "api"

\* Requests that Shutdown waits for: those that still answer themselves.
Active(s) == {t \in Handlers : op[t].pc \in {"busy", "saving"} /\ op[t].at = s}

Init == /\ SettingsInit
        /\ options = NoCommand
        /\ main = Down
        /\ server = [s \in Servers |-> "closed"]
        /\ op = [t \in Handlers |-> Idle]
        /\ bg = [t \in Tasks |-> Off]

-----------------------------------------------------------------------------
(* The start.                                                              *)
Start(seen) ==
    /\ main.pc = "down"
    /\ main' = [Down EXCEPT !.pc = "save"]
    /\ options' \in Commands
    /\ LoadSettings(seen, Args(options'))
    /\ UNCHANGED <<server, op, bg>>

\* An error while saving is only a warning.
SaveAtStart ==
    /\ main.pc = "save"
    /\ SaveKey(Main) \/ (DbFails /\ SaveFails(Main))
    /\ UNCHANGED processVars

BuildComponents ==
    /\ main.pc = "save" /\ Build
    /\ main' = [main EXCEPT !.pc = "start", !.left = StartOrder]
    /\ options' = NoCommand
    /\ UNCHANGED <<server, op, bg>>

StartComponent ==
    /\ main.pc = "start" /\ main.left # <<>>
    /\ server' = [s \in Servers |-> IF s \in Of(Head(main.left)) THEN "open" ELSE server[s]]
    /\ main' = [main EXCEPT !.left = Tail(main.left)]
    /\ UNCHANGED <<settingsVars, options, op, bg>>

Serve ==
    /\ main.pc = "start" /\ main.left = <<>>
    /\ main' = [main EXCEPT !.pc = "serve"]
    /\ bg' = [t \in Tasks |-> Wait]
    /\ UNCHANGED <<settingsVars, options, server, op>>

-----------------------------------------------------------------------------
(* The background tasks.                                                   *)
Tick(t) ==
    /\ bg[t].pc = "wait"
    /\ bg' = [bg EXCEPT ![t] = [pc |-> "run", jobs |-> Jobs(t)]]
    /\ UNCHANGED <<settingsVars, options, main, server, op>>

RunJob(t) ==
    /\ bg[t].pc = "run"
    /\ bg' = [bg EXCEPT ![t] = IF Tail(bg[t].jobs) = <<>> THEN Wait
                               ELSE [bg[t] EXCEPT !.jobs = Tail(bg[t].jobs)]]
    /\ UNCHANGED <<settingsVars, options, main, server, op>>

EndTask(t) ==
    /\ BgStop /\ bg[t].pc = "wait"
    /\ bg' = [bg EXCEPT ![t] = Off]
    /\ UNCHANGED <<settingsVars, options, main, server, op>>

-----------------------------------------------------------------------------
(* Requests.  A socket that is shutting down still takes requests on       *)
(* connections it accepted before, until none is left.                     *)
Accept(t) ==
    /\ op[t] = Idle
    /\ \E s \in Asked[t] :
           /\ server[s] \in {"open", "draining", "abandoned"}
           /\ op' = [op EXCEPT ![t] = [pc |-> "busy", at |-> s]]
    /\ UNCHANGED <<settingsVars, options, main, server, bg>>

\* A tunnel, or a live web socket: the server forgets the connection, and with it
\* what the handler does from then on.  (An intercepted tunnel may still have its
\* certificate made, a call of CertManager; the one the handler of a created rule
\* has made in the background is a goroutine of its own.  The shutdown waits for
\* neither.)
Hijack(t) ==
    /\ op[t].pc = "busy" /\ op[t].at \in Hijacking
    /\ op' = [op EXCEPT ![t].pc = "hijacked"]
    /\ UNCHANGED <<settingsVars, options, main, server, bg>>

\* A tunnel ends with its connections.  The context of a live socket's request
\* never does, and errors of writing to it are dropped: only the Stop ends it.
EndHijacked(t) ==
    /\ op[t].pc = "hijacked"
    /\ op[t].at = Admin => Cancelled
    /\ op' = [op EXCEPT ![t] = Idle]
    /\ UNCHANGED <<settingsVars, options, main, server, bg>>

Edits(t) ==
    /\ op[t] = [pc |-> "busy", at |-> Admin]
    /\ op' = [op EXCEPT ![t].pc = "saving"]
    /\ UNCHANGED <<options, main, server, bg>>

EditSettings(t, body)  == Edits(t) /\ PutSettings(t, body)
EditUpstream(t, value) == Edits(t) /\ PutUpstream(t, value)

SaveEdit(t) ==
    /\ op[t].pc = "saving"
    /\ \/ DbOpen /\ SaveKey(t)
       \/ (DbFails \/ ~DbOpen) /\ SaveFails(t)
    /\ UNCHANGED processVars

Respond(t) ==
    /\ op[t].pc \in {"busy", "saving"} /\ ~Saving(t)
    /\ op' = [op EXCEPT ![t] = Idle]
    /\ UNCHANGED <<settingsVars, options, main, server, bg>>

-----------------------------------------------------------------------------
(* The shutdown.                                                           *)
Signal ==
    /\ main.pc = "serve"
    /\ main' = [main EXCEPT !.pc = "stopping"]
    /\ UNCHANGED <<settingsVars, options, server, op, bg>>

\* Deviation: the background tasks are not waited for.
WaitForTasksNot ==
    /\ main.pc = "stopping"
    /\ main' = [main EXCEPT !.pc = "stop", !.left = StopOrder]
    /\ UNCHANGED <<settingsVars, options, server, op, bg>>

WaitForTasks ==
    /\ main.pc = "stopping" /\ \A t \in Tasks : bg[t] = Off
    /\ main' = [main EXCEPT !.pc = "stop", !.left = StopOrder]
    /\ UNCHANGED <<settingsVars, options, server, op, bg>>

\* The Stop of a component; its sockets share one context of five seconds.
StopComponent ==
    /\ main.pc = "stop" /\ main.todo = <<>> /\ main.left # <<>>
    /\ main' = [main EXCEPT !.left = Tail(main.left), !.todo = ServersOf[Head(main.left)],
                            !.expired = FALSE]
    /\ UNCHANGED <<settingsVars, options, server, op, bg>>

\* Deviation: the context has no deadline.
ExpireNever == FALSE /\ UNCHANGED vars

Expire ==
    /\ main.pc = "stop" /\ main.todo # <<>> /\ ~main.expired
    /\ main' = [main EXCEPT !.expired = TRUE]
    /\ UNCHANGED <<settingsVars, options, server, op, bg>>

\* Shutdown closes the listener ...
Shutdown ==
    /\ main.pc = "stop" /\ main.todo # <<>> /\ server[Head(main.todo)] = "open"
    /\ server' = [server EXCEPT ![Head(main.todo)] = "draining"]
    /\ UNCHANGED <<settingsVars, options, main, op, bg>>

\* Deviation: it does not wait (Close instead of Shutdown).
ShutdownReturnsEarly ==
    /\ main.pc = "stop" /\ main.todo # <<>> /\ server[Head(main.todo)] = "draining"
    /\ server' = [server EXCEPT ![Head(main.todo)] = "drained"]
    /\ main' = [main EXCEPT !.todo = Tail(main.todo)]
    /\ UNCHANGED <<settingsVars, options, op, bg>>

\* ... and returns when no request is left, or the context expired.
ShutdownReturns ==
    LET s == Head(main.todo) IN
    /\ main.pc = "stop" /\ main.todo # <<>> /\ server[s] = "draining"
    /\ \/ (s \in Waiting => Active(s) = {}) /\ server' = [server EXCEPT ![s] = "drained"]
       \/ s \in Waiting /\ Active(s) # {} /\ main.expired
          /\ server' = [server EXCEPT ![s] = "abandoned"]
    /\ main' = [main EXCEPT !.todo = Tail(main.todo)]
    /\ UNCHANGED <<settingsVars, options, op, bg>>

CloseDb ==
    /\ main.pc = "stop" /\ main.left = <<>> /\ main.todo = <<>>
    /\ main' = [main EXCEPT !.pc = "closed"]
    /\ UNCHANGED <<settingsVars, options, server, op, bg>>

\* The process ends: main returns, it is killed, or it panics.
End == /\ Forget
       /\ options' = NoCommand
       /\ main' = Down
       /\ server' = [s \in Servers |-> "closed"]
       /\ op' = [t \in Handlers |-> Idle]
       /\ bg' = [t \in Tasks |-> Off]

Exit  == main.pc = "closed" /\ End
Crash == main.pc # "down" /\ End

-----------------------------------------------------------------------------
Starting == SaveAtStart \/ BuildComponents \/ StartComponent \/ Serve
Stopping == \/ WaitForTasks \/ StopComponent \/ Shutdown \/ ShutdownReturns
            \/ CloseDb \/ Exit

Task(t)    == Tick(t) \/ RunJob(t) \/ EndTask(t)
Request(t) == Accept(t) \/ Hijack(t) \/ EndHijacked(t) \/ SaveEdit(t) \/ Respond(t)

Others == \/ Starting \/ Signal \/ Stopping \/ Expire \/ Crash
          \/ \E t \in Tasks : Task(t)
          \/ \E t \in Handlers : Request(t)

Next == \/ \E seen \in Reads : Start(seen)
        \/ \E t \in Handlers, body \in Bodies : EditSettings(t, body)
        \/ \E t \in Handlers, value \in Values : EditUpstream(t, value)
        \/ Others

Spec == Init /\ [][Next]_vars

\* Go schedules main and the tasks, and the deadline comes.  A select that finds
\* both the stop channel and a timer ready takes either, but the timers of the
\* tasks are an hour or a day apart, so the stop is not passed over for ever.
Fairness == /\ WF_vars(Starting \/ Stopping) /\ WF_vars(Expire)
            /\ \A t \in Tasks : WF_vars(RunJob(t)) /\ SF_vars(EndTask(t))
=============================================================================
