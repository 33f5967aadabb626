--------------------------- MODULE LifecycleProps ---------------------------
(***************************************************************************)
(* What the process promises to its operator, to the requests it has taken *)
(* and to its own background tasks.                                        *)
(***************************************************************************)
EXTENDS Lifecycle

MainLocals == [pc : {"down", "save", "start", "serve", "stopping", "stop", "closed"},
               left : Seq(Components), todo : Seq(Servers), expired : BOOLEAN]
TaskLocals == [pc : {"off", "wait", "run"}, jobs : Seq(Servers \cup {"cleanup", "renew"})]

\* Type correctness of the settings, the process and everything it runs.
TypeOK ==
    /\ settings \in [Keys -> Values]
    /\ config \in [Keys -> Values] /\ inUse \in [Keys -> Values]
    /\ saving \in [Writers -> PartialOf(Keys)]
    /\ options \in Commands
    /\ main \in MainLocals
    /\ server \in [Servers -> {"closed", "open", "draining", "drained", "abandoned"}]
    /\ op \in [Handlers -> [pc : {"idle", "busy", "hijacked", "saving"},
                            at : Servers \cup {NoServer}]]
    /\ bg \in [Tasks -> TaskLocals]

-----------------------------------------------------------------------------
\* While a background task is at work every socket is open and so is the
\* database: the shutdown makes no health check warn and no clean-up or renewal
\* of certificates fail.
BackgroundUndisturbed ==
    \A t \in Tasks : bg[t].pc = "run" => DbOpen /\ \A s \in Servers : server[s] = "open"

\* When the database is closed, the only requests their server still knows of are
\* those the five seconds of their component were too short for: an edit that was
\* being saved when the signal came is saved to the end.  Two writers of certificates
\* are no such request: an intercepted CONNECT that has taken over its connection,
\* and the goroutine the creation of a rule leaves behind.
EditsFinish ==
    main.pc = "closed" =>
        \A t \in Handlers : op[t].pc \in {"busy", "saving"} /\ op[t].at \in Waiting
                               => server[op[t].at] = "abandoned"

-----------------------------------------------------------------------------
Built == main.pc \notin {"down", "save"}

\* An option of an installation that says the default, which is not passed on.
Dropped(k) == options.byService /\ k # Listen /\ options.asked[k] = Default[k]

\* The components are built with what the operator asked for, the defaults included,
\* whatever was saved and however the loading and the saving went; only what an
\* installation was asked for is dropped where it says the default.
OptionsWin ==
    [][~Built /\ Built' =>
           \A k \in DOMAIN options.asked :
               ~Dropped(k) => inUse'[k] = options.asked[k]]_vars

\* GET /settings/running shows what the components were made with, through any
\* number of edits, but for the fallback servers and for an empty list of listen
\* addresses, for which they listen on 0.0.0.0.
RunningIsInUse ==
    Built => \A k \in Keys \ {Fallback} :
                \/ config[k] = inUse[k]
                \/ k = Listen /\ config[k] = Zero /\ inUse[k] = Default[k]

\* Liveness: every wait of the shutdown ends, whatever requests, tunnels and web
\* sockets are open and whatever the background tasks were doing.
ShutdownEnds == main.pc = "stopping" ~> main.pc = "down"

-----------------------------------------------------------------------------
(* The settings, with a history variable: those that the operator wants,   *)
(* by the command line and by the edits that had the table to themselves,  *)
(* or Torn after one that had not.                                         *)
CONSTANT Torn
ASSUME TornAssumption == Torn \notin [Keys -> Values]
VARIABLE wanted
watchedVars == <<vars, wanted>>

Apart(w) == \A u \in Writers \ {w} : ~Saving(u)

\* A goroutine gave up what it was saving before the rows said so.
Lost == \E w \in Writers : /\ saving'[w] = Nothing
                           /\ \E k \in DOMAIN saving[w] : settings'[k] # saving[w][k]

WatchedInit == Init /\ wanted = Default

WatchedStart(seen) ==
    /\ Start(seen)
    /\ wanted' = IF wanted = Torn \/ seen # Keys THEN Torn
                 ELSE Override(wanted, Args(options'))

WatchedEdit(t, body) ==
    /\ EditSettings(t, body)
    /\ wanted' = IF Apart(t) THEN Override([k \in Keys |-> Zero], body) ELSE Torn

WatchedUpstream(t, value) ==
    /\ EditUpstream(t, value)
    /\ wanted' = IF Apart(t) /\ wanted # Torn
                 THEN [wanted EXCEPT ![Fallback] = value] ELSE Torn

WatchedNext ==
    \/ \E seen \in Reads : WatchedStart(seen)
    \/ \E t \in Handlers, body \in Bodies : WatchedEdit(t, body)
    \/ \E t \in Handlers, value \in Values : WatchedUpstream(t, value)
    \/ Others /\ wanted' = IF Lost THEN Torn ELSE wanted

WatchedSpec == WatchedInit /\ [][WatchedNext]_watchedVars /\ Fairness

\* Nobody saving, the rows are exactly what the operator wants: what was set by
\* an edit that ran alone and by the options of serve, key by key, through any number
\* of crashes and starts, unless a statement failed or two edits overlapped.
SettingsKept == wanted # Torn /\ (\A w \in Writers : ~Saving(w)) => settings = wanted
=============================================================================
