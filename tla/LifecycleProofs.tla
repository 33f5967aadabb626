-------------------------- MODULE LifecycleProofs ---------------------------
(***************************************************************************)
(* Proofs about the settings and the life cycle of the process, for any    *)
(* sockets, settings, options, requests and failing statements.            *)
(***************************************************************************)
EXTENDS LifecycleProps, AccessLog, SequenceTheorems, TLAPS

SettingsOK ==
    /\ settings \in [Keys -> Values]
    /\ config \in [Keys -> Values] /\ inUse \in [Keys -> Values]
    /\ saving \in [Writers -> PartialOf(Keys)]

ProcessOK ==
    /\ options \in Commands
    /\ main \in MainLocals
    /\ server \in [Servers -> {"closed", "open", "draining", "drained", "abandoned"}]
    /\ op \in [Handlers -> [pc : {"idle", "busy", "hijacked", "saving"},
                            at : Servers \cup {NoServer}]]
    /\ bg \in [Tasks -> TaskLocals]

\* A task lives while the process serves; at work it has something left to do.
TasksInv == \A t \in Tasks : /\ bg[t].pc # "off" => main.pc \in {"serve", "stopping"}
                             /\ bg[t].pc = "run" => bg[t].jobs # <<>>

\* What the start has not opened yet it still has on its list.
OpenInv ==
    /\ main.pc \in {"serve", "stopping"} => \A s \in Servers : server[s] = "open"
    /\ main.pc = "start" =>
           \A c \in Components : \/ \E i \in DOMAIN main.left : main.left[i] = c
                                 \/ \A s \in Of(c) : server[s] = "open"

\* What the shutdown has not shut down yet it still has on one of its lists.
StopInv ==
    /\ main.pc \in {"stop", "closed"} =>
           \A s \in Servers : \/ server[s] \in {"drained", "abandoned"}
                              \/ \E i \in DOMAIN main.todo : main.todo[i] = s
                              \/ \E i \in DOMAIN main.left : s \in Of(main.left[i])
    /\ main.pc = "closed" => main.left = <<>> /\ main.todo = <<>>

\* A socket whose Shutdown has returned in time has no request left.
DrainInv == \A t \in Handlers :
                /\ op[t].pc # "idle" => op[t].at \in Servers
                /\ op[t].pc \in {"busy", "saving"} /\ op[t].at \in Waiting
                       => server[op[t].at] # "drained"

ProcessInv == ProcessOK /\ TasksInv /\ OpenInv /\ StopInv /\ DrainInv

-----------------------------------------------------------------------------
(* Lemmas about the operators.                                             *)
\* A configuration overridden by some settings is one again.
LEMMA OverrideType ==
    ASSUME NEW c \in [Keys -> Values], NEW ks, NEW o \in PartialOf(ks)
    PROVE  Override(c, o) \in [Keys -> Values]
<1> PICK K \in SUBSET ks : o \in [K -> Values]
    BY DEF PartialOf
<1> QED BY DEF Override

\* What is left to save after one key was saved.
LEMMA WithoutType ==
    ASSUME NEW o \in PartialOf(Keys), NEW k
    PROVE  Without(o, k) \in PartialOf(Keys)
<1> PICK K \in SUBSET Keys : o \in [K -> Values]
    BY DEF PartialOf
<1>1. Without(o, k) \in [K \ {k} -> Values]
    BY DEF Without
<1>2. K \ {k} \in SUBSET Keys
    OBVIOUS
<1> QED BY <1>1, <1>2 DEF PartialOf

\* Any settings may be left to save, all of them and none.
LEMMA PartialTypes == /\ [Keys -> Values] \subseteq PartialOf(Keys)
                      /\ Nothing \in PartialOf(Keys)
<1>1. Nothing \in [{} -> Values]
    BY SettingsAssumption DEF Nothing
<1>2. {} \in SUBSET Keys /\ Keys \in SUBSET Keys
    OBVIOUS
<1> QED BY <1>1, <1>2 DEF PartialOf

\* What is loaded, whichever rows were seen.
LEMMA LoadType ==
    ASSUME SettingsOK, NEW seen \in Reads
    PROVE  Load(seen) \in [Keys -> Values]
<1>1. seen \in SUBSET Keys
    BY SettingsAssumption DEF Reads
<1>2. [k \in seen |-> settings[k]] \in [seen -> Values]
    BY <1>1 DEF SettingsOK
<1>3. [k \in seen |-> settings[k]] \in PartialOf(Keys)
    BY <1>1, <1>2 DEF PartialOf
<1> QED BY <1>3, OverrideType, SettingsAssumption DEF Load

\* An installation passes on options with the values they were given.
LEMMA ServiceArgsType ==
    ASSUME NEW o \in PartialOf(Options)
    PROVE  ServiceArgs(o) \in PartialOf(Options)
<1> PICK K \in SUBSET Options : o \in [K -> Values]
    BY DEF PartialOf
<1> DEFINE S == {k \in DOMAIN o : k = Listen \/ o[k] # Default[k]}
<1>1. ServiceArgs(o) \in [S -> Values] /\ S \in SUBSET Options
    BY DEF ServiceArgs
<1> QED BY <1>1 DEF PartialOf

\* So do commands, which are what a start is told.
LEMMA ArgsType ==
    ASSUME NEW cmd \in Commands
    PROVE  /\ cmd.asked \in PartialOf(Options) /\ DOMAIN cmd.asked \subseteq Options
           /\ Args(cmd) \in PartialOf(Options)
           /\ DOMAIN Args(cmd) \subseteq DOMAIN cmd.asked
           /\ \A k \in DOMAIN Args(cmd) : Args(cmd)[k] = cmd.asked[k]
<1>1. cmd.asked \in PartialOf(Options)
    BY LifecycleAssumption DEF Commands
<1>2. DOMAIN cmd.asked \subseteq Options
    BY <1>1 DEF PartialOf
<1>3. Args(cmd) \in PartialOf(Options)
    BY <1>1, ServiceArgsType DEF Args
<1> QED BY <1>1, <1>2, <1>3 DEF Args, ServiceArgs

LEMMA NoCommandType == NoCommand \in Commands
BY LifecycleAssumption DEF NoCommand, Commands

\* Every element but the first is in the tail.
LEMMA InTail ==
    ASSUME NEW S, NEW q \in Seq(S), q # <<>>, NEW i \in DOMAIN q
    PROVE  /\ Head(q) \in S /\ Tail(q) \in Seq(S)
           /\ q[i] = Head(q) \/ \E j \in DOMAIN Tail(q) : Tail(q)[j] = q[i]
<1>1. Tail(q) \in Seq(S) /\ Head(q) = q[1] /\ Len(q) \in Nat \ {0}
    BY EmptySeq, HeadTailProperties
<1>2. CASE i = 1
    BY <1>1, <1>2
<1>3. CASE i # 1
    <2>1. i - 1 \in DOMAIN Tail(q) /\ Tail(q)[i - 1] = q[i]
        BY <1>1, <1>3
    <2> QED BY <1>1, <2>1
<1> QED BY <1>2, <1>3

-----------------------------------------------------------------------------
(* The settings.                                                           *)
LEMMA SettingsTypeInit == Init => SettingsOK
BY SettingsAssumption, PartialTypes DEF Init, SettingsInit, SettingsOK

\* Writing a key, or giving up.
LEMMA SaveType ==
    ASSUME SettingsOK, NEW w \in Writers, SaveKey(w) \/ SaveFails(w)
    PROVE  SettingsOK'
<1>1. CASE SaveKey(w)
    <2>1. PICK k \in DOMAIN saving[w] :
              /\ settings' = [settings EXCEPT ![k] = saving[w][k]]
              /\ saving' = [saving EXCEPT ![w] = Without(saving[w], k)]
              /\ UNCHANGED <<config, inUse>>
        BY <1>1 DEF SaveKey
    <2>2. saving[w] \in PartialOf(Keys)
        BY DEF SettingsOK
    <2>3. PICK K \in SUBSET Keys : saving[w] \in [K -> Values]
        BY <2>2 DEF PartialOf
    <2>4. k \in Keys /\ saving[w][k] \in Values
        BY <2>3
    <2>5. settings' \in [Keys -> Values]
        BY <2>1, <2>4 DEF SettingsOK
    <2>6. saving' \in [Writers -> PartialOf(Keys)]
        BY <2>1, <2>2, WithoutType DEF SettingsOK
    <2> QED BY <2>1, <2>5, <2>6 DEF SettingsOK
<1>2. CASE SaveFails(w)
    BY <1>2, PartialTypes DEF SaveFails, SettingsOK
<1> QED BY <1>1, <1>2

\* Every step keeps the settings typed.
LEMMA SettingsTypeNext ==
    ASSUME SettingsOK, [Next]_vars
    PROVE  SettingsOK'
<1>1. ASSUME NEW seen \in Reads, Start(seen) PROVE SettingsOK'
    <2>1. LoadSettings(seen, Args(options'))
        BY <1>1 DEF Start
    <2>2. Args(options') \in PartialOf(Options)
        BY <1>1, ArgsType DEF Start
    <2>3. config' \in [Keys -> Values]
        BY <2>1, <2>2, LoadType, OverrideType DEF LoadSettings
    <2>4. saving' \in [Writers -> PartialOf(Keys)]
        BY <2>1, <2>3, PartialTypes DEF LoadSettings, SettingsOK
    <2> QED BY <2>1, <2>3, <2>4 DEF LoadSettings, SettingsOK
<1>2. ASSUME NEW t \in Handlers, NEW body \in Bodies, EditSettings(t, body)
      PROVE  SettingsOK'
    <2>1. [k \in Keys |-> Zero] \in [Keys -> Values]
        BY SettingsAssumption
    <2>2. body \in PartialOf(Keys)
        BY SettingsAssumption
    <2>3. Override([k \in Keys |-> Zero], body) \in PartialOf(Keys)
        BY <2>1, <2>2, OverrideType, PartialTypes
    <2> QED BY <1>2, <2>3 DEF EditSettings, PutSettings, SettingsOK
<1>3. ASSUME NEW t \in Handlers, NEW value \in Values, EditUpstream(t, value)
      PROVE  SettingsOK'
    <2>1. /\ [k \in {Fallback} |-> value] \in [{Fallback} -> Values]
          /\ {Fallback} \in SUBSET Keys
        BY SettingsAssumption
    <2>2. [k \in {Fallback} |-> value] \in PartialOf(Keys)
        BY <2>1 DEF PartialOf
    <2> QED BY <1>3, <2>2, SettingsAssumption DEF EditUpstream, PutUpstream, SettingsOK
<1>4. CASE SaveAtStart
    BY <1>4, SaveType DEF SaveAtStart, Writers
<1>5. CASE BuildComponents
    BY <1>5, SettingsAssumption DEF BuildComponents, Build, Used, SettingsOK
<1>6. ASSUME NEW t \in Handlers, SaveEdit(t) PROVE SettingsOK'
    BY <1>6, SaveType DEF SaveEdit, Writers
<1>7. CASE End
    BY <1>7, SettingsAssumption, PartialTypes DEF End, Forget, SettingsOK
<1>8. CASE UNCHANGED settingsVars
    BY <1>8 DEF settingsVars, SettingsOK
<1>9. CASE UNCHANGED vars
    BY <1>8, <1>9 DEF vars
<1>10. ASSUME NEW t \in Handlers, Request(t) PROVE SettingsOK'
    BY <1>6, <1>8, <1>10 DEF Request, Accept, Hijack, EndHijacked, Respond
<1>11. ASSUME NEW t \in Tasks, Task(t) PROVE SettingsOK'
    BY <1>8, <1>11 DEF Task, Tick, RunJob, EndTask
<1>12. CASE Starting
    BY <1>4, <1>5, <1>8, <1>12 DEF Starting, StartComponent, Serve
<1>13. CASE Stopping
    BY <1>7, <1>8, <1>13 DEF Stopping, WaitForTasks, StopComponent, Shutdown,
                             ShutdownReturns, CloseDb, Exit
<1>14. CASE Others
    BY <1>7, <1>8, <1>10, <1>11, <1>12, <1>13, <1>14 DEF Others, Signal, Expire, Crash
<1> QED BY <1>1, <1>2, <1>3, <1>9, <1>14 DEF Next

-----------------------------------------------------------------------------
(* The process.                                                            *)
\* What the constants say of the lists the process works through.
LEMMA ListTypes ==
    /\ StartOrder \in Seq(Components) /\ StopOrder \in Seq(Components)
    /\ \A c \in Components : /\ \E i \in DOMAIN StartOrder : StartOrder[i] = c
                             /\ \E i \in DOMAIN StopOrder : StopOrder[i] = c
    /\ \A t \in Tasks : Jobs(t) \in Seq(Servers \cup {"cleanup", "renew"}) \ {<<>>}
    /\ \A c \in Components : ServersOf[c] \in Seq(Servers)
    /\ Down \in MainLocals /\ Off \in TaskLocals /\ Wait \in TaskLocals
<1>1. StartOrder \in Seq(Components) /\ StopOrder \in Seq(Components)
    BY DEF StartOrder, StopOrder, Components
<1>2. \A c \in Components : /\ \E i \in DOMAIN StartOrder : StartOrder[i] = c
                            /\ \E i \in DOMAIN StopOrder : StopOrder[i] = c
    <2>1. DOMAIN StartOrder = 1..4 /\ DOMAIN StopOrder = 1..4
        BY DEF StartOrder, StopOrder
    <2>2. /\ StartOrder[1] = "dns" /\ StartOrder[2] = "reverse"
          /\ StartOrder[3] = "forward" /\ StartOrder[4] = "api"
          /\ StopOrder[1] = "api" /\ StopOrder[2] = "forward"
          /\ StopOrder[3] = "reverse" /\ StopOrder[4] = "dns"
        BY DEF StartOrder, StopOrder
    <2> QED BY <2>1, <2>2 DEF Components
<1>3. \A t \in Tasks : Jobs(t) \in Seq(Servers \cup {"cleanup", "renew"}) \ {<<>>}
    <2>1. Checks \in Seq(Servers \cup {"cleanup", "renew"}) \ {<<>>}
        BY LifecycleAssumption
    <2> QED BY <2>1 DEF Jobs
<1>4. \A c \in Components : ServersOf[c] \in Seq(Servers)
    BY LifecycleAssumption
<1>5. Down \in MainLocals /\ Off \in TaskLocals /\ Wait \in TaskLocals
    BY DEF Down, Off, Wait, MainLocals, TaskLocals
<1> QED BY <1>1, <1>2, <1>3, <1>4, <1>5

\* Before the start there is nothing to be wrong.
LEMMA FreshProcess ==
    /\ main = Down /\ options = NoCommand
    /\ server = [s \in Servers |-> "closed"]
    /\ op = [t \in Handlers |-> Idle]
    /\ bg = [t \in Tasks |-> Off]
    => ProcessInv
BY ListTypes, NoCommandType, LifecycleAssumption
   DEF ProcessInv, ProcessOK, TasksInv, OpenInv, StopInv, DrainInv, Down, Idle, Off

\* The start.
LEMMA StartSteps ==
    ASSUME ProcessInv,
           (\E seen \in Reads : Start(seen)) \/ Starting
    PROVE  ProcessInv'
<1> USE DEF ProcessInv, ProcessOK, MainLocals
<1>1. ASSUME NEW seen \in Reads, Start(seen) PROVE ProcessInv'
    <2>1. main' \in MainLocals /\ main'.pc = "save" /\ main.pc = "down"
        BY <1>1, ListTypes DEF Start, Down
    <2>2. options' \in Commands /\ UNCHANGED <<server, op, bg>>
        BY <1>1 DEF Start
    <2> QED BY <2>1, <2>2 DEF TasksInv, OpenInv, StopInv, DrainInv
<1>2. CASE SaveAtStart
    BY <1>2 DEF SaveAtStart, processVars, TasksInv, OpenInv, StopInv, DrainInv
<1>3. CASE BuildComponents
    <2>1. NoCommand \in Commands
        BY NoCommandType
    <2>2. OpenInv'
        BY <1>3, ListTypes DEF BuildComponents, OpenInv
    <2> QED BY <1>3, <2>1, <2>2, ListTypes
            DEF BuildComponents, TasksInv, StopInv, DrainInv
<1>4. CASE StartComponent
    <2> DEFINE c == Head(main.left)
    <2>1. c \in Components /\ Tail(main.left) \in Seq(Components)
        BY <1>4, InTail, EmptySeq, HeadTailProperties DEF StartComponent
    <2>2. ProcessOK'
        BY <1>4, <2>1 DEF StartComponent
    <2>3. OpenInv'
        <3> SUFFICES ASSUME NEW d \in Components
                     PROVE  \/ \E i \in DOMAIN main'.left : main'.left[i] = d
                            \/ \A s \in Of(d) : server'[s] = "open"
            BY <1>4 DEF StartComponent, OpenInv
        <3>1. \A s \in Of(d) : s \in Servers
            BY LifecycleAssumption
        <3>2. main'.left = Tail(main.left)
            BY <1>4 DEF StartComponent
        <3>3. CASE d = c
            BY <1>4, <3>1, <3>3 DEF StartComponent
        <3>4. CASE \A s \in Of(d) : server[s] = "open"
            BY <1>4, <3>1, <3>4 DEF StartComponent
        <3>5. CASE \E i \in DOMAIN main.left : main.left[i] = d /\ d # c
            BY <1>4, <3>2, <3>5, InTail DEF StartComponent
        <3> QED BY <1>4, <3>3, <3>4, <3>5 DEF StartComponent, OpenInv
    <2>4. DrainInv'
        BY <1>4 DEF StartComponent, DrainInv
    <2> QED BY <1>4, <2>2, <2>3, <2>4 DEF StartComponent, TasksInv, StopInv
<1>5. CASE Serve
    <2>1. \A s \in Servers : server[s] = "open"
        <3>1. \A c \in Components : \A s \in Of(c) : server[s] = "open"
            BY <1>5 DEF Serve, OpenInv
        <3> QED BY <3>1, LifecycleAssumption
    <2> QED BY <1>5, <2>1, ListTypes DEF Serve, TasksInv, OpenInv, StopInv, DrainInv, Wait
<1> QED BY <1>1, <1>2, <1>3, <1>4, <1>5 DEF Starting

\* The background tasks.
LEMMA TaskSteps ==
    ASSUME ProcessInv, NEW t \in Tasks, Task(t)
    PROVE  ProcessInv'
<1> USE DEF ProcessInv, ProcessOK
<1>1. UNCHANGED <<options, main, server, op>>
    BY DEF Task, Tick, RunJob, EndTask
<1>2. PICK locals \in TaskLocals :
          /\ bg' = [bg EXCEPT ![t] = locals]
          /\ locals.pc # "off" => bg[t].pc # "off"
          /\ locals.pc = "run" => locals.jobs # <<>>
    <2>1. CASE Tick(t)
        <3>1. [pc |-> "run", jobs |-> Jobs(t)] \in TaskLocals
            BY ListTypes DEF TaskLocals
        <3> QED BY <2>1, <3>1, ListTypes DEF Tick
    <2>2. CASE RunJob(t)
        <3>1. bg[t].jobs # <<>> /\ bg[t].jobs \in Seq(Servers \cup {"cleanup", "renew"})
            BY <2>2 DEF RunJob, TasksInv, TaskLocals
        <3>2. Tail(bg[t].jobs) \in Seq(Servers \cup {"cleanup", "renew"})
            BY <3>1, EmptySeq, HeadTailProperties
        <3>3. CASE Tail(bg[t].jobs) = <<>>
            BY <2>2, <3>3, ListTypes DEF RunJob, Wait
        <3>4. CASE Tail(bg[t].jobs) # <<>>
            <4> DEFINE locals == [bg[t] EXCEPT !.jobs = Tail(bg[t].jobs)]
            <4>1. bg[t] \in TaskLocals /\ bg[t].pc = "run"
                BY <2>2 DEF RunJob
            <4>2. locals \in TaskLocals
                BY <3>2, <4>1 DEF TaskLocals
            <4>3. locals.pc = "run" /\ locals.jobs = Tail(bg[t].jobs)
                BY <4>1 DEF TaskLocals
            <4>4. bg' = [bg EXCEPT ![t] = locals]
                BY <2>2, <3>4 DEF RunJob
            <4> QED BY <3>4, <4>1, <4>2, <4>3, <4>4
        <3> QED BY <3>3, <3>4
    <2>3. CASE EndTask(t)
        BY <2>3, ListTypes DEF EndTask, Off
    <2> QED BY <2>1, <2>2, <2>3 DEF Task
<1>3. TasksInv'
    BY <1>1, <1>2 DEF TasksInv
<1> QED BY <1>1, <1>2, <1>3 DEF OpenInv, StopInv, DrainInv

\* Requests.
LEMMA RequestSteps ==
    ASSUME ProcessInv, NEW t \in Handlers,
           \/ Request(t)
           \/ \E body \in Bodies : EditSettings(t, body)
           \/ \E value \in Values : EditUpstream(t, value)
    PROVE  ProcessInv'
<1> USE DEF ProcessInv, ProcessOK
<1>1. UNCHANGED <<options, main, server, bg>>
    BY DEF Request, Accept, Hijack, EndHijacked, EditSettings, EditUpstream, Edits,
           SaveEdit, Respond, processVars
<1>2. op' \in [Handlers -> [pc : {"idle", "busy", "hijacked", "saving"},
                            at : Servers \cup {NoServer}]] /\ DrainInv'
    <2>1. CASE Accept(t)
        <3>1. PICK s \in Asked[t] : /\ server[s] \in {"open", "draining", "abandoned"}
                                    /\ op' = [op EXCEPT ![t] = [pc |-> "busy", at |-> s]]
            BY <2>1 DEF Accept
        <3>2. s \in Servers
            BY <3>1, LifecycleAssumption
        <3> QED BY <1>1, <3>1, <3>2 DEF DrainInv
    <2>2. CASE Hijack(t)
        BY <1>1, <2>2 DEF Hijack, DrainInv
    <2>3. CASE EndHijacked(t) \/ Respond(t)
        BY <1>1, <2>3 DEF EndHijacked, Respond, Idle, DrainInv
    <2>4. CASE Edits(t)
        BY <1>1, <2>4 DEF Edits, DrainInv
    <2>5. CASE SaveEdit(t)
        BY <1>1, <2>5 DEF SaveEdit, processVars, DrainInv
    <2> QED BY <2>1, <2>2, <2>3, <2>4, <2>5 DEF Request, EditSettings, EditUpstream
<1> QED BY <1>1, <1>2 DEF TasksInv, OpenInv, StopInv

\* The shutdown.
LEMMA StopSteps ==
    ASSUME ProcessInv, Signal \/ Stopping \/ Expire \/ Crash
    PROVE  ProcessInv'
<1> USE DEF ProcessInv, ProcessOK, MainLocals
<1>1. CASE Signal
    BY <1>1 DEF Signal, TasksInv, OpenInv, StopInv, DrainInv
<1>2. CASE WaitForTasks
    <2>1. \A t \in Tasks : bg[t].pc = "off"
        BY <1>2 DEF WaitForTasks, Off
    <2>2. \A s \in Servers : \E c \in Components : s \in Of(c)
        BY LifecycleAssumption
    <2>3. StopInv'
        BY <1>2, <2>2, ListTypes DEF WaitForTasks, StopInv
    <2> QED BY <1>2, <2>1, <2>3, ListTypes DEF WaitForTasks, TasksInv, OpenInv, DrainInv
<1>3. CASE StopComponent
    <2> DEFINE c == Head(main.left)
    <2>1. /\ c \in Components /\ Tail(main.left) \in Seq(Components)
          /\ ServersOf[c] \in Seq(Servers)
        BY <1>3, EmptySeq, HeadTailProperties, ListTypes DEF StopComponent
    <2>2. /\ main' \in MainLocals /\ main'.pc = "stop"
          /\ main'.left = Tail(main.left) /\ main'.todo = ServersOf[c]
        BY <1>3, <2>1 DEF StopComponent
    <2>3. StopInv'
        <3> SUFFICES ASSUME NEW s \in Servers, server[s] \notin {"drained", "abandoned"}
                     PROVE  \/ \E i \in DOMAIN main'.todo : main'.todo[i] = s
                            \/ \E i \in DOMAIN main'.left : s \in Of(main'.left[i])
            BY <1>3, <2>2 DEF StopComponent, StopInv
        <3>1. PICK i \in DOMAIN main.left : s \in Of(main.left[i])
            BY <1>3 DEF StopComponent, StopInv
        <3>2. CASE main.left[i] = c
            BY <2>2, <3>1, <3>2 DEF Of
        <3>3. CASE main.left[i] # c
            BY <1>3, <2>2, <3>1, <3>3, InTail DEF StopComponent
        <3> QED BY <3>2, <3>3
    <2> QED BY <1>3, <2>2, <2>3 DEF StopComponent, TasksInv, OpenInv, DrainInv
<1>4. CASE Shutdown
    <2>1. Head(main.todo) \in Servers
        BY <1>4, EmptySeq, HeadTailProperties DEF Shutdown
    <2> QED BY <1>4, <2>1 DEF Shutdown, TasksInv, OpenInv, StopInv, DrainInv
<1>5. CASE ShutdownReturns
    <2> DEFINE s == Head(main.todo)
    <2>1. s \in Servers /\ Tail(main.todo) \in Seq(Servers)
        BY <1>5, EmptySeq, HeadTailProperties DEF ShutdownReturns
    <2>2. /\ main' \in MainLocals /\ main'.pc = "stop"
          /\ main'.left = main.left /\ main'.todo = Tail(main.todo)
        BY <1>5, <2>1 DEF ShutdownReturns
    <2>3. PICK end \in {"drained", "abandoned"} :
              /\ server' = [server EXCEPT ![s] = end]
              /\ end = "drained" /\ s \in Waiting => Active(s) = {}
        BY <1>5 DEF ShutdownReturns
    <2>4. StopInv'
        <3> SUFFICES ASSUME NEW r \in Servers, server'[r] \notin {"drained", "abandoned"}
                     PROVE  \/ \E i \in DOMAIN main'.todo : main'.todo[i] = r
                            \/ \E i \in DOMAIN main'.left : r \in Of(main'.left[i])
            BY <2>2 DEF StopInv
        <3>1. r # s /\ server[r] = server'[r]
            BY <2>1, <2>3
        <3>2. CASE \E i \in DOMAIN main.todo : main.todo[i] = r
            <4>1. main.todo \in Seq(Servers) /\ main.todo # <<>>
                BY <1>5 DEF ShutdownReturns
            <4> QED BY <2>2, <3>1, <3>2, <4>1, InTail
        <3>3. CASE \E i \in DOMAIN main.left : r \in Of(main.left[i])
            BY <2>2, <3>3
        <3> QED BY <1>5, <3>1, <3>2, <3>3 DEF ShutdownReturns, StopInv
    <2>5. DrainInv'
        BY <1>5, <2>1, <2>3 DEF ShutdownReturns, DrainInv, Active
    <2> QED BY <1>5, <2>1, <2>2, <2>3, <2>4, <2>5 DEF ShutdownReturns, TasksInv, OpenInv
<1>6. CASE CloseDb
    BY <1>6 DEF CloseDb, TasksInv, OpenInv, StopInv, DrainInv
<1>7. CASE End
    BY <1>7, ListTypes, NoCommandType, LifecycleAssumption
       DEF End, TasksInv, OpenInv, StopInv, DrainInv, Down, Idle, Off
<1>8. CASE Expire
    BY <1>8 DEF Expire, TasksInv, OpenInv, StopInv, DrainInv
<1> QED BY <1>1, <1>2, <1>3, <1>4, <1>5, <1>6, <1>7, <1>8 DEF Stopping, Exit, Crash

\* What is known of the process stays known.
LEMMA ProcessInvNext == ProcessInv /\ [Next]_vars => ProcessInv'
<1> SUFFICES ASSUME ProcessInv, [Next]_vars PROVE ProcessInv'
    OBVIOUS
<1>1. CASE UNCHANGED vars
    BY <1>1 DEF vars, processVars, ProcessInv, ProcessOK, TasksInv, OpenInv, StopInv, DrainInv
<1> QED BY <1>1, StartSteps, TaskSteps, RequestSteps, StopSteps DEF Next, Others

-----------------------------------------------------------------------------
(* The theorems about the process.                                         *)
LifeInv == SettingsOK /\ ProcessInv

\* The inductive invariant of the process and its settings.
LEMMA LifeInvariance == Spec => []LifeInv
<1>1. Init => LifeInv
    BY SettingsTypeInit, FreshProcess DEF Init, LifeInv
<1>2. LifeInv /\ [Next]_vars => LifeInv'
    BY SettingsTypeNext, ProcessInvNext DEF LifeInv, ProcessInv, ProcessOK
<1> QED BY <1>1, <1>2, PTL DEF Spec

\* Type correctness: every reachable state of the process is well typed, for any
\* sockets, settings and requests (main.go, config.go).
THEOREM TypeCorrect == Spec => []TypeOK
<1>1. LifeInv => TypeOK
    BY DEF LifeInv, SettingsOK, ProcessInv, ProcessOK, TypeOK
<1> QED BY <1>1, LifeInvariance, PTL

\* The shutdown waits for the background tasks before it stops anything they
\* use (main.go 281-298).
THEOREM TasksUndisturbed == Spec => []BackgroundUndisturbed
<1>1. LifeInv => BackgroundUndisturbed
    BY DEF LifeInv, ProcessInv, TasksInv, OpenInv, BackgroundUndisturbed, DbOpen
<1> QED BY <1>1, LifeInvariance, PTL

\* No request that was answered in time loses the database (main.go 85 and
\* 285-295, the Stop of every component).
THEOREM EditsAreFinished == Spec => []EditsFinish
<1>1. LifeInv => EditsFinish
    <2> SUFFICES ASSUME LifeInv, main.pc = "closed", NEW t \in Handlers,
                        op[t].pc \in {"busy", "saving"}, op[t].at \in Waiting
                 PROVE  server[op[t].at] = "abandoned"
        BY DEF EditsFinish
    <2>1. op[t].at \in Servers /\ server[op[t].at] # "drained"
        BY DEF LifeInv, ProcessInv, DrainInv
    <2>2. server[op[t].at] \in {"drained", "abandoned"}
        BY <2>1 DEF LifeInv, ProcessInv, StopInv
    <2> QED BY <2>1, <2>2
<1> QED BY <1>1, LifeInvariance, PTL

-----------------------------------------------------------------------------
(* The configuration in use.                                               *)
\* The configuration, what is in use and the progress of the start stay alone.
ConfigSame == /\ UNCHANGED <<config, inUse, options>>
              /\ Built' <=> Built
              /\ main'.pc = "save" <=> main.pc = "save"

\* What a step may do to them.
LEMMA ConfigSteps ==
    ASSUME ProcessOK, [Next]_vars
    PROVE  \/ ConfigSame
           \/ \E seen \in Reads : Start(seen)
           \/ BuildComponents
           \/ \E t \in Handlers, value \in Values : EditUpstream(t, value)
           \/ main'.pc = "down"
<1> USE DEF ProcessOK, MainLocals
<1>1. CASE UNCHANGED vars
    BY <1>1 DEF vars, settingsVars, processVars, Built, ConfigSame
<1>2. ASSUME NEW t \in Handlers, NEW body \in Bodies, EditSettings(t, body)
      PROVE  ConfigSame
    BY <1>2 DEF EditSettings, Edits, PutSettings, Built, ConfigSame
<1>3. ASSUME NEW t \in Handlers, Request(t) PROVE ConfigSame
    BY <1>3 DEF Request, Accept, Hijack, EndHijacked, SaveEdit, SaveKey, SaveFails,
                Respond, settingsVars, processVars, Built, ConfigSame
<1>4. ASSUME NEW t \in Tasks, Task(t) PROVE ConfigSame
    BY <1>4 DEF Task, Tick, RunJob, EndTask, settingsVars, Built, ConfigSame
<1>5. CASE SaveAtStart
    BY <1>5 DEF SaveAtStart, SaveKey, SaveFails, processVars, Built, ConfigSame
<1>6. CASE Crash \/ Exit
    BY <1>6 DEF Crash, Exit, End, Down
<1>7. CASE StartComponent \/ Serve \/ Signal
    BY <1>7 DEF StartComponent, Serve, Signal, settingsVars, Built, ConfigSame
<1>8. CASE WaitForTasks \/ StopComponent \/ Shutdown \/ CloseDb \/ Expire
    BY <1>8 DEF WaitForTasks, StopComponent, Shutdown, CloseDb, Expire, settingsVars,
                Built, ConfigSame
<1>9. CASE ShutdownReturns
    BY <1>9 DEF ShutdownReturns, settingsVars, Built, ConfigSame
<1> QED BY <1>1, <1>2, <1>3, <1>4, <1>5, <1>6, <1>7, <1>8, <1>9
        DEF Next, Others, Starting, Stopping

\* GET /settings/running (server.go 816-822) tells the truth about every setting
\* but the fallback servers, through any number of edits; an empty list of listen
\* addresses, which it shows as such, is 0.0.0.0 to the components (main.go 138-141).
THEOREM RunningIsShown == Spec => []RunningIsInUse
<1>1. Init => RunningIsInUse
    BY DEF Init, Down, RunningIsInUse, Built
<1>2. LifeInv /\ RunningIsInUse /\ [Next]_vars => RunningIsInUse'
    <2> SUFFICES ASSUME LifeInv, RunningIsInUse, [Next]_vars, Built',
                        NEW k \in Keys \ {Fallback}
                 PROVE  \/ config'[k] = inUse'[k]
                        \/ k = Listen /\ config'[k] = Zero /\ inUse'[k] = Default[k]
        BY DEF RunningIsInUse
    <2> USE DEF LifeInv, SettingsOK, ProcessInv
    <2>1. CASE ConfigSame
        BY <2>1 DEF ConfigSame, RunningIsInUse
    <2>2. CASE BuildComponents
        BY <2>2 DEF BuildComponents, Build, Used
    <2>3. CASE \E t \in Handlers, value \in Values : EditUpstream(t, value)
        BY <2>3 DEF EditUpstream, Edits, PutUpstream, RunningIsInUse, Built
    <2>4. CASE (\E seen \in Reads : Start(seen)) \/ main'.pc = "down"
        BY <2>4 DEF Start, Down, Built
    <2> QED BY <2>1, <2>2, <2>3, <2>4, ConfigSteps
<1> QED BY <1>1, <1>2, LifeInvariance, PTL DEF Spec

\* From loading to building, the configuration says what the operator asked for.
OptionsRead ==
    main.pc = "save" => \A k \in DOMAIN options.asked :
                            ~Dropped(k) => config[k] = options.asked[k]

\* Options of the command line and of an installation win over what was saved
\* (main.go 87-99, 300-324 and 338-357), those that say the default included; only
\* an installation drops these (main.go 307-321).
THEOREM OptionsAreUsed == Spec => OptionsWin
<1>1. Init => OptionsRead
    BY DEF Init, Down, OptionsRead
<1>2. LifeInv /\ OptionsRead /\ [Next]_vars => OptionsRead'
    <2> SUFFICES ASSUME LifeInv, OptionsRead, [Next]_vars, main'.pc = "save"
                 PROVE  OptionsRead'
        BY DEF OptionsRead
    <2> USE DEF LifeInv, ProcessInv
    <2>1. ASSUME NEW seen \in Reads, Start(seen) PROVE OptionsRead'
        <3>1. options' \in Commands /\ config' = Override(Load(seen), Args(options'))
            BY <2>1 DEF Start, LoadSettings
        <3> SUFFICES ASSUME NEW k \in DOMAIN options'.asked, ~Dropped(k)'
                     PROVE  config'[k] = options'.asked[k]
            BY DEF OptionsRead
        <3>2. k \in Keys
            BY <3>1, ArgsType, SettingsAssumption
        <3>3. k \in DOMAIN Args(options') /\ Args(options')[k] = options'.asked[k]
            BY DEF Args, ServiceArgs, Dropped
        <3> QED BY <3>1, <3>2, <3>3 DEF Override
    <2>2. CASE ConfigSame
        BY <2>2 DEF ConfigSame, OptionsRead, Dropped
    <2>3. CASE BuildComponents
        BY <2>3 DEF BuildComponents, ProcessOK, MainLocals
    <2>4. CASE \E t \in Handlers, value \in Values : EditUpstream(t, value)
        <3>1. main.pc = "save" /\ UNCHANGED <<main, options>>
            BY <2>4 DEF EditUpstream, Edits
        <3>2. DOMAIN options.asked \subseteq Keys \ {Fallback}
            BY ArgsType, SettingsAssumption DEF ProcessOK
        <3>3. \A k \in DOMAIN options.asked : config'[k] = config[k]
            BY <2>4, <3>2 DEF EditUpstream, PutUpstream, SettingsOK
        <3> QED BY <3>1, <3>3 DEF OptionsRead, Dropped
    <2> QED BY <2>1, <2>2, <2>3, <2>4, ConfigSteps
<1>3. LifeInv /\ OptionsRead /\ [Next]_vars
          => (~Built /\ Built' => \A k \in DOMAIN options.asked :
                 ~Dropped(k) => inUse'[k] = options.asked[k])
    <2> SUFFICES ASSUME LifeInv, OptionsRead, [Next]_vars, ~Built, Built',
                        NEW k \in DOMAIN options.asked, ~Dropped(k)
                 PROVE  inUse'[k] = options.asked[k]
        OBVIOUS
    <2> USE DEF LifeInv, ProcessInv
    <2>1. CASE BuildComponents
        <3>1. config[k] = options.asked[k] /\ inUse' = Used(config)
            BY <2>1 DEF BuildComponents, Build, OptionsRead
        <3>2. k \in Keys /\ options.asked \in Given
            BY ArgsType, SettingsAssumption DEF ProcessOK, Commands
        <3>3. k = Listen => config[k] # Zero
            BY <3>1, <3>2, LifecycleAssumption
        <3> QED BY <3>1, <3>2, <3>3 DEF Used, SettingsOK
    <2>2. CASE ConfigSame
        BY <2>2 DEF ConfigSame
    <2>3. CASE \E seen \in Reads : Start(seen)
        BY <2>3 DEF Start, Down, Built
    <2>4. CASE \E t \in Handlers, value \in Values : EditUpstream(t, value)
        BY <2>4 DEF EditUpstream, Edits, Built
    <2>5. CASE main'.pc = "down"
        BY <2>5 DEF Built
    <2> QED BY <2>1, <2>2, <2>3, <2>4, <2>5, ConfigSteps
<1> QED BY <1>1, <1>2, <1>3, LifeInvariance, PTL DEF Spec, OptionsWin

-----------------------------------------------------------------------------
(* The settings the operator wants.                                        *)
\* Who may be saving.
SavingInv == /\ main.pc # "save" => ~Saving(Main)
             /\ \A t \in Handlers : op[t].pc # "saving" => ~Saving(t)
             /\ main.pc = "down" => \A t \in Handlers : op[t] = Idle
             /\ main.pc \in {"down", "save"} => \A s \in Servers : server[s] = "closed"

\* At most one goroutine is saving, all it has left is wanted, and the rows of
\* the other keys are as wanted already.
KeptInv ==
    /\ wanted \in [Keys -> Values] \cup {Torn}
    /\ wanted # Torn =>
           /\ \A u, w \in Writers : Saving(u) /\ Saving(w) => u = w
           /\ \A w \in Writers : \A k \in DOMAIN saving[w] : saving[w][k] = wanted[k]
           /\ \A k \in Keys : \/ settings[k] = wanted[k]
                              \/ \E w \in Writers : k \in DOMAIN saving[w]

\* Only goroutines at the right place are saving.
LEMMA SavingInvNext ==
    ASSUME LifeInv, SavingInv, [Next]_vars
    PROVE  SavingInv'
<1> USE DEF LifeInv, SettingsOK, ProcessInv, ProcessOK, MainLocals
<1>0. DOMAIN Nothing = {}
    BY DEF Nothing
<1>1. ASSUME NEW seen \in Reads, Start(seen) PROVE SavingInv'
    <2>1. main'.pc = "save" /\ UNCHANGED <<server, op>>
        BY <1>1 DEF Start, Down
    <2>2. \A t \in Handlers : saving'[t] = saving[t]
        BY <1>1, SettingsAssumption DEF Start, LoadSettings, Writers
    <2> QED BY <1>1, <2>1, <2>2 DEF Start, SavingInv, Saving
<1>2. ASSUME NEW t \in Handlers,
             \/ \E body \in Bodies : EditSettings(t, body)
             \/ \E value \in Values : EditUpstream(t, value)
      PROVE  SavingInv'
    <2>1. /\ op[t].pc = "busy" /\ op' = [op EXCEPT ![t].pc = "saving"]
          /\ UNCHANGED <<main, server>>
        BY <1>2 DEF EditSettings, EditUpstream, Edits
    <2>2. \A w \in Writers : w # t => saving'[w] = saving[w]
        BY <1>2 DEF EditSettings, EditUpstream, PutSettings, PutUpstream
    <2>3. main.pc # "down"
        BY <2>1 DEF SavingInv, Idle
    <2> QED BY <2>1, <2>2, <2>3, SettingsAssumption DEF SavingInv, Saving, Writers
<1>3. ASSUME NEW w \in Writers, SaveKey(w) \/ SaveFails(w), UNCHANGED processVars
      PROVE  SavingInv'
    <2>1. \A u \in Writers : u # w => saving'[u] = saving[u]
        BY <1>3 DEF SaveKey, SaveFails
    <2>2. Saving(w)
        BY <1>3 DEF SaveKey, SaveFails, Saving
    <2>3. UNCHANGED <<main, server, op>>
        BY <1>3 DEF processVars
    <2>4. \A u \in Writers : Saving(u)' => Saving(u)
        BY <2>1, <2>2 DEF Saving
    <2> QED BY <2>3, <2>4 DEF SavingInv, Writers
<1>4. ASSUME NEW t \in Handlers, Request(t) PROVE SavingInv'
    <2>1. CASE Accept(t)
        <3>1. PICK s \in Servers : server[s] \in {"open", "draining", "abandoned"}
            BY <2>1, LifecycleAssumption DEF Accept
        <3> QED BY <2>1, <3>1 DEF Accept, settingsVars, SavingInv, Saving, Idle
    <2>2. CASE Hijack(t) \/ EndHijacked(t) \/ Respond(t)
        <3>1. /\ ~Saving(t) /\ main.pc # "down"
              /\ UNCHANGED <<saving, main, server>>
            BY <2>2 DEF Hijack, EndHijacked, Respond, settingsVars, SavingInv, Idle
        <3>2. \A u \in Handlers : u # t => op'[u] = op[u]
            BY <2>2 DEF Hijack, EndHijacked, Respond
        <3> QED BY <3>1, <3>2 DEF SavingInv, Saving
    <2>3. CASE SaveEdit(t)
        BY <1>3, <2>3 DEF SaveEdit, Writers
    <2> QED BY <1>4, <2>1, <2>2, <2>3 DEF Request
<1>5. ASSUME UNCHANGED <<saving, main, server, op>> PROVE SavingInv'
    BY <1>5 DEF SavingInv, Saving
<1>6. ASSUME NEW t \in Tasks, Task(t) PROVE SavingInv'
    BY <1>5, <1>6 DEF Task, Tick, RunJob, EndTask, settingsVars
<1>7. CASE SaveAtStart
    BY <1>3, <1>7 DEF SaveAtStart, Writers
<1>8. CASE BuildComponents
    BY <1>8 DEF BuildComponents, Build, SavingInv, Saving
<1>9. ASSUME UNCHANGED <<saving, op>>, main.pc \notin {"down", "save"},
             main'.pc \notin {"down", "save"}
      PROVE  SavingInv'
    BY <1>9 DEF SavingInv, Saving
<1>10. CASE StartComponent \/ Serve \/ Signal
    BY <1>9, <1>10 DEF StartComponent, Serve, Signal, settingsVars
<1>11. CASE WaitForTasks \/ StopComponent \/ Shutdown \/ CloseDb \/ Expire
    BY <1>9, <1>11 DEF WaitForTasks, StopComponent, Shutdown, CloseDb, Expire, settingsVars
<1>12. CASE ShutdownReturns
    BY <1>9, <1>12 DEF ShutdownReturns, settingsVars
<1>13. CASE Crash \/ Exit
    BY <1>0, <1>13 DEF Crash, Exit, End, Forget, Down, SavingInv, Saving, Writers
<1>14. CASE UNCHANGED vars
    BY <1>5, <1>14 DEF vars, settingsVars, processVars
<1> QED BY <1>1, <1>2, <1>4, <1>6, <1>7, <1>8, <1>10, <1>11, <1>12, <1>13, <1>14
        DEF Next, Others, Starting, Stopping

\* What the other steps do to the rows and to what is being saved.
LEMMA OtherSteps ==
    ASSUME Others
    PROVE  \/ UNCHANGED <<settings, saving>>
           \/ \E w \in Writers : SaveKey(w) \/ SaveFails(w)
           \/ End
<1>1. CASE Starting
    BY <1>1 DEF Starting, SaveAtStart, BuildComponents, Build, StartComponent, Serve,
                settingsVars, Writers
<1>2. CASE Stopping \/ Signal \/ Expire
    BY <1>2 DEF Stopping, WaitForTasks, StopComponent, Shutdown, ShutdownReturns,
                CloseDb, Exit, Signal, Expire, settingsVars
<1>3. CASE Crash
    BY <1>3 DEF Crash
<1>4. ASSUME NEW t \in Tasks, Task(t) PROVE UNCHANGED <<settings, saving>>
    BY <1>4 DEF Task, Tick, RunJob, EndTask, settingsVars
<1>5. ASSUME NEW t \in Handlers, Request(t)
      PROVE  UNCHANGED <<settings, saving>> \/ SaveKey(t) \/ SaveFails(t)
    BY <1>5 DEF Request, Accept, Hijack, EndHijacked, SaveEdit, Respond, settingsVars
<1> QED BY <1>1, <1>2, <1>3, <1>4, <1>5 DEF Others, Writers

\* Whoever does not write, nobody writes when the process starts.
LEMMA KeptStart ==
    ASSUME LifeInv, SavingInv, KeptInv, NEW seen \in Reads, WatchedStart(seen)
    PROVE  KeptInv'
<1> USE DEF LifeInv, SettingsOK
<1>1. \A w \in Writers : ~Saving(w)
    BY DEF WatchedStart, Start, SavingInv, Writers, Idle
<1> DEFINE given == Args(options')
<1>2. /\ config' = Override(Load(seen), given)
      /\ saving' = [saving EXCEPT ![Main] = config'] /\ UNCHANGED settings
    BY DEF WatchedStart, Start, LoadSettings
<1>3. CASE wanted = Torn \/ seen # Keys
    BY <1>3 DEF WatchedStart, KeptInv
<1>4. CASE wanted # Torn /\ seen = Keys
    <2>1. settings = wanted
        <3>1. \A k \in Keys : settings[k] = wanted[k]
            BY <1>1, <1>4 DEF KeptInv, Saving
        <3> QED BY <1>4, <3>1 DEF KeptInv
    <2>2. \A k \in Keys : Load(seen)[k] = settings[k]
        BY <1>4 DEF Load, Override
    <2>4. wanted' = Override(wanted, given)
        BY <1>4 DEF WatchedStart
    <2>5. \A k \in Keys : wanted'[k] = config'[k]
        BY <1>2, <2>1, <2>2, <2>4 DEF Override
    <2>6. config' \in [Keys -> Values]
        BY SettingsTypeNext, LifecycleAssumption
           DEF WatchedStart, Next, ProcessInv, ProcessOK
    <2>7. wanted' = config'
        BY <2>4, <2>5, <2>6 DEF Override
    <2>8. saving'[Main] = config' /\ \A w \in Writers \ {Main} : saving'[w] = saving[w]
        BY <1>2 DEF Writers
    <2>9. \A u \in Writers : Saving(u)' => u = Main
        BY <1>1, <2>8 DEF Saving
    <2>10. \A w \in Writers : \A k \in DOMAIN saving'[w] : saving'[w][k] = wanted'[k]
        BY <1>1, <2>7, <2>8 DEF Saving
    <2>11. \A k \in Keys : k \in DOMAIN saving'[Main]
        BY <2>6, <2>8
    <2> QED BY <2>6, <2>7, <2>9, <2>10, <2>11 DEF KeptInv, Writers
<1> QED BY <1>3, <1>4

\* An edit that begins.
LEMMA KeptEdit ==
    ASSUME LifeInv, SavingInv, KeptInv, NEW t \in Handlers,
           \/ \E body \in Bodies : WatchedEdit(t, body)
           \/ \E value \in Values : WatchedUpstream(t, value)
    PROVE  KeptInv'
<1> USE DEF LifeInv, SettingsOK
<1>1. t \in Writers /\ ~Saving(t) /\ UNCHANGED settings
    BY DEF WatchedEdit, WatchedUpstream, EditSettings, EditUpstream, Edits, PutSettings,
           PutUpstream, SavingInv, Writers
<1>2. PICK new : saving' = [saving EXCEPT ![t] = new]
    BY DEF WatchedEdit, WatchedUpstream, EditSettings, EditUpstream, PutSettings, PutUpstream
<1>3. saving'[t] = new /\ \A w \in Writers \ {t} : saving'[w] = saving[w]
    BY <1>1, <1>2
<1>4. CASE wanted' = Torn
    BY <1>4 DEF KeptInv
<1>5. CASE Apart(t) /\ wanted' # Torn
    <2>1. \A w \in Writers : ~Saving(w)
        BY <1>1, <1>5 DEF Apart
    <2>2. \A u \in Writers : Saving(u)' => u = t
        BY <1>3, <2>1 DEF Saving
    <2>3. ASSUME NEW body \in Bodies, WatchedEdit(t, body)
          PROVE  wanted' \in [Keys -> Values] /\ new = wanted'
        <3>1. new = Override([k \in Keys |-> Zero], body) /\ wanted' = new
            BY <1>1, <1>2, <1>5, <2>3 DEF WatchedEdit, EditSettings, PutSettings
        <3>2. [k \in Keys |-> Zero] \in [Keys -> Values] /\ body \in PartialOf(Keys)
            BY SettingsAssumption
        <3> QED BY <3>1, <3>2, OverrideType
    <2>4. ASSUME NEW value \in Values, WatchedUpstream(t, value)
          PROVE  /\ wanted' \in [Keys -> Values]
                 /\ \A k \in Keys : settings[k] = wanted'[k] \/ k \in DOMAIN new
                 /\ \A k \in DOMAIN new : new[k] = wanted'[k]
        <3>1. /\ new = [k \in {Fallback} |-> value]
              /\ wanted # Torn /\ wanted' = [wanted EXCEPT ![Fallback] = value]
            BY <1>1, <1>2, <1>5, <2>4 DEF WatchedUpstream, EditUpstream, PutUpstream
        <3>2. wanted \in [Keys -> Values] /\ \A k \in Keys : settings[k] = wanted[k]
            BY <2>1, <3>1 DEF KeptInv, Saving
        <3> QED BY <3>1, <3>2, SettingsAssumption
    <2>5. /\ wanted' \in [Keys -> Values]
          /\ \A k \in Keys : settings[k] = wanted'[k] \/ k \in DOMAIN new
          /\ \A k \in DOMAIN new : new[k] = wanted'[k]
        BY <2>3, <2>4
    <2>6. \A w \in Writers : \A k \in DOMAIN saving'[w] : saving'[w][k] = wanted'[k]
        BY <1>3, <2>1, <2>5 DEF Saving
    <2> QED BY <1>1, <1>3, <2>2, <2>5, <2>6 DEF KeptInv
<1>6. CASE ~Apart(t)
    BY <1>4, <1>6 DEF WatchedEdit, WatchedUpstream
<1> QED BY <1>4, <1>5, <1>6

\* A key saved, a failure, the end of the process, or something else.
LEMMA KeptOthers ==
    ASSUME LifeInv, KeptInv, Others, wanted' = IF Lost THEN Torn ELSE wanted
    PROVE  KeptInv'
<1> USE DEF LifeInv, SettingsOK
<1>1. CASE wanted' = Torn
    BY <1>1 DEF KeptInv
<1>2. CASE wanted' # Torn
    <2>1. /\ ~Lost /\ wanted' = wanted /\ wanted \in [Keys -> Values]
          /\ \A u, w \in Writers : Saving(u) /\ Saving(w) => u = w
          /\ \A w \in Writers : \A k \in DOMAIN saving[w] : saving[w][k] = wanted[k]
          /\ \A k \in Keys : \/ settings[k] = wanted[k]
                             \/ \E w \in Writers : k \in DOMAIN saving[w]
        BY <1>2 DEF KeptInv
    <2>2. CASE UNCHANGED <<settings, saving>>
        BY <2>1, <2>2 DEF KeptInv, Saving
    <2>3. ASSUME NEW w \in Writers, SaveKey(w) PROVE KeptInv'
        <3>1. PICK key \in DOMAIN saving[w] :
                  /\ settings' = [settings EXCEPT ![key] = saving[w][key]]
                  /\ saving' = [saving EXCEPT ![w] = Without(saving[w], key)]
            BY <2>3 DEF SaveKey
        <3>2. /\ DOMAIN saving'[w] = DOMAIN saving[w] \ {key}
              /\ \A k \in DOMAIN saving'[w] : saving'[w][k] = saving[w][k]
              /\ \A u \in Writers \ {w} : saving'[u] = saving[u]
            BY <3>1 DEF Without
        <3>3. \A k \in Keys : settings'[k] = IF k = key THEN wanted[k] ELSE settings[k]
            BY <2>1, <3>1
        <3>4. \A u \in Writers : Saving(u)' => Saving(u)
            BY <3>2 DEF Saving
        <3>5. \A u \in Writers : \A k \in DOMAIN saving'[u] : saving'[u][k] = wanted[k]
            BY <2>1, <3>2
        <3>6. \A k \in Keys : \/ settings'[k] = wanted[k]
                              \/ \E u \in Writers : k \in DOMAIN saving'[u]
            BY <2>1, <3>2, <3>3
        <3> QED BY <2>1, <3>4, <3>5, <3>6 DEF KeptInv
    <2>4. ASSUME NEW ended \in SUBSET Writers, UNCHANGED settings,
                 saving' = [u \in Writers |-> IF u \in ended THEN Nothing ELSE saving[u]]
          PROVE  KeptInv'
        <3>1. \A u \in Writers : /\ u \notin ended => saving'[u] = saving[u]
                                 /\ u \in ended => saving'[u] = Nothing
            BY <2>4
        <3>2. DOMAIN Nothing = {}
            BY DEF Nothing
        <3>3. \A u \in ended : \A k \in DOMAIN saving[u] : settings'[k] = wanted[k]
            BY <2>1, <3>1 DEF Lost
        <3>4. \A u \in Writers : Saving(u)' => Saving(u)
            BY <3>1, <3>2 DEF Saving
        <3>5. \A u \in Writers : \A k \in DOMAIN saving'[u] : saving'[u][k] = wanted[k]
            BY <2>1, <3>1, <3>2
        <3>6. \A k \in Keys : \/ settings'[k] = wanted[k]
                              \/ \E u \in Writers : k \in DOMAIN saving'[u]
            BY <2>1, <2>4, <3>1, <3>3
        <3> QED BY <2>1, <3>4, <3>5, <3>6 DEF KeptInv
    <2>5. ASSUME NEW w \in Writers, SaveFails(w) PROVE KeptInv'
        <3>1. saving' = [u \in Writers |-> IF u \in {w} THEN Nothing ELSE saving[u]]
            BY <2>5 DEF SaveFails
        <3> QED BY <2>4, <2>5, <3>1 DEF SaveFails
    <2>6. CASE End
        <3>1. saving' = [u \in Writers |-> IF u \in Writers THEN Nothing ELSE saving[u]]
            BY <2>6 DEF End, Forget
        <3> QED BY <2>4, <2>6, <3>1 DEF End, Forget
    <2> QED BY <2>2, <2>3, <2>5, <2>6, OtherSteps
<1> QED BY <1>1, <1>2

\* Nobody saving, the rows are what the operator wants: an edit that ran alone is
\* what the next start loads, and a start loses nothing of it however often it
\* is interrupted (config.go 55-143, main.go 87-99, server.go 549-568 and 791-814).
THEOREM SettingsAreKept == WatchedSpec => []SettingsKept
<1>1. WatchedInit => LifeInv /\ SavingInv /\ KeptInv
    <2> SUFFICES ASSUME WatchedInit PROVE LifeInv /\ SavingInv /\ KeptInv
        OBVIOUS
    <2>1. LifeInv
        BY SettingsTypeInit, FreshProcess DEF WatchedInit, Init, LifeInv
    <2>2. \A w \in Writers : ~Saving(w)
        BY DEF WatchedInit, Init, SettingsInit, Saving, Nothing
    <2>3. SavingInv
        BY <2>2 DEF WatchedInit, Init, SavingInv, Writers, Down
    <2>4. KeptInv
        BY <2>2, SettingsAssumption DEF WatchedInit, Init, SettingsInit, KeptInv, Saving
    <2> QED BY <2>1, <2>3, <2>4
<1>2. LifeInv /\ SavingInv /\ KeptInv /\ [WatchedNext]_watchedVars
          => (LifeInv /\ SavingInv /\ KeptInv)'
    <2> SUFFICES ASSUME LifeInv, SavingInv, KeptInv, [WatchedNext]_watchedVars
                 PROVE  (LifeInv /\ SavingInv /\ KeptInv)'
        OBVIOUS
    <2>1. [Next]_vars
        BY DEF WatchedNext, WatchedStart, WatchedEdit, WatchedUpstream, Next, watchedVars
    <2>2. LifeInv'
        BY <2>1, SettingsTypeNext, ProcessInvNext DEF LifeInv, ProcessInv, ProcessOK
    <2>3. SavingInv'
        BY <2>1, SavingInvNext
    <2>4. KeptInv'
        <3>1. CASE UNCHANGED watchedVars
            BY <3>1 DEF watchedVars, vars, settingsVars, KeptInv, Saving
        <3> QED BY <3>1, KeptStart, KeptEdit, KeptOthers DEF WatchedNext
    <2> QED BY <2>2, <2>3, <2>4
<1>3. LifeInv /\ KeptInv => SettingsKept
    <2> SUFFICES ASSUME LifeInv, KeptInv, wanted # Torn, \A w \in Writers : ~Saving(w)
                 PROVE  settings = wanted
        BY DEF SettingsKept
    <2>1. \A k \in Keys : settings[k] = wanted[k]
        BY DEF KeptInv, Saving
    <2> QED BY <2>1 DEF KeptInv, LifeInv, SettingsOK
<1> QED BY <1>1, <1>2, <1>3, PTL DEF WatchedSpec

-----------------------------------------------------------------------------
(* The clean-up of the maintenance.                                        *)
\* A multiple of a day and less than a day more is negative if the multiple is.
LEMMA DaysSign ==
    ASSUME NEW k \in Int, NEW r \in 0..Day - 1
    PROVE  k * Day + r >= 0 <=> k >= 0
<1>1. CASE k >= 0
    <2>1. k * Day >= 0
        BY <1>1, DayAssumption
    <2> QED BY <1>1, <2>1, DayAssumption
<1>2. CASE k <= -1
    <2>1. (-1 - k) * Day >= 0
        BY <1>2, DayAssumption
    <2>2. (-1 - k) * Day = -Day - k * Day
        BY DayAssumption
    <2>3. k * Day \in Int /\ Day \in Int
        BY DayAssumption
    <2> QED BY <1>2, <2>1, <2>2, <2>3
<1> QED BY <1>1, <1>2

LEMMA DayAndTime ==
    ASSUME NEW t \in Nat
    PROVE  DayOf(t) \in Int /\ t % Day \in 0..Day - 1 /\ t = DayOf(t) * Day + (t % Day)
BY DayAssumption DEF DayOf

\* Cleanup (access_logger.go 24-35) keeps the entries of as many calendar days as the
\* retention says, today included, and no others.
THEOREM CleanupIsExact ==
    ASSUME NEW now \in Nat, NEW stamp \in 0..now, NEW retention \in Nat
    PROVE  CleanupKeeps(stamp, now, retention)
<1> DEFINE d == DayOf(now)
           e == DayOf(stamp)
           r == stamp % Day
           k == e - d + retention - 1
<1>1. d \in Int /\ e \in Int /\ r \in 0..Day - 1 /\ Day \in Nat /\ k \in Int
    BY DayAndTime, DayAssumption
<1>2. Midnight(now) = d * Day /\ stamp = e * Day + r
    <2>1. now = d * Day + (now % Day) /\ stamp = e * Day + r
        BY DayAndTime
    <2>2. now % Day \in Int /\ d * Day \in Int
        BY <1>1, DayAndTime
    <2> HIDE DEF d, e, r
    <2> QED BY <2>1, <2>2 DEF Midnight
<1>3. Kept(stamp, now, retention) <=> e * Day + r >= d * Day - (retention - 1) * Day
    BY <1>2 DEF Kept, Cutoff
<1> HIDE DEF d, e, r
<1>4. k * Day = e * Day - d * Day + (retention - 1) * Day
    BY <1>1
<1>5. e * Day \in Int /\ d * Day \in Int /\ (retention - 1) * Day \in Int /\ k * Day \in Int
    BY <1>1
<1>6. Kept(stamp, now, retention) <=> k * Day + r >= 0
    BY <1>1, <1>3, <1>4, <1>5
<1>7. Kept(stamp, now, retention) <=> k >= 0
    BY <1>1, <1>6, DaysSign
<1> QED BY <1>1, <1>7 DEF CleanupKeeps, d, e
=============================================================================
