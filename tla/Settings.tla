------------------------------ MODULE Settings ------------------------------
(***************************************************************************)
(* The settings (app/modules/config.go): a table with a row for every key, *)
(* read once at the start, overridden by the command line, saved again,    *)
(* and from then on changed by two REST requests.  There is no             *)
(* transaction: they are saved a statement per key, in the random order of *)
(* a map.  A value is parsed back to what it was formatted from.           *)
(***************************************************************************)
EXTENDS Naturals

CONSTANTS Keys,      \* the settings
          Options,   \* those the command line has an option for
          Listen,    \* listen_addresses: an option, and a list that may be empty
          Fallback,  \* upstream_dns_fallback, which the REST API sets by itself, too
          Values, Default,
          Zero,      \* what a field missing in a request is decoded to
          Bodies,    \* the settings in the body of a PUT /settings
          Main,      \* the main goroutine
          Handlers,  \* goroutines of requests
          DbFails    \* whether database statements may fail

Without(f, k) == [j \in DOMAIN f \ {k} |-> f[j]]
PartialOf(ks) == UNION {[K -> Values] : K \in SUBSET ks}

ASSUME SettingsAssumption ==
    /\ Options \subseteq Keys /\ Listen \in Options /\ Fallback \in Keys \ Options
    /\ Default \in [Keys -> Values] /\ Zero \in Values
    /\ Bodies \subseteq PartialOf(Keys)
    /\ Main \notin Handlers /\ DbFails \in BOOLEAN

VARIABLES settings,  \* the rows; the migrations insert one for every key
          config,    \* the AppConfig, shared by main and the REST API
          inUse,     \* the values the components were made with
          saving     \* what each goroutine has still to write of what it saves

settingsVars == <<settings, config, inUse, saving>>

Writers == Handlers \cup {Main}
Nothing == [k \in {} |-> Zero]
Saving(w) == DOMAIN saving[w] # {}

Override(c, o) == [k \in Keys |-> IF k \in DOMAIN o THEN o[k] ELSE c[k]]

\* What the rows seen by a query say.  A failing query sees none of them, one
\* that breaks off the first few; either goes unnoticed or is taken for success.
Load(seen) == Override(Default, [k \in seen |-> settings[k]])
Reads == {Keys} \cup (IF DbFails THEN SUBSET Keys ELSE {})

\* The command line an installation registers: options that say the default are
\* left out, but for the listen addresses.
ServiceArgs(o) == [k \in {k \in DOMAIN o : k = Listen \/ o[k] # Default[k]} |-> o[k]]

\* What the components get: for an empty list of listen addresses 0.0.0.0, which is
\* the default.  (The AppConfig, and the addresses of the auto records, stay empty.)
Used(c) == [c EXCEPT ![Listen] = IF @ = Zero THEN Default[Listen] ELSE @]

SettingsInit == /\ settings = Default
                /\ config = Default /\ inUse = Default
                /\ saving = [w \in Writers |-> Nothing]

-----------------------------------------------------------------------------
\* Deviation: the options are used, but not saved.
LoadSettingsUnsaved(seen, given) ==
    /\ config' = Override(Load(seen), given)
    /\ saving' = [saving EXCEPT ![Main] = Load(seen)]
    /\ UNCHANGED <<settings, inUse>>

\* Deviation: an option is taken for given when it differs from the default.
LoadSettingsComparing(seen, given) ==
    /\ config' = Override(Load(seen), ServiceArgs(given))
    /\ saving' = [saving EXCEPT ![Main] = config']
    /\ UNCHANGED <<settings, inUse>>

\* The start: load, let the options win, save everything.
LoadSettings(seen, given) ==
    /\ config' = Override(Load(seen), given)
    /\ saving' = [saving EXCEPT ![Main] = config']
    /\ UNCHANGED <<settings, inUse>>

\* The components are made of what the configuration says now.
Build == /\ ~Saving(Main)
         /\ inUse' = Used(config)
         /\ UNCHANGED <<settings, config, saving>>

\* Deviation: the request changes the configuration of the running components.
PutSettingsLive(w, body) ==
    /\ saving' = [saving EXCEPT ![w] = Override([k \in Keys |-> Zero], body)]
    /\ config' = Override(config, body)
    /\ UNCHANGED <<settings, inUse>>

\* PUT /settings: the body is decoded into an empty AppConfig and saved, and
\* does not change the one in use.
PutSettings(w, body) ==
    /\ saving' = [saving EXCEPT ![w] = Override([k \in Keys |-> Zero], body)]
    /\ UNCHANGED <<settings, config, inUse>>

\* Deviation: the whole body is saved instead of the list in it.
PutUpstreamBody(w, value) ==
    /\ config' = [config EXCEPT ![Fallback] = value]
    /\ saving' = [saving EXCEPT ![w] = [k \in {Fallback} |-> <<value>>]]
    /\ UNCHANGED <<settings, inUse>>

\* PUT /dns/upstream: the AppConfig first, then the row.  (The assignment takes
\* no lock; the requests that may read half of it change nothing.)
PutUpstream(w, value) ==
    /\ config' = [config EXCEPT ![Fallback] = value]
    /\ saving' = [saving EXCEPT ![w] = [k \in {Fallback} |-> value]]
    /\ UNCHANGED <<settings, inUse>>

\* SaveConfigToDB and SaveSettingToDB: any of the keys left ...
SaveKey(w) ==
    \E k \in DOMAIN saving[w] :
        /\ settings' = [settings EXCEPT ![k] = saving[w][k]]
        /\ saving' = [saving EXCEPT ![w] = Without(saving[w], k)]
        /\ UNCHANGED <<config, inUse>>

\* ... and the first error ends it.
SaveFails(w) ==
    /\ Saving(w)
    /\ saving' = [saving EXCEPT ![w] = Nothing]
    /\ UNCHANGED <<settings, config, inUse>>

\* The process has gone, and with it everything but the rows.
Forget == /\ config' = Default /\ inUse' = Default
          /\ saving' = [w \in Writers |-> Nothing]
          /\ UNCHANGED settings
=============================================================================
