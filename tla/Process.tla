------------------------------- MODULE Process ------------------------------
(***************************************************************************)
(* The life of the server process: maddy.go from moduleMain on, the        *)
(* registry of module instances, hooks, signals, the goroutine of the REST *)
(* API as far as the process's end depends on it, and the reloader of      *)
(* table.file, which hooks talk to.                                        *)
(*                                                                         *)
(* Init of a module is a call that calls Init of the modules it refers to: *)
(* stack holds the calls in progress.  Sending and receiving on channels   *)
(* without a buffer is one joint step.                                     *)
(***************************************************************************)
EXTENDS ConfigMap, SequencesExt

CONSTANTS
    Configs,        \* names of configurations
    Config,         \* what they are, see below
    GlobalMatchers, \* of ReadGlobals
    Matchers,       \* of the modules, by name
    MaxSignals,     \* bound on signals
    SigCap,         \* places in the channel of handleSignals
    MaxChanges      \* bound on changes of the table's file

(***************************************************************************)
(* A configuration: nodes, the global directives; blocks, in their order,  *)
(* each with its name, aliases, kind, directives and the modules that its  *)
(* Init asks for; inline, the modules that are defined where they are      *)
(* used; api and admin, what the environment says of the REST API.  A      *)
(* reference is [name, inline].                                            *)
(***************************************************************************)

VARIABLES
    conf,
    main,           \* where the main goroutine is
    status,         \* of the process
    cursor,         \* the block that RegisterModules looks at
    instances, aliases, endpoints,      \* registry and list of endpoints
    initialized,    \* modules whose Init has begun (GetInstance)
    stored,         \* what each module has read from its block
    stack,          \* calls of Init: [name, ref]
    shutdown,       \* hooks of EventShutdown: modules to close
    reload,         \* hooks of EventReload
    closing,        \* hooks that RunHooks(EventShutdown) has yet to run
    closed,         \* history: modules closed, in this order
    chan,           \* channel of each handleSignals
    handler,        \* its state
    todo,           \* reload hooks that it has yet to run
    api,            \* the goroutine of startApi
    signals,        \* history: signals sent
    asked,          \* history: handleSignals was told to stop the process
    reloader,       \* where the reloader of table.file is
    file, missing, fresh, changes,      \* its file
    seen, content, stamp, loaded        \* what it has seen and loaded of it

startVars == <<conf, cursor, instances, aliases, endpoints, initialized,
               stored, stack, reload, shutdown>>
endVars == <<closing, closed, chan, handler, todo, api, signals, asked>>
fileVars == <<file, missing, fresh, changes>>
tableVars == <<reloader, fileVars, seen, content, stamp, loaded>>
vars == <<main, status, startVars, endVars, tableVars>>

Handlers == {1, 2}
Stop == {"TERM", "INT"}
Signals == Stop \union {"USR1", "USR2"}

\* The blocks and the inline modules of a configuration.
Units(c) == Range(Config[c].blocks) \union Config[c].inline

(***************************************************************************)
(* How a configuration is written down.  A unit is known by its name; an   *)
(* inline module, which has none in the code, gets one that nothing else   *)
(* has and that only the place of its definition refers to.                *)
(***************************************************************************)
ASSUME ConfigAssumption ==
    \A c \in Configs :
        /\ Config[c].blocks \in Seq(Range(Config[c].blocks))
        /\ Range(Config[c].blocks) \intersect Config[c].inline = {}
        /\ \A u, v \in Units(c) : u.name = v.name => u = v
        /\ \A u \in Units(c) : u.refs \in Seq(Range(u.refs))
        /\ \A u, v \in Units(c) :
              \A i \in DOMAIN u.refs, j \in DOMAIN v.refs :
                 u.refs[i].inline =>
                    /\ \E w \in Config[c].inline : w.name = u.refs[i].name
                    /\ v.refs[j].inline /\ v.refs[j].name = u.refs[i].name
                        => u = v /\ i = j
        /\ \A w \in Config[c].inline, b \in Range(Config[c].blocks) :
              w.name \notin b.aliases

(***************************************************************************)
(* What the calls of Custom look like.  It refuses two matchers of a name. *)
(* A directive that modules inherit has the same form in ReadGlobals, and  *)
(* no default there if some of them require it.  Directives outside blocks *)
(* that ReadGlobals does not know are blocks to it.                        *)
(***************************************************************************)
ASSUME MatcherAssumption ==
    /\ \A g, h \in GlobalMatchers : g.name = h.name => g = h
    /\ \A c \in Configs :
          /\ Config[c].nodes \in Seq(Range(Config[c].nodes))
          /\ \A i \in DOMAIN Config[c].nodes :
                \E g \in GlobalMatchers : g.name = Config[c].nodes[i].name
          /\ \A u \in Units(c) : u.nodes \in Seq(Range(u.nodes))
          /\ \A u \in Units(c) : \A m, e \in Matchers[u.name] :
                m.name = e.name => m = e
          /\ \A u \in Units(c) :
                \A m \in Matchers[u.name], g \in GlobalMatchers :
                   m.inherit /\ g.name = m.name =>
                      /\ g.kind = m.kind /\ g.allowed = m.allowed
                      /\ m.required => g.defaultVal \in {"nil", "error"}
                                          \/ g.default = Zero(g)

ASSUME ChangesAssumption == MaxChanges \in Nat

\* The units of each configuration by their names.
BlockOf == [c \in Configs |-> [n \in {u.name : u \in Units(c)} |->
                CHOOSE u \in Units(c) : u.name = n]]
Block(n) == BlockOf[conf][n]

\* What Process makes of the global directives, and of a module's own ones.
GlobalsOf == [c \in Configs |->
                Processed(GlobalMatchers, TRUE, <<>>, Config[c].nodes)]
StoredOf == [c \in Configs |-> [n \in DOMAIN BlockOf[c] |->
                Processed(Matchers[n], FALSE, GlobalsOf[c].values,
                          BlockOf[c][n].nodes)]]

Frame(n) == [name |-> n, ref |-> 1]
Top == stack[Len(stack)]
Table == "aliases"              \* the block that is a table.file

Init ==
    /\ conf \in Configs
    /\ main = "globals" /\ status = "running"
    /\ cursor = 1 /\ instances = {} /\ aliases = <<>> /\ endpoints = <<>>
    /\ initialized = {} /\ stored = <<>> /\ stack = <<>>
    /\ shutdown = <<>> /\ reload = <<>> /\ closing = <<>> /\ closed = <<>>
    /\ chan = [h \in Handlers |-> <<>>]
    /\ handler = [h \in Handlers |-> "none"]
    /\ todo = [h \in Handlers |-> <<>>]
    /\ api = "none"
    /\ signals = 0 /\ asked = FALSE
    /\ reloader = "none"
    /\ file = MaxChanges + 1 /\ missing = FALSE /\ fresh = FALSE /\ changes = 0
    /\ seen = 0 /\ content = 0 /\ stamp = 0 /\ loaded = 0

-----------------------------------------------------------------------------
(***************************************************************************)
(* Reading the configuration                                               *)
(***************************************************************************)

\* The main goroutine goes on, or returns an error: the process exits.
Goes(pc) == main' = pc /\ UNCHANGED status
Exits(code) == main' = "exited" /\ status' = code

ReadGlobals ==
    /\ main = "globals"
    /\ IF GlobalsOf[conf].ok THEN Goes("dirs") ELSE Exits("failed")
    /\ UNCHANGED <<startVars, endVars, tableVars>>

InitDirs ==
    /\ main = "dirs"
    /\ Goes("register") \/ Exits("failed")
    /\ UNCHANGED <<startVars, endVars, tableVars>>

\* A name, also one that is an alias.
Resolve(n) == IF n \in DOMAIN aliases THEN aliases[n] ELSE n
HasInstance(n) == Resolve(n) \in instances

\* The next block of RegisterModules: an endpoint, or a module whose name and
\* aliases are new.
RegisterModule ==
    /\ main = "register" /\ cursor <= Len(Config[conf].blocks)
    /\ cursor' = cursor + 1
    /\ LET b == Config[conf].blocks[cursor]
           free == /\ \A n \in {b.name} \union b.aliases : ~HasInstance(n)
                   /\ b.name \notin b.aliases
       IN  \/ /\ b.kind = "endpoint"
              /\ endpoints' = Append(endpoints, b.name)
              /\ Goes("register") /\ UNCHANGED <<instances, aliases>>
           \/ /\ b.kind = "module" /\ free
              /\ instances' = instances \union {b.name}
              /\ aliases' = [n \in DOMAIN aliases \union b.aliases |->
                               IF n \in b.aliases THEN b.name ELSE aliases[n]]
              /\ Goes("register") /\ UNCHANGED endpoints
           \/ /\ b.kind = "unknown" \/ (b.kind = "module" /\ ~free)
              /\ Exits("failed") /\ UNCHANGED <<instances, aliases, endpoints>>
    /\ UNCHANGED <<conf, initialized, stored, stack, reload, shutdown,
                   endVars, tableVars>>

Registered ==
    /\ main = "register" /\ cursor > Len(Config[conf].blocks)
    /\ IF endpoints = <<>> THEN Exits("failed") ELSE Goes("init")
    /\ UNCHANGED <<startVars, endVars, tableVars>>

-----------------------------------------------------------------------------
(***************************************************************************)
(* Init of modules                                                         *)
(***************************************************************************)

InitStep == main = "init" /\ UNCHANGED <<conf, cursor, instances, aliases,
                                         endpoints, endVars>>

\* A call of Init begins with the module's own directives.
Call(n) ==
    LET r == StoredOf[conf][n]
    IN  IF r.ok
        THEN /\ Goes("init")
             /\ stored' = With(stored, n, r.stored)
             /\ stack' = Append(stack, Frame(n))
        ELSE Exits("failed") /\ UNCHANGED <<stored, stack>>

\* initModules: the next endpoint.
InitEndpoint ==
    /\ InitStep /\ stack = <<>>
    /\ \E i \in DOMAIN endpoints :
          /\ endpoints[i] \notin DOMAIN stored
          /\ \A j \in 1 .. (i - 1) : endpoints[j] \in DOMAIN stored
          /\ Call(endpoints[i])
    /\ UNCHANGED <<initialized, reload, shutdown, tableVars>>

NextRef(s) == [s EXCEPT ![Len(s)].ref = @ + 1]

\* ModuleFromNode with a name: GetInstance.  A module whose Init has begun is
\* returned as it is.
GetInstance ==
    /\ InitStep /\ stack # <<>>
    /\ Top.ref <= Len(Block(Top.name).refs)
    /\ LET r == Block(Top.name).refs[Top.ref]
           n == Resolve(r.name)
       IN  /\ ~r.inline
           /\ \/ /\ n \notin instances
                 /\ Exits("failed") /\ UNCHANGED <<stored, stack, initialized>>
              \/ /\ n \in instances \intersect initialized
                 /\ Goes("init")
                 /\ stack' = NextRef(stack) /\ UNCHANGED <<stored, initialized>>
              \/ /\ n \in instances \ initialized
                 /\ initialized' = initialized \union {n}
                 /\ Call(n)
    /\ UNCHANGED <<reload, shutdown, tableVars>>

\* ModuleFromNode without: createInlineModule and initInlineModule.
InlineModule ==
    /\ InitStep /\ stack # <<>>
    /\ Top.ref <= Len(Block(Top.name).refs)
    /\ LET r == Block(Top.name).refs[Top.ref]
       IN  r.inline /\ Call(r.name)
    /\ UNCHANGED <<initialized, reload, shutdown, tableVars>>

\* Init returns, and the module's Close becomes a hook.  The caller goes on
\* with its next reference.  table.file starts its reloader and has a hook of
\* its own before that.
InitReturns ==
    /\ InitStep /\ stack # <<>>
    /\ Top.ref > Len(Block(Top.name).refs)
    /\ LET n == Top.name
           rest == Front(stack)
       IN  \/ /\ Goes("init")
              /\ stack' = IF rest = <<>> THEN rest ELSE NextRef(rest)
              /\ shutdown' = Append(shutdown, n)
              /\ IF n = Table
                 THEN /\ reload' = Append(reload, n)
                      /\ reloader' = "idle"
                      /\ loaded' = IF missing THEN 0 ELSE file
                 ELSE UNCHANGED <<reload, reloader, loaded>>
           \/ Exits("failed") /\ UNCHANGED <<stack, shutdown, reload, reloader,
                                             loaded>>
    /\ UNCHANGED <<initialized, stored, fileVars, seen, content, stamp>>

\* The end of initModules: blocks nobody uses are an error, otherwise the
\* process serves and has goroutines for signals and the API.
Initialized ==
    /\ main = "init" /\ stack = <<>>
    /\ \A i \in DOMAIN endpoints : endpoints[i] \in DOMAIN stored
    /\ IF instances \subseteq initialized
       THEN /\ Goes("serve")
            /\ handler' = [handler EXCEPT ![1] = "start"]
            /\ api' = IF Config[conf].api THEN "start" ELSE "off"
       ELSE Exits("failed") /\ UNCHANGED <<handler, api>>
    /\ UNCHANGED <<startVars, closing, closed, chan, todo, signals, asked,
                   tableVars>>

-----------------------------------------------------------------------------
(***************************************************************************)
(* Signals                                                                 *)
(***************************************************************************)

Running == main # "exited"

\* Channels that signal.Notify was told of.  That of handleSignals stays
\* registered when it has returned.
Listening(h) == handler[h] \notin {"none", "start"}

\* A signal arrives.  It is put into each channel that has room, or taken by
\* a receiver that waits; without a channel for it, SIGTERM and SIGINT end
\* the process.
Signal(s) ==
    /\ Running /\ signals < MaxSignals
    /\ signals' = signals + 1
    /\ chan' = [h \in Handlers |->
                  IF Listening(h) /\ Len(chan[h]) < SigCap
                  THEN Append(chan[h], s) ELSE chan[h]]
    /\ api' = IF s = "INT" /\ api = "waiting" THEN "shutdown" ELSE api
    /\ IF s \in Stop /\ \A h \in Handlers : ~Listening(h)
         /\ ~(s = "INT" /\ api = "waiting")
       THEN Exits("killed") ELSE UNCHANGED <<main, status>>
    /\ UNCHANGED <<startVars, closing, closed, handler, todo, asked, tableVars>>

HandlerStep(h) ==
    /\ Running
    /\ UNCHANGED <<startVars, closing, closed, api, signals>>

\* handleSignals: signal.Notify.
Notify(h) ==
    /\ HandlerStep(h) /\ handler[h] = "start"
    /\ handler' = [handler EXCEPT ![h] = "wait"]
    /\ UNCHANGED <<main, status, chan, todo, asked, tableVars>>

\* It receives a signal: SIGUSR1 reopens the logs, SIGUSR2 runs the hooks,
\* the others make it return, and a second handleSignals ends the process.
HandleSignal(h) ==
    /\ HandlerStep(h) /\ handler[h] = "wait" /\ chan[h] # <<>>
    /\ chan' = [chan EXCEPT ![h] = Tail(@)]
    /\ LET s == Head(chan[h])
       IN  \/ /\ s = "USR1"
              /\ UNCHANGED <<main, status, handler, todo, asked>>
           \/ /\ s = "USR2"
              /\ todo' = [todo EXCEPT ![h] = reload]
              /\ handler' = [handler EXCEPT ![h] = "reload"]
              /\ UNCHANGED <<main, status, asked>>
           \/ /\ s \in Stop /\ h = 1
              /\ handler' = [handler EXCEPT ![1] = "returned", ![2] = "start"]
              /\ asked' = TRUE
              /\ UNCHANGED <<main, status, todo>>
           \/ /\ s \in Stop /\ h = 2
              /\ Exits("forced")
              /\ UNCHANGED <<handler, todo, asked>>
    /\ UNCHANGED tableVars

\* RunHooks(EventReload): the last hook that is left.  That of table.file
\* waits for the reloader to receive.
ReloadHook(h) ==
    /\ HandlerStep(h) /\ handler[h] = "reload"
    /\ IF todo[h] = <<>>
       THEN /\ handler' = [handler EXCEPT ![h] = "wait"]
            /\ UNCHANGED <<todo, reloader>>
       ELSE /\ reloader = "idle" /\ reloader' = "stat"
            /\ todo' = [todo EXCEPT ![h] = Front(@)]
            /\ UNCHANGED handler
    /\ UNCHANGED <<main, status, chan, asked, fileVars, seen, content, stamp,
                   loaded>>

-----------------------------------------------------------------------------
(***************************************************************************)
(* startApi and server.Start                                               *)
(***************************************************************************)

ApiStep == Running /\ UNCHANGED <<startVars, closing, closed, chan, handler,
                                  todo, signals, asked, tableVars>>

\* The storage or the credentials cannot be opened; the API is missing its
\* administrator; or it serves and waits for SIGINT.
ApiStart ==
    /\ ApiStep /\ api = "start"
    /\ \/ api' = "done" /\ UNCHANGED <<main, status>>
       \/ ~Config[conf].admin /\ Exits("no admin") /\ UNCHANGED api
       \/ Config[conf].admin /\ api' = "waiting" /\ UNCHANGED <<main, status>>

\* e.Shutdown, which ends the process if requests do not end in time.
ApiShutdown ==
    /\ ApiStep /\ api = "shutdown"
    /\ \/ api' = "done" /\ UNCHANGED <<main, status>>
       \/ Exits("api") /\ UNCHANGED api

-----------------------------------------------------------------------------
(***************************************************************************)
(* The end                                                                 *)
(***************************************************************************)

MainStep == UNCHANGED <<startVars, chan, handler, todo, api, signals, asked>>

\* wg.Wait returns; RunHooks copies the hooks.
WaitGroup ==
    /\ MainStep /\ main = "serve"
    /\ handler[1] = "returned" /\ api \in {"off", "done"}
    /\ Goes("hooks")
    /\ closing' = shutdown
    /\ UNCHANGED <<closed, tableVars>>

\* Mutant: the hooks run in the order of their addition.
RunHookForward ==
    /\ MainStep /\ main = "hooks" /\ closing # <<>>
    /\ LET n == Head(closing)
       IN  /\ closing' = Tail(closing)
           /\ closed' = Append(closed, n)
           /\ IF n = Table THEN reloader = "idle" /\ reloader' = "stopped"
              ELSE UNCHANGED reloader
    /\ Goes("hooks")
    /\ UNCHANGED <<fileVars, seen, content, stamp, loaded>>

\* One hook, in the reverse order of their addition: Close of a module.  That
\* of table.file waits until the reloader has heard of it and answered.
RunHook ==
    /\ MainStep /\ main = "hooks" /\ closing # <<>>
    /\ LET n == closing[Len(closing)]
       IN  /\ closing' = Front(closing)
           /\ closed' = Append(closed, n)
           /\ IF n = Table THEN reloader = "idle" /\ reloader' = "stopped"
              ELSE UNCHANGED reloader
    /\ Goes("hooks")
    /\ UNCHANGED <<fileVars, seen, content, stamp, loaded>>

HooksDone ==
    /\ MainStep /\ main = "hooks" /\ closing = <<>>
    /\ Exits("ok")
    /\ UNCHANGED <<closing, closed, tableVars>>

-----------------------------------------------------------------------------
(***************************************************************************)
(* table.file: the file, which others change, and the reloader.  A version *)
(* of the file is its time of modification; 0 is no file, and as a stamp   *)
(* the zero time.  Changes before Init has read it are left out.           *)
(***************************************************************************)

TableStep ==
    Running /\ reloader # "none" /\ UNCHANGED <<main, status, startVars, endVars>>

\* The file is removed; or written again, which makes its time new for a
\* while; or replaced by one that keeps its older time, such as a backup.  No
\* two versions have the same time.
RemoveFile ==
    /\ TableStep /\ ~missing
    /\ missing' = TRUE
    /\ UNCHANGED <<reloader, file, fresh, changes, seen, content, stamp, loaded>>
ChangeFile ==
    /\ TableStep /\ changes < MaxChanges
    /\ changes' = changes + 1 /\ missing' = FALSE
    /\ \/ file' = MaxChanges + 1 + changes' /\ fresh' = TRUE
       \/ file' = MaxChanges + 1 - changes' /\ fresh' = FALSE
    /\ UNCHANGED <<reloader, seen, content, stamp, loaded>>
FileGetsOld ==
    /\ TableStep /\ fresh
    /\ fresh' = FALSE
    /\ UNCHANGED <<reloader, file, missing, changes, seen, content, stamp, loaded>>

\* The ticker.
Tick ==
    /\ TableStep /\ reloader = "idle"
    /\ reloader' = "stat"
    /\ UNCHANGED <<fileVars, seen, content, stamp, loaded>>

\* reload: a file older than the one loaded, or just changed, is left alone.
\* An error of os.Stat other than a missing file is logged, and its missing
\* result used: the panic ends the goroutine.
ReloadStat ==
    /\ TableStep /\ reloader = "stat"
    /\ \/ missing /\ loaded' = 0 /\ reloader' = "idle" /\ UNCHANGED seen
       \/ /\ ~missing /\ (file < stamp \/ fresh)
          /\ reloader' = "idle" /\ UNCHANGED <<seen, loaded>>
       \/ /\ ~missing /\ ~(file < stamp \/ fresh)
          /\ reloader' = "read" /\ seen' = file
          /\ UNCHANGED loaded
       \/ reloader' = "dead" /\ UNCHANGED <<seen, loaded>>
    /\ UNCHANGED <<fileVars, content, stamp>>

\* The variables of reload are gone.
ReloadReturns == reloader' = "idle" /\ seen' = 0 /\ content' = 0

\* readFile, which may fail.
ReloadRead ==
    /\ TableStep /\ reloader = "read"
    /\ \/ /\ ~missing /\ content' = file
          /\ reloader' = "check" /\ UNCHANGED seen
       \/ ReloadReturns
    /\ UNCHANGED <<fileVars, stamp, loaded>>

\* Mutant: the file is not looked at again.
UnchangedFileSkipped == TRUE

\* The second os.Stat finds the same time of modification.
UnchangedFile == ~missing /\ file = seen

\* Mutant: when the file has changed, the reloader does not go on.
ReloadCheckEnds ==
    /\ TableStep /\ reloader = "check"
    /\ reloader' = IF UnchangedFile THEN "swap" ELSE "gone"
    /\ UNCHANGED <<fileVars, seen, content, stamp, loaded>>

ReloadCheck ==
    /\ TableStep /\ reloader = "check"
    /\ \/ UnchangedFile /\ reloader' = "swap" /\ UNCHANGED <<seen, content>>
       \/ ~UnchangedFile /\ ReloadReturns
    /\ UNCHANGED <<fileVars, stamp, loaded>>

\* The new table and its time, under the lock.
ReloadSwap ==
    /\ TableStep /\ reloader = "swap"
    /\ loaded' = content /\ stamp' = seen
    /\ ReloadReturns
    /\ UNCHANGED fileVars

-----------------------------------------------------------------------------
\* The process has ended.
Ended == main = "exited" /\ UNCHANGED vars

MainNext ==
    \/ ReadGlobals \/ InitDirs \/ RegisterModule \/ Registered
    \/ InitEndpoint \/ GetInstance \/ InlineModule \/ InitReturns
    \/ Initialized \/ WaitGroup \/ RunHook \/ HooksDone
HandlerNext(h) == Notify(h) \/ HandleSignal(h) \/ ReloadHook(h)
ApiGoes == ApiStart \/ ApiShutdown
ReloaderNext == ReloadStat \/ ReloadRead \/ ReloadCheck \/ ReloadSwap

Next ==
    \/ MainNext \/ ApiGoes \/ ReloaderNext \/ Tick
    \/ \E h \in Handlers : HandlerNext(h)
    \/ \E s \in Signals : Signal(s)
    \/ RemoveFile \/ ChangeFile \/ FileGetsOld
    \/ Ended

\* Goroutines run when they can.  Other than the ticker, a waiting sender is
\* served again and again, hence the strong fairness of the two hooks.
Fairness ==
    /\ WF_vars(MainNext) /\ SF_vars(RunHook)
    /\ WF_vars(ApiGoes) /\ WF_vars(ReloaderNext)
    /\ \A h \in Handlers : WF_vars(HandlerNext(h)) /\ SF_vars(ReloadHook(h))

Spec == Init /\ [][Next]_vars /\ Fairness

-----------------------------------------------------------------------------
(***************************************************************************)
(* Properties                                                              *)
(***************************************************************************)

\* The modules a module refers to, by the names of their blocks.
Uses(n) == {Resolve(Block(n).refs[i].name) : i \in DOMAIN Block(n).refs}

\* Modules are closed after those that use them, each once, and none is left
\* when the process has ended in an orderly way.  (Init of what is used comes
\* first, and hooks run in reverse.)
ClosedInOrder ==
    /\ \A i, j \in DOMAIN closed :
          closed[i] \in Uses(closed[j]) => j < i
    /\ IsInjective(closed)
    /\ status = "ok" => Range(closed) = initialized \union DOMAIN stored

\* Once a signal has asked for it, the process ends, also while hooks for a
\* reload run, unless it waits for the API or for a reloader that is gone.
ShutdownEnds ==
    asked /\ api = "off" ~> main = "exited" \/ reloader = "dead"

\* The table becomes that of the file as it is, when Init reads it or the file
\* is gone; a reload makes it that of the version whose time is noted, never
\* of one that changed while it was read.
TableConsistent ==
    [][loaded' # loaded =>
          \/ loaded' = IF missing THEN 0 ELSE file
          \/ loaded' = stamp']_vars

\* What somebody has written for a directive.
Written(nodes, name) ==
    {i \in DOMAIN nodes : nodes[i].name = name}

\* A module runs with the value of its own directive, else with that of the
\* global one, else with a default; one that is required was given by one of
\* them.
DirectivesResolve ==
    \A n \in DOMAIN stored : \A m \in Variables(Matchers[n]) :
        LET own == Written(Block(n).nodes, m.name)
            global == Written(Config[conf].nodes, m.name)
        IN  /\ m.required => own # {} \/ (m.inherit /\ global # {})
            /\ \A i \in own :
                  stored[n][m.name] = Mapper(m, Block(n).nodes[i]).val
            /\ own = {} /\ m.inherit => \A i \in global :
                  stored[n][m.name] = Mapper(m, Config[conf].nodes[i]).val
=============================================================================
