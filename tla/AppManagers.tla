---------------------------- MODULE AppManagers ----------------------------
(***************************************************************************)
(* AppManagers and its AppManager of one database file: registrations,     *)
(* factories, the instances of the enabled apps, and the lifecycle calls   *)
(* in the order the class documents them, over the SchemaStore of the      *)
(* file.  A call that walks over the apps is one step per app, so that a   *)
(* locked file, an exception of a hook, or the death of the process can    *)
(* fall between two of them.                                               *)
(***************************************************************************)
EXTENDS SchemaStore

CONSTANTS Kinds,        \* number of app types; their numbers follow their names
          Nested,       \* those with a nested AppFactory
          Arg,          \* what a factory is parameterized with
          Default,      \* stands for the default factory, which takes nothing
          SchemaOf,     \* defineSchema: kind -> argument -> tables
          StringUser,   \* kinds whose postTeardown() saves their TinyStrings
          UserSchema,   \* schemas the simulator appends on its own
          Orderings,    \* what setAppOrderingForHooks() is called with
          MaxInst, MaxRegs, MaxBusy, MaxSessions, MaxStrings

Kind == 1 .. Kinds
Inst == 0 .. MaxInst - 1
AppId == Kind \X Inst
Hook == {"postInit", "preTeardown", "postTeardown"}

ASSUME AppsAssumption ==
    /\ {Kinds, MaxInst, MaxRegs, MaxBusy, MaxSessions, MaxStrings} \subseteq Nat
    /\ MaxInst > 0
    /\ Nested \subseteq Kind /\ StringUser \subseteq Kind
    /\ Default \in Arg
    /\ SchemaOf \in [Kind -> [Arg -> Seq(Table)]] /\ UserSchema \subseteq Seq(Table)
    \* Schema::addTable refuses a second table of a name.
    /\ \A s \in UserSchema \cup {SchemaOf[k][a] : k \in Kind, a \in Arg} :
           \A i, j \in DOMAIN s : s[i].name = s[j].name => i = j
    /\ Orderings \subseteq Seq(Kind)
    /\ Owner = AppId
    /\ Row = Hook \X AppId \X (1 .. MaxSessions)

VARIABLES
    regs,       \* registrations of AppManagers, and whether they are locked
    config,     \* of the AppManager: factories, enabled apps, hook order
    apps,       \* apps_: instance -> the argument it was built with
    pipelines,  \* pipeline_mgr_: "none", "made" or "open"
    phase,      \* the last lifecycle call that returned
    pass,       \* the call under way, the apps it has not come to, its retries
    ran,        \* the apps each hook was last called on, in order
    sessions    \* AppManagers created so far, in this process and before it

rest == <<regs, config, apps, pipelines, phase, pass, ran, sessions>>
vars == <<store, rest>>

NoFactories == [k \in {} |-> <<>>]
Fresh == [default |-> {}, nested |-> NoFactories, enabled |-> NoFactories, ordering |-> <<>>]
NoPass == [call |-> "none", todo |-> <<>>, busy |-> 0]
NoApps == [a \in {} |-> Default]
NotRun == [h \in Hook |-> <<>>]

Init ==
    /\ StoreInit
    /\ regs = [kinds |-> <<>>, locked |-> FALSE]
    /\ config = Fresh /\ apps = NoApps /\ pipelines = "none"
    /\ phase = "none" /\ pass = NoPass /\ ran = NotRun /\ sessions = 0

Quiet == pass.call = "none" /\ append = NotAppending /\ ~thrown

Put(f, x, y) == [a \in DOMAIN f \cup {x} |-> IF a = x THEN y ELSE f[a]]

-----------------------------------------------------------------------------
(* Registration and the new manager. *)

registerApp(k) ==
    /\ Quiet /\ ~regs.locked /\ Len(regs.kinds) < MaxRegs
    /\ regs' = [regs EXCEPT !.kinds = Append(@, k)]
    /\ UNCHANGED <<store, config, apps, pipelines, phase, pass, ran, sessions>>

(* The DatabaseManager's constructor, then the new AppManager.            *)
createAppManager(newDb) ==
    /\ Quiet /\ phase \in {"none", "gone"}
    /\ sessions < MaxSessions /\ sessions' = sessions + 1
    /\ IF newDb THEN OpenNew ELSE OpenExisting
    /\ pass' = [NoPass EXCEPT !.call = "open"]
    /\ UNCHANGED <<strings, regs, config, apps, pipelines, phase, ran>>

(* registerApp_: the second default factory of a type is refused, after   *)
(* the manager went into the maps and before the registrations lock.       *)
Twice == {k \in Kind \ Nested : \E i, j \in DOMAIN regs.kinds :
                                    i < j /\ regs.kinds[i] = k /\ regs.kinds[j] = k}

RegisterAll ==
    /\ pass.call = "open" /\ append = NotAppending /\ ~thrown
    /\ config' = [Fresh EXCEPT !.default =
                      {k \in Kind \ Nested : \E i \in DOMAIN regs.kinds : regs.kinds[i] = k}]
    /\ apps' = NoApps /\ pipelines' = "none" /\ ran' = NotRun
    /\ strings' = [o \in Owner |-> NoStrings]
    /\ phase' = "managed" /\ pass' = NoPass
    /\ IF Twice = {} THEN regs' = [regs EXCEPT !.locked = TRUE] /\ UNCHANGED thrown
                     ELSE thrown' = TRUE /\ UNCHANGED regs
    /\ UNCHANGED <<disk, work, tx, schema, append, torn, sessions>>

-----------------------------------------------------------------------------
(* Configuring the manager. *)

Configuring == Quiet /\ phase = "managed"

Configured(c) ==
    /\ config' = c
    /\ UNCHANGED <<store, regs, apps, pipelines, phase, pass, ran, sessions>>

enableApp(k, n) ==
    /\ Configuring
    /\ Configured([config EXCEPT !.enabled = Put(@, k, n)])

(* Of a nested factory, instance 0 is the one all others fall back on; the *)
(* factories of single instances are not in the map that gets cleared.     *)
parameterizeAppFactoryInstance(k, i, a) ==
    /\ Configuring /\ k \in Nested /\ k \in DOMAIN config.enabled
    /\ LET old == IF k \in DOMAIN config.nested THEN config.nested[k] ELSE NoFactories
       IN  Configured([config EXCEPT !.nested = Put(@, k, Put(old, i, a))])

parameterizeAppFactory(k, a) == parameterizeAppFactoryInstance(k, 0, a)

setAppOrderingForHooks(o) ==
    /\ Configuring
    /\ Configured([config EXCEPT !.ordering = o])

(* The simulator's own DatabaseManager::appendSchema, in two transactions. *)
AppendUserSchema(s) ==
    /\ Configuring
    /\ appendSchema(s)
    /\ UNCHANGED <<disk, work, tx, schema, strings, thrown, torn, rest>>

-----------------------------------------------------------------------------
(* Apps and their schemas. *)

Factories(k) ==
    IF k \in Nested
    THEN IF k \in DOMAIN config.nested THEN config.nested[k] ELSE NoFactories
    ELSE IF k \in config.default THEN [i \in {0} |-> Default] ELSE NoFactories

(* getAppFactory_: the instance's own, or the one of instance 0. *)
Found(k, i) == IF i \in DOMAIN Factories(k) THEN {i} ELSE DOMAIN Factories(k) \cap {0}

(* An app without a factory is left out without a word. *)
createEnabledApps ==
    /\ Quiet /\ phase = "managed"
    /\ LET wanted == {a \in AppId : /\ a[1] \in DOMAIN config.enabled
                                    /\ a[2] < config.enabled[a[1]]
                                    /\ Found(a[1], a[2]) # {}}
       IN  apps' = [a \in wanted |->
                       Factories(a[1])[CHOOSE i \in Found(a[1], a[2]) : TRUE]]
    /\ phase' = "apps"
    /\ UNCHANGED <<store, regs, config, pipelines, pass, ran, sessions>>

Before(a, b) == a[1] < b[1] \/ (a[1] = b[1] /\ a[2] < b[2])

InMapOrder(S) ==
    CHOOSE s \in [1 .. Cardinality(S) -> S] :
        \A i, j \in 1 .. Cardinality(S) : i < j => Before(s[i], s[j])

(* Mutant: the unlisted apps come first. *)
HookOrderListedLast ==
    LET o == config.ordering
        Of(k) == InMapOrder({a \in DOMAIN apps : a[1] = k})
        listed[n \in 0 .. Len(o)] == IF n = 0 THEN <<>> ELSE listed[n - 1] \o Of(o[n])
    IN  InMapOrder({a \in DOMAIN apps : \A n \in 1 .. Len(o) : o[n] # a[1]}) \o
            listed[Len(o)]

(* getAppsInHookOrder_ *)
HookOrder ==
    LET o == config.ordering
        Of(k) == InMapOrder({a \in DOMAIN apps : a[1] = k})
        listed[n \in 0 .. Len(o)] == IF n = 0 THEN <<>> ELSE listed[n - 1] \o Of(o[n])
    IN  listed[Len(o)] \o
            InMapOrder({a \in DOMAIN apps : \A n \in 1 .. Len(o) : o[n] # a[1]})

(* What a call walks over; a retried one starts again. *)
WalkOf(c) == IF c = "schemas" THEN InMapOrder(DOMAIN apps) ELSE HookOrder

Start(c) == pass' = [call |-> c, todo |-> WalkOf(c), busy |-> 0]

Next1 == [pass EXCEPT !.todo = Tail(@)]

createSchemas ==
    /\ Quiet /\ phase = "apps"
    /\ Begin /\ Start("schemas")
    /\ UNCHANGED <<schema, append, strings, thrown, regs, config, apps, pipelines,
                   phase, ran, sessions>>

(* The instance number is read from "-<number>", which std::stoull wraps   *)
(* for every number but 0.                                                 *)
ParsedInst(i) == IF i = 0 THEN 0 ELSE MaxInst

AppendAppSchema ==
    /\ pass.call = "schemas" /\ pass.todo # <<>> /\ append = NotAppending
    /\ LET k == Head(pass.todo)[1]
           found == Found(k, ParsedInst(Head(pass.todo)[2]))
       IN  IF found = {}
           THEN Throw /\ pass' = NoPass /\ UNCHANGED <<schema, strings>>
           ELSE /\ appendSchema(SchemaOf[k][Factories(k)[CHOOSE i \in found : TRUE]])
                /\ pass' = Next1
                /\ UNCHANGED <<disk, work, tx, schema, strings, thrown, torn>>
    /\ UNCHANGED <<regs, config, apps, pipelines, phase, ran, sessions>>

-----------------------------------------------------------------------------
(* Hooks. *)

StartHooks(h) ==
    /\ Start(h)
    /\ ran' = [ran EXCEPT ![h] = <<>>]
    /\ UNCHANGED <<schema, append, strings, thrown, regs, config, apps, pipelines,
                   phase, sessions>>

postInit == Quiet /\ phase = "schemas" /\ Begin /\ StartHooks("postInit")

(* preTeardown() runs outside any transaction. *)
postSimLoopTeardown ==
    /\ Quiet /\ phase \in {"managed", "apps", "schemas", "inited", "piped", "open"}
    /\ StartHooks("preTeardown")
    /\ UNCHANGED <<disk, work, tx, torn>>

(* A hook that inserts a row of its app.  A kind that owns TinyStrings has *)
(* them serialized before its postTeardown() returns.                      *)
CallHook ==
    /\ pass.call \in Hook /\ pass.todo # <<>>
    /\ LET a == Head(pass.todo) IN
       /\ ran' = [ran EXCEPT ![pass.call] = Append(@, a)]
       /\ IF pass.call = "preTeardown"
          THEN UNCHANGED <<disk, work>>
          ELSE Write([View EXCEPT !.rows = @ \cup {<<pass.call, a, sessions>>}])
       /\ pass' = IF pass.call = "postTeardown" /\ a[1] \in StringUser
                  THEN [pass EXCEPT !.call = "strings"] ELSE Next1
    /\ UNCHANGED <<tx, schema, append, strings, thrown, torn, regs, config, apps,
                   pipelines, phase, sessions>>

SaveStrings ==
    /\ pass.call = "strings"
    /\ \/ /\ AppendStringTable /\ UNCHANGED pass
       \/ /\ InsertStrings(Head(pass.todo))
          /\ pass' = IF thrown' THEN NoPass ELSE [Next1 EXCEPT !.call = "postTeardown"]
    /\ UNCHANGED <<regs, config, apps, pipelines, phase, ran, sessions>>

(* An exception of a hook leaves the call; only a transaction is undone.   *)
HookThrows ==
    /\ pass.call \in Hook /\ pass.todo # <<>>
    /\ Throw /\ pass' = NoPass
    /\ UNCHANGED <<schema, strings, regs, config, apps, pipelines, phase, ran, sessions>>

-----------------------------------------------------------------------------
(* The ends of the calls. *)

Finish(p) == pass' = NoPass /\ phase' = p

EndTransaction ==
    /\ pass.todo = <<>> /\ append = NotAppending
    /\ \/ pass.call = "schemas"  /\ Finish("schemas") /\ UNCHANGED <<apps, pipelines>>
       \/ pass.call = "postInit" /\ Finish("inited")  /\ UNCHANGED <<apps, pipelines>>
       \/ /\ pass.call = "postTeardown" /\ phase' = "gone"
          /\ pass' = [NoPass EXCEPT !.busy = pass.busy]
          /\ apps' = NoApps /\ pipelines' = "none"     \* destroy_(false)
    /\ Commit
    /\ UNCHANGED <<schema, append, strings, thrown, regs, config, ran, sessions>>

(* The pipelines are flushed and closed between the two hooks. *)
EndPreTeardown ==
    /\ pass.call = "preTeardown" /\ pass.todo = <<>>
    /\ Begin /\ Start("postTeardown")
    /\ pipelines' = IF pipelines = "open" THEN "made" ELSE pipelines
    /\ ran' = [ran EXCEPT !["postTeardown"] = <<>>]
    /\ UNCHANGED <<schema, append, strings, thrown, regs, config, apps, phase, sessions>>

initializePipelines ==
    /\ Quiet /\ phase = "inited" /\ pipelines = "none"
    /\ pipelines' = "made" /\ phase' = "piped"
    /\ UNCHANGED <<store, regs, config, apps, pass, ran, sessions>>

openPipelines ==
    /\ Quiet /\ phase = "piped"
    /\ pipelines' = "open" /\ phase' = "open"
    /\ UNCHANGED <<store, regs, config, apps, pass, ran, sessions>>

(* The running simulation names things. *)
CollectString(a) ==
    /\ Quiet /\ phase = "open" /\ a \in DOMAIN apps /\ a[1] \in StringUser
    /\ strings[a].ids < MaxStrings
    /\ getStringID(a)
    /\ UNCHANGED rest

(* destroyAll(), after an exception too: only the registrations survive.   *)
destroyAll ==
    /\ thrown \/ (phase # "none" /\ Quiet)
    /\ phase' = "none" /\ pass' = NoPass /\ config' = Fresh
    /\ apps' = NoApps /\ pipelines' = "none" /\ ran' = NotRun
    /\ thrown' = FALSE /\ schema' = {} /\ strings' = [o \in Owner |-> NoStrings]
    /\ UNCHANGED <<disk, work, tx, append, torn, regs, sessions>>

-----------------------------------------------------------------------------
(* The file is locked by another process at a statement or at COMMIT. *)
FileLocked ==
    /\ pass.busy < MaxBusy /\ Retry
    /\ LET c == IF pass.call = "strings" THEN "postTeardown" ELSE pass.call IN
       /\ pass' = [call |-> c, todo |-> WalkOf(c), busy |-> pass.busy + 1]
       /\ ran' = IF c \in Hook THEN [ran EXCEPT ![c] = <<>>] ELSE ran
    /\ UNCHANGED <<regs, config, apps, pipelines, phase, sessions>>

StepAppend ==
    /\ AppendStep
    /\ pass' = IF thrown' THEN NoPass ELSE pass
    /\ UNCHANGED <<regs, config, apps, pipelines, phase, ran, sessions>>

(* The process dies and another one starts. *)
Crash ==
    /\ StoreCrash
    /\ regs' = [kinds |-> <<>>, locked |-> FALSE]
    /\ config' = Fresh /\ apps' = NoApps /\ pipelines' = "none"
    /\ phase' = "none" /\ pass' = NoPass /\ ran' = NotRun
    /\ UNCHANGED sessions

-----------------------------------------------------------------------------
Configure ==
    \/ \E k \in Kind : registerApp(k)
    \/ \E newDb \in BOOLEAN : createAppManager(newDb)
    \/ RegisterAll
    \/ \E k \in Kind, n \in 1 .. MaxInst : enableApp(k, n)
    \/ \E k \in Kind, a \in Arg \ {Default} : parameterizeAppFactory(k, a)
    \/ \E k \in Kind, i \in Inst \ {0}, a \in Arg \ {Default} : parameterizeAppFactoryInstance(k, i, a)
    \/ \E o \in Orderings : setAppOrderingForHooks(o)
    \/ \E s \in UserSchema : AppendUserSchema(s)

Lifecycle ==
    \/ createEnabledApps
    \/ createSchemas \/ AppendAppSchema
    \/ postInit \/ CallHook \/ HookThrows \/ SaveStrings
    \/ initializePipelines \/ openPipelines
    \/ \E a \in AppId : CollectString(a)
    \/ postSimLoopTeardown \/ EndPreTeardown \/ EndTransaction
    \/ destroyAll

Next == Configure \/ Lifecycle \/ StepAppend \/ FileLocked \/ Crash

Spec == Init /\ [][Next]_vars

-----------------------------------------------------------------------------
(* Type invariant: the state of the managers and of the store, and what   *)
(* the call under way implies - a walk that runs hooks in a transaction,   *)
(* or appends schemas, holds one.                                          *)
TypeOK ==
    /\ StoreTypeOK
    /\ regs \in [kinds : Seq(Kind), locked : BOOLEAN]
    /\ config.default \subseteq Kind \ Nested /\ config.ordering \in Seq(Kind)
    /\ DOMAIN config.enabled \subseteq Kind /\ DOMAIN config.nested \subseteq Nested
    /\ DOMAIN apps \subseteq AppId /\ \A a \in DOMAIN apps : apps[a] \in Arg
    /\ pipelines \in {"none", "made", "open"}
    /\ phase \in {"none", "managed", "apps", "schemas", "inited", "piped", "open", "gone"}
    /\ pass.call \in Hook \cup {"none", "open", "schemas", "strings"}
    /\ pass.todo \in Seq(AppId) /\ pass.busy \in 0 .. MaxBusy
    /\ ran \in [Hook -> Seq(AppId)] /\ sessions \in 0 .. MaxSessions
    /\ tx = (pass.call \in {"schemas", "postInit", "postTeardown", "strings"})

(* One transaction spans the hooks of all apps (AppManager.hpp:513-518,   *)
(* 574-587): whatever locks, exceptions and crashes fall between them, a   *)
(* commit publishes the rows of every app's hook or of none.               *)
CommittedTogether ==
    [][LET new == disk'.rows \ disk.rows IN
       new = {} \/ \E h \in Hook : new = {<<h, a, sessions>> : a \in DOMAIN apps}]_vars

(* AppManager.hpp:324-353: once a hook has been called on all apps, the   *)
(* apps of a listed type come in the order of the list and before those of *)
(* unlisted types, which keep the map's order, and none is left out.       *)
Done(h) ==
    CASE h = "postInit"     -> phase \in {"inited", "piped", "open"}
      [] h = "preTeardown"  -> pass.call = "postTeardown"
      [] h = "postTeardown" -> pass.call = "postTeardown" /\ pass.todo = <<>>

Place(a) ==
    LET at == {n \in DOMAIN config.ordering : config.ordering[n] = a[1]}
    IN  IF at = {} THEN Len(config.ordering) + 1
                   ELSE CHOOSE n \in at : \A m \in at : n <= m

FirstCall(h, a) == CHOOSE i \in DOMAIN ran[h] :
                       ran[h][i] = a /\ \A j \in 1 .. i - 1 : ran[h][j] # a

HooksInOrder ==
    \A h \in Hook : Done(h) =>
        /\ {ran[h][i] : i \in DOMAIN ran[h]} = DOMAIN apps
        /\ \A a, b \in DOMAIN apps :
               (Place(a) < Place(b) \/ (Place(a) = Place(b) /\ Before(a, b)))
                   => FirstCall(h, a) < FirstCall(h, b)

(* When postInit() runs, every table an app declared is in the file as    *)
(* declared (AppManager.hpp:487-505).  An instance built by a factory of  *)
(* its own is excepted: its schema is asked of instance 0's factory (:494). *)
TablesReady ==
    (phase \in {"schemas", "inited", "piped", "open"} /\ ~thrown /\ ~torn) =>
        \A a \in DOMAIN apps :
            (0 \in DOMAIN Factories(a[1]) /\ apps[a] = Factories(a[1])[0])
                => TablesOf(SchemaOf[a[1]][apps[a]]) \subseteq disk.tables

(* After postSimLoopTeardown() every string that was given an id has its  *)
(* row (TinyStrings.hpp:83-121), unless the transaction was retried: the   *)
(* pending strings are cleared and TinyStringIDs enters schema_ before the *)
(* commit.                                                                 *)
StringsSaved ==
    (phase = "gone" /\ pass.call = "none" /\ pass.busy = 0) =>
        \A o \in Owner : \A id \in 1 .. strings[o].ids : <<o, id>> \in disk.strings
=============================================================================
