----------------------------- MODULE Lifecycle -----------------------------
(***************************************************************************)
(* A client from start to end, and the next one in the same process, after *)
(* it: run_client and its tasks (backend/lib.rs), the name resolver        *)
(* (backend/dns.rs), the bridge                                            *)
(* (frontend/rust/src/api/simple.rs), and the TUN device and its routes    *)
(* (module Tun).  ConnectService of the front end is the environment.      *)
(*                                                                         *)
(* Every run of run_client shares the statics of the process: the control  *)
(* channel, the solver of captchas, the token of the bridge, TUNNEL_ACTIVE *)
(* and the state of the TUN module.  Its tasks are: the client itself, the *)
(* worker groups, the configuration task, the control task and the task    *)
(* that keeps VK's hosts out of the tunnel.  A worker or that task calls   *)
(* exclude_host_ip; one call at a time per run is modelled, calls of two   *)
(* runs overlap.  A line sent to the control channel is received at once.  *)
(***************************************************************************)
EXTENDS Tun, Sequences

CONSTANTS
    Builds,             \* the builds: a subset of {"linux", "windows"}
    MaxRuns,            \* bound: clients started in this process
    WindowsRuns,        \* bound: the same, on Windows
    MaxConfigs,         \* bound: configurations a run receives
    PeerAttempts        \* resolve_peer: 15

ASSUME LifecycleConstants ==
    /\ Builds \subseteq {"linux", "windows"}
    /\ MaxRuns \in Nat /\ WindowsRuns \in Nat
    /\ MaxConfigs \in Nat /\ PeerAttempts \in Nat

Runs == 1 .. MaxRuns

VARIABLES
    build,          \* the build that runs
    control_tx,     \* CONTROL_TX: a run or 0
    captcha,        \* ACTIVE_CAPTCHA: a run or 0
    tunnel_active,  \* TUNNEL_ACTIVE
    tun,            \* the state of module Tun
    run,            \* the runs
    refused         \* history: excluded hosts whose route the system refused

vars == <<build, control_tx, captcha, tunnel_active, tun, run, refused>>
statics == <<control_tx, captcha, tunnel_active>>

Windows == build = "windows"

NewRun ==
    [pc |-> "none", at |-> 0, drained |-> {}, cancelled |-> FALSE, ok |-> FALSE,
     groups |-> FALSE, io |-> FALSE, ticker |-> FALSE,
     conf |-> "off", nets |-> FALSE, todo |-> {}, adding |-> {}, configs |-> 0, configured |-> FALSE,
     ex |-> "idle", exa |-> CHOOSE a \in Hosts : TRUE]

Go(r, step) == run' = [run EXCEPT ![r].pc = step]

\* On Linux the interface exists while a descriptor of it is open: DEVICE, the loops of
\* the dispatcher, or apply_tunconf, which holds a clone.
Alive(r) == tun.device = r \/ run[r].io \/ run[r].conf \notin {"off", "idle", "device"}

\* The device and the routes of this build.
Open(r) == IF Windows THEN AdapterOpened(tun, r) ELSE Opened(tun, r)
Close == IF Windows THEN CloseAdapter(tun) ELSE CloseDevice(tun)
Route(d) == IF Windows THEN RunRoute(tun, d) ELSE RouteAdd(tun, d)
Refusals(d) == IF Windows THEN {RunRouteFails(tun)} ELSE {RouteRefused(tun, d, there) : there \in BOOLEAN}
Refuse(d) == tun' \in Refusals(d)

\* run_client has been called and has not returned.
Up(r) == run[r].pc \notin {"none", "returned"}

-----------------------------------------------------------------------------
(***************************************************************************)
(* The host and the bridge                                                 *)
(***************************************************************************)
\* start_csqtt_client.  The next client starts when the last has returned; tasks it did
\* not wait for may still be there.
StartClient(r) ==
    /\ Windows => r <= WindowsRuns
    /\ run[r].pc = "none" /\ \A q \in 1 .. r - 1 : run[q].pc = "returned"
    /\ Go(r, "resolve")
    /\ UNCHANGED <<build, statics, tun, refused>>

\* stop_csqtt_client takes the token out of CANCEL_TOKEN and cancels it.
StopClient(r) ==
    /\ Up(r) /\ ~ run[r].cancelled
    /\ run' = [run EXCEPT ![r].cancelled = TRUE]
    /\ UNCHANGED <<build, statics, tun, refused>>

\* submit_control_line and the control task: STOP.
ControlLine(r) ==
    /\ control_tx = r /\ Up(r) /\ ~ run[r].cancelled
    /\ run' = [run EXCEPT ![r].cancelled = TRUE]
    /\ UNCHANGED <<build, statics, tun, refused>>

\* Ctrl-C, or the parent process is gone.
Signal(r) ==
    /\ run[r].pc = "running" /\ ~ run[r].cancelled
    /\ run' = [run EXCEPT ![r].cancelled = TRUE]
    /\ UNCHANGED <<build, statics, tun, refused>>

-----------------------------------------------------------------------------
(***************************************************************************)
(* run_client                                                              *)
(***************************************************************************)
\* DnsResolver::lookup: Yandex answers or refuses, and a timeout is taken to the
\* system's resolver as long as no tunnel was ever up.
Lookup(yandex, system) ==
    CASE yandex = "answers" -> TRUE
      [] yandex = "refuses" -> FALSE
      [] yandex = "timeout" -> ~ tunnel_active /\ system

\* resolve_peer, one attempt, then the calls of the JS mode, which may fail.
ResolvePeer(r) ==
    /\ run[r].pc = "resolve"
    /\ \E yandex \in {"answers", "refuses", "timeout"}, system, calls \in BOOLEAN :
         run' = IF Lookup(yandex, system)
                THEN [run EXCEPT ![r].pc = IF calls THEN "statics" ELSE "exit", ![r].at = 0]
                ELSE IF run[r].at + 1 < PeerAttempts
                THEN [run EXCEPT ![r].at = @ + 1]
                ELSE [run EXCEPT ![r].pc = "exit", ![r].at = 0]
    /\ UNCHANGED <<build, statics, tun, refused>>

\* The task for VK's hosts is spawned, the solver and the control channel are this run's.
SetStatics(r) ==
    /\ run[r].pc = "statics"
    /\ captcha' = r /\ control_tx' = r
    /\ run' = [run EXCEPT ![r].pc = "dispatch", ![r].ticker = TRUE]
    /\ UNCHANGED <<build, tunnel_active, tun, refused>>

\* Dispatcher::start opens the device and starts the loops, and the groups start.  On
\* Linux the name of the interface is taken as long as another run has it open.
DispatcherStarts(r) ==
    /\ run[r].pc = "dispatch"
    /\ Windows \/ \A q \in Runs : ~ Alive(q)
    /\ tun' = Open(r)
    /\ run' = [run EXCEPT ![r].pc = "running", ![r].io = TRUE, ![r].groups = TRUE,
                          ![r].conf = "idle"]
    /\ UNCHANGED <<build, statics, refused>>

\* It fails before or after the device was opened: run_client returns the error, with
\* its tasks, its statics and its device as they are.
DispatcherFails(r) ==
    /\ run[r].pc = "dispatch"
    /\ \/ UNCHANGED tun
       \/ /\ Windows \/ \A q \in Runs : ~ Alive(q)
          /\ tun' = Open(r)
    /\ Go(r, "exit")
    /\ UNCHANGED <<build, statics, refused>>

\* run_groups returns: cancelled, or every call is dead.
GroupsEnd(r) ==
    /\ run[r].groups
    /\ run' = [run EXCEPT ![r].groups = FALSE]
    /\ UNCHANGED <<build, statics, tun, refused>>

\* The select of run_client.
Select(r) ==
    /\ run[r].pc = "running" /\ (run[r].cancelled \/ ~ run[r].groups)
    /\ run' = [run EXCEPT ![r].pc = "drop", ![r].at = 1, ![r].cancelled = TRUE]
    /\ UNCHANGED <<build, statics, tun, refused>>

\* drop_interface_now and teardown, lock by lock.
Teardown(phase) ==
    IF ~ Windows THEN <<"gateway", "excludes", "drain", "delete", "device">>
    ELSE IF phase = "drop" THEN <<"device">>
    ELSE <<"nrpt", "drain", "delete", "gateway", "excludes", "device">>

TeardownStep(r, phase, next) ==
    LET step == Teardown(phase)[run[r].at]
    IN  /\ run[r].pc = phase
        /\ tun' \in CASE step = "gateway"  -> {ForgetGateway(tun)}
                      [] step = "excludes" -> {ForgetExcludes(tun)}
                      [] step = "nrpt"     -> {RemoveNrpt(tun, works) : works \in BOOLEAN}
                      [] step = "drain"    -> {DrainRecorded(tun)}
                      [] step = "delete"   -> {RouteDel(tun, run[r].drained, gone) : gone \in SUBSET run[r].drained}
                      [] step = "device"   -> {Close}
        /\ run' = [run EXCEPT
               ![r].drained = IF step = "drain" THEN tun.recorded ELSE IF step = "delete" THEN {} ELSE @,
               ![r].at = IF @ = Len(Teardown(phase)) THEN 0 ELSE @ + 1,
               ![r].pc = IF run[r].at = Len(Teardown(phase)) THEN next ELSE @]
        /\ refused' = IF step = "excludes" THEN {} ELSE refused
        /\ UNCHANGED <<build, statics>>

DropInterface(r) == TeardownStep(r, "drop", "groups")

AwaitGroups(r) ==
    /\ run[r].pc = "groups" /\ ~ run[r].groups
    /\ Go(r, "dispatcher")
    /\ UNCHANGED <<build, statics, tun, refused>>

\* The loops of the dispatcher see the token.
LoopsEnd(r) ==
    /\ run[r].io /\ run[r].cancelled
    /\ run' = [run EXCEPT ![r].io = FALSE]
    /\ UNCHANGED <<build, statics, tun, refused>>

\* Dispatcher::shutdown, then clear_control_channel and clear_active_captcha.
ClearStatics(r) ==
    /\ run[r].pc = "dispatcher" /\ ~ run[r].io
    /\ control_tx' = 0 /\ captcha' = 0
    /\ Go(r, "tasks")
    /\ UNCHANGED <<build, tunnel_active, tun, refused>>

\* Variant: the configuration task is aborted and not waited for.
AbortTasksOnly(r) ==
    /\ run[r].pc = "tasks"
    /\ run' = [run EXCEPT ![r].pc = "teardown", ![r].at = 1]
    /\ UNCHANGED <<build, statics, tun, refused>>

\* The tasks are aborted and awaited; apply_tunconf has no point where it could be
\* aborted.
AwaitTasks(r) ==
    /\ run[r].pc = "tasks" /\ run[r].conf = "idle"
    /\ run' = [run EXCEPT ![r].pc = "teardown", ![r].at = 1,
                          ![r].conf = "off"]
    /\ UNCHANGED <<build, statics, tun, refused>>

\* run_client returns Ok.
TearDown(r) == TeardownStep(r, "teardown", "stopped")

\* start_csqtt_client clears the token, of whichever run.
Exit(r) ==
    /\ run[r].pc \in {"exit", "stopped"}
    /\ run' = [run EXCEPT ![r].pc = "returned", ![r].ok = (run[r].pc = "stopped"),
                          ![r].configs = 0, ![r].configured = FALSE]
    /\ UNCHANGED <<build, statics, tun, refused>>

-----------------------------------------------------------------------------
(***************************************************************************)
(* exclude_host_ip                                                         *)
(***************************************************************************)
\* A worker on its way to a TURN server, or the task for VK's hosts, which nobody awaits.
Exclude(r, a) ==
    /\ run[r].ex = "idle"
    /\ run[r].groups \/ run[r].ticker
    /\ ~ Seen(tun, a)
    /\ tun' = Insert(tun, a)
    /\ run' = [run EXCEPT ![r].ex = "gateway", ![r].exa = a]
    /\ UNCHANGED <<build, statics, refused>>

\* Before the tunnel captures the traffic the address is only remembered.
ExcludeGateway(r) ==
    /\ run[r].ex = "gateway"
    /\ run' = [run EXCEPT ![r].ex = IF tun.gateway THEN "add" ELSE "idle"]
    /\ UNCHANGED <<build, statics, tun, refused>>

ExcludeAdd(r) ==
    /\ run[r].ex = "add"
    /\ \/ tun' = Route(run[r].exa)
          /\ run' = [run EXCEPT ![r].ex = "record"] /\ UNCHANGED refused
       \/ Refuse(run[r].exa)
          /\ run' = [run EXCEPT ![r].ex = "idle"] /\ refused' = refused \union {run[r].exa}
    /\ UNCHANGED <<build, statics>>

ExcludeRecord(r) ==
    /\ run[r].ex = "record"
    /\ tun' = Record(tun, run[r].exa)
    /\ run' = [run EXCEPT ![r].ex = "idle"]
    /\ UNCHANGED <<build, statics, refused>>

\* schedule_vk_endpoint_excludes ends between two rounds of lookups.
TickerEnds(r) ==
    /\ run[r].ticker /\ run[r].cancelled
    /\ run' = [run EXCEPT ![r].ticker = FALSE]
    /\ UNCHANGED <<build, statics, tun, refused>>

-----------------------------------------------------------------------------
(***************************************************************************)
(* The configuration task and apply_tunconf                                *)
(***************************************************************************)
Config(r, from, to) ==
    /\ run[r].conf = from
    /\ run' = [run EXCEPT ![r].conf = to]
    /\ UNCHANGED <<build, statics, refused>>

\* A configuration that differs from the last one.
ReceiveConfig(r) ==
    /\ run[r].conf = "idle" /\ run[r].configs < MaxConfigs
    /\ tunnel_active' = TRUE
    /\ run' = [run EXCEPT ![r].conf = IF Windows THEN "gateway" ELSE "device", ![r].configs = @ + 1]
    /\ UNCHANGED <<build, control_tx, captcha, tun, refused>>

\* apply_tunconf returns an error, which is logged.
ConfigFails(r) ==
    /\ run[r].conf \in {"gateway", "address", "halves", "captured"}
    /\ Config(r, run[r].conf, "idle") /\ UNCHANGED tun

\* The device, on Linux before anything else.
ReadDevice(r) ==
    /\ Config(r, "device", IF tun.device = 0 THEN "idle" ELSE "gateway")
    /\ UNCHANGED tun

\* The gateway, before the table is captured; Windows reads ADAPTER after it.
ReadGateway(r) ==
    /\ Config(r, "gateway", "address")
    /\ tun' = SetGateway(tun)

SetAddress(r) ==
    /\ ~ Windows
    /\ Config(r, "address", "halves") /\ UNCHANGED tun

\* set_address and configure_interface of the adapter, if there is one.
ConfigureAdapter(r) ==
    /\ Windows
    /\ Config(r, "address", IF tun.adapter = 0 THEN "idle" ELSE "stale") /\ UNCHANGED tun

Stale(r) ==
    /\ Config(r, "stale", "drain")
    /\ \E gone \in SUBSET {Subnets, NameServers}, halves \in BOOLEAN : tun' = DeleteStale(tun, gone, halves)

Drain(r) ==
    /\ Config(r, "drain", "halves")
    /\ \E gone \in SUBSET tun.excludes : tun' = DrainExcludes(tun, gone)

\* The half-routes; on Linux they must not be there yet.
CaptureTraffic(r) ==
    /\ Windows \/ \A q \in tun.captured : ~ Alive(q)
    /\ Config(r, "halves", "captured")
    /\ tun' = Capture(tun, r)

\* The subnets of VK; Windows keeps their names for later.
ExcludeSubnets(r) ==
    /\ run[r].conf = "captured"
    /\ \/ /\ tun' = Route(Subnets)
          /\ run' = [run EXCEPT ![r].conf = IF Windows THEN "deferred" ELSE "subnets", ![r].nets = TRUE]
       \/ /\ Refuse(Subnets)
          /\ run' = [run EXCEPT ![r].conf = "deferred", ![r].nets = FALSE]
    /\ UNCHANGED <<build, statics, refused>>

RecordSubnets(r) ==
    /\ Config(r, "subnets", "deferred")
    /\ tun' = Record(tun, Subnets)

\* Variant: the addresses seen so far are not looked at.
NothingDeferred(r) ==
    /\ run[r].conf = "deferred"
    /\ run' = [run EXCEPT ![r].conf = "defer"]
    /\ UNCHANGED <<build, statics, tun, refused>>

\* apply_deferred_excludes takes a copy of the addresses seen so far ...
TakeDeferred(r) ==
    /\ run[r].conf = "deferred"
    /\ run' = [run EXCEPT ![r].conf = "defer",
                          ![r].todo = IF Windows \/ tun.gateway THEN tun.excludes ELSE {}]
    /\ UNCHANGED <<build, statics, tun, refused>>

\* ... and adds a route for each; a refused one is logged and left out.
AddDeferred(r) ==
    /\ run[r].conf = "defer"
    /\ \E a \in run[r].todo :
         \/ /\ tun' = Route(a) /\ UNCHANGED refused
            /\ run' = [run EXCEPT ![r].conf = "record", ![r].todo = @ \ {a}, ![r].adding = {a}]
         \/ /\ Refuse(a) /\ refused' = refused \union {a}
            /\ run' = [run EXCEPT ![r].todo = @ \ {a}]
    /\ UNCHANGED <<build, statics>>

RecordDeferred(r) ==
    /\ run[r].conf = "record"
    /\ \E a \in run[r].adding : tun' = Record(tun, a)
    /\ run' = [run EXCEPT ![r].conf = "defer", ![r].adding = {}]
    /\ UNCHANGED <<build, statics, refused>>

\* Every address is out of the tunnel; Windows adds the routes of the name servers and
\* writes down what to remove.
Excluded(r) ==
    /\ run[r].conf = "defer" /\ run[r].todo = {}
    /\ IF Windows
       THEN \E servers \in SUBSET {NameServers} :
                tun' = RestartCleanup(tun, IF run[r].nets THEN {Subnets} ELSE {}, servers)
       ELSE UNCHANGED tun
    /\ run' = [run EXCEPT ![r].conf = "dns", ![r].nets = FALSE, ![r].configured = TRUE]
    /\ UNCHANGED <<build, statics, refused>>

\* set_dns; the name servers of the interface go with it.
SetDns(r) ==
    /\ ~ Windows
    /\ Config(r, "dns", "idle") /\ UNCHANGED tun

\* set_dns of the adapter, and unless it failed the rule of name resolution.
SetAdapterDns(r) ==
    /\ Windows
    /\ Config(r, "dns", "idle")
    /\ \/ \E removed, added \in BOOLEAN : tun' = SetNrpt(tun, removed, added)
       \/ UNCHANGED tun

-----------------------------------------------------------------------------
Init ==
    /\ build \in Builds
    /\ control_tx = 0 /\ captcha = 0 /\ tunnel_active = FALSE
    /\ tun = NoTun
    /\ run = [r \in Runs |-> NewRun]
    /\ refused = {}

ClientTask(r) ==
    \/ ResolvePeer(r) \/ SetStatics(r)
    \/ DispatcherStarts(r) \/ DispatcherFails(r) \/ Select(r) \/ DropInterface(r)
    \/ AwaitGroups(r) \/ ClearStatics(r) \/ AwaitTasks(r)
    \/ TearDown(r) \/ Exit(r)

ExcludeTask(r) == ExcludeGateway(r) \/ ExcludeAdd(r) \/ ExcludeRecord(r)

ConfigTask(r) ==
    \/ ConfigFails(r) \/ ReadDevice(r) \/ ReadGateway(r) \/ SetAddress(r)
    \/ ConfigureAdapter(r) \/ Stale(r)
    \/ Drain(r) \/ CaptureTraffic(r) \/ ExcludeSubnets(r) \/ RecordSubnets(r)
    \/ TakeDeferred(r) \/ AddDeferred(r) \/ RecordDeferred(r) \/ Excluded(r) \/ SetDns(r)
    \/ SetAdapterDns(r)

\* No client runs, and none is started.
Terminated ==
    /\ \A r \in Runs : ~ Up(r)
    /\ UNCHANGED vars

Next ==
    \/ \E r \in Runs :
         \/ StartClient(r) \/ StopClient(r) \/ ControlLine(r) \/ Signal(r) \/ ClientTask(r) \/ GroupsEnd(r) \/ LoopsEnd(r)
         \/ \E a \in Hosts : Exclude(r, a)
         \/ ExcludeTask(r) \/ TickerEnds(r) \/ ReceiveConfig(r) \/ ConfigTask(r)
    \/ Terminated

Spec == Init /\ [][Next]_vars

-----------------------------------------------------------------------------
TypeOK ==
    /\ control_tx \in Runs \union {0} /\ captcha \in Runs \union {0}
    /\ tunnel_active \in BOOLEAN /\ refused \subseteq Hosts
    /\ TunType(tun, Runs)

\* A route that was put into the table and is not yet written down.
InHand(r) ==
    (IF run[r].ex = "record" THEN {run[r].exa} ELSE {}) \union run[r].adding
        \union (IF run[r].conf = "subnets" THEN {Subnets} ELSE {})

\* On Linux every route that was put around the tunnel is one the code knows of: it is in
\* UPLINK_ROUTES for a teardown to find, or a teardown has taken it out to delete it, or
\* the task that added it is about to write it down; whatever tasks of whatever runs race
\* with a teardown.  What the system would not delete, or added and reported an error, is
\* excepted.  That a teardown still comes is not said: see NoRouteIsLeft.
RoutesAreRecorded ==
    ~ Windows => tun.table \subseteq tun.recorded \union tun.left
                                        \union UNION {run[r].drained \union InHand(r) : r \in Runs}

\* On Linux, once a configuration is applied, every address the client asked to keep
\* out of the tunnel has its route, unless the system refused it or the task that saw it
\* is still at work: an address seen while apply_tunconf runs is not lost between the
\* caller of exclude_host_ip and apply_deferred_excludes.
NoLoop ==
    \A r \in Runs :
        ~ Windows /\ run[r].pc = "running" /\ run[r].configured /\ run[r].conf = "idle"
            => tun.excludes \subseteq tun.table \union refused
                 \union {run[q].exa : q \in {p \in Runs : run[p].ex # "idle"}}

AllEndedWell == \A r \in Runs : run[r].pc # "none" => run[r].pc = "returned" /\ run[r].ok

\* A client that ended well leaves no device and no gateway in the statics, no rule of name
\* resolution and, on Linux, no route of VK's subnets, although its configuration task may
\* have been at work when it was cancelled: unless the system would not delete them.
TeardownHolds ==
    AllEndedWell =>
        /\ tun.device = 0 /\ ~ tun.gateway
        /\ tun.nrpt => NameRule \in tun.left
        /\ ~ Windows /\ Subnets \in tun.table => Subnets \in tun.left

\* Not a property of the code: a call of exclude_host_ip that outlives its client, and
\* read the gateway before the teardown, writes its route down after it.
NoRouteIsLeft == ~ Windows /\ AllEndedWell => tun.table \subseteq tun.left
=============================================================================
