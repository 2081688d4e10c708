-------------------------- MODULE LifecycleProofs --------------------------
(***************************************************************************)
(* The device and the routes around the tunnel, for any number of clients  *)
(* started one after the other in a process and any number of hosts.       *)
(*                                                                         *)
(* Clients follow one another (OneAtATime), so a teardown never runs       *)
(* beside a client that serves.  What may run beside everything else are   *)
(* the tasks nobody waits for: exclude_host_ip calls of clients that have  *)
(* returned.  The invariant follows each route and each address through    *)
(* the task that has it in hand.                                           *)
(*                                                                         *)
(* At the end, how the workers of a client come by the configuration that  *)
(* is applied here (ConfigFlight, which shares no variable with the rest). *)
(***************************************************************************)
EXTENDS Lifecycle, ConfigFlight, TLAPS

RunSteps == {"none", "resolve", "statics", "dispatch", "running", "drop", "groups",
             "dispatcher", "tasks", "teardown", "stopped", "exit", "returned"}

ConfSteps == {"off", "idle", "device", "gateway", "address", "stale", "drain", "halves",
              "captured", "subnets", "deferred", "defer", "record", "dns"}

RunRecord ==
    [pc : RunSteps, at : Nat, drained : SUBSET Destinations, cancelled : BOOLEAN, ok : BOOLEAN,
     groups : BOOLEAN, io : BOOLEAN, ticker : BOOLEAN,
     conf : ConfSteps, nets : BOOLEAN, todo : SUBSET Hosts, adding : SUBSET Hosts, configs : Nat,
     configured : BOOLEAN, ex : {"idle", "gateway", "add", "record"},
     exa : Hosts \union {CHOOSE a \in Hosts : TRUE}]

TunRecord ==
    [device : Runs \union {0}, adapter : Runs \union {0}, gateway : BOOLEAN,
     excludes : SUBSET Hosts, recorded : SUBSET Destinations, table : SUBSET Destinations,
     captured : SUBSET Runs, nrpt : BOOLEAN,
     left : SUBSET (Destinations \union {NameRule})]

RecordTypes ==
    /\ build \in {"linux", "windows"} /\ refused \subseteq Hosts
    /\ run \in [Runs -> RunRecord] /\ tun \in TunRecord

\* A client starts when those before it have returned, and the others wait.
OneAtATime ==
    \A q, r \in Runs : q < r /\ run[r].pc # "none" => run[q].pc = "returned"

\* No device was opened yet.
Early == {"none", "resolve", "statics", "dispatch"}

\* The configuration task exists.
Serving == {"running", "drop", "groups", "dispatcher", "tasks"}

\* What the tasks of a run hold fits where they are.
TasksFit(r) ==
    /\ run[r].conf # "off" => run[r].pc \in Serving
    /\ run[r].todo # {} => run[r].conf \in {"defer", "record"}
    /\ run[r].adding # {} => run[r].conf = "record"
    /\ \A a, b \in run[r].adding : a = b
    /\ run[r].ex # "idle" => run[r].exa \in Hosts
    /\ run[r].configured => run[r].pc \notin Early
    /\ ~ Windows => run[r].conf \notin {"stale", "drain"}

\* A teardown is at one of its steps, and has drained routes in hand at one of them only.
TeardownFits(r) ==
    /\ run[r].pc \in {"drop", "teardown"} => run[r].at \in 1 .. Len(Teardown(run[r].pc))
    /\ ~ Windows /\ run[r].drained # {} => run[r].pc \in {"drop", "teardown"} /\ run[r].at = 4

\* Past ReadGateway.
Routing == ConfSteps \ {"off", "idle", "device", "gateway"}

\* Addresses some call of exclude_host_ip has yet to put into the table.
ToExclude == {run[q].exa : q \in {p \in Runs : run[p].ex \in {"gateway", "add"}}}

\* From apply_deferred_excludes on no address is forgotten.  A caller that is about to
\* record its route does not count: a teardown may have removed the route meanwhile.
Covered(r) ==
    ~ Windows /\ run[r].pc = "running" =>
        /\ run[r].conf \in Routing \/ run[r].configured => tun.gateway
        /\ run[r].conf \in {"defer", "record", "dns"} \/ run[r].configured
              => tun.excludes \subseteq tun.table \union refused \union run[r].todo \union ToExclude

\* The rule of name resolution is gone, or the system would not delete it.
NoRule == tun.nrpt => NameRule \in tun.left

\* What a teardown has brought about when it is over, and no call of exclude_host_ip undoes.
Clean ==
    /\ tun.device = 0 /\ ~ tun.gateway /\ NoRule
    /\ ~ Windows => tun.recorded \subseteq Hosts

\* The steps of a teardown that are over.
TornDown(r) ==
    /\ run[r].pc = "teardown" /\ run[r].at > 1 =>
           IF Windows THEN NoRule /\ (run[r].at > 4 => ~ tun.gateway)
           ELSE ~ tun.gateway /\ (run[r].at > 3 => tun.recorded \subseteq Hosts)
    /\ run[r].pc = "stopped" => Clean

CleanBetweenClients ==
    /\ ~ Windows => ~ tun.nrpt
    /\ (\A r \in Runs : run[r].pc \in Early \/ (run[r].pc = "returned" /\ run[r].ok)) => Clean

LifeInv ==
    /\ RecordTypes /\ OneAtATime
    /\ \A r \in Runs : TasksFit(r) /\ TeardownFits(r) /\ Covered(r) /\ TornDown(r)
    /\ RoutesAreRecorded /\ CleanBetweenClients

-----------------------------------------------------------------------------
(***************************************************************************)
(* Types                                                                   *)
(***************************************************************************)
\* What teardown looks for by name is no host, and the rule is no route.
LEMMA Names == NameRule \notin Destinations /\ Subnets \notin Hosts /\ Subnets \in Destinations
    BY HostsAreHosts DEF NameRule, Subnets, NameServers, Destinations

\* The steps of drop_interface_now and of teardown.
LEMMA TeardownSteps ==
    /\ ~ Windows => \A phase : /\ Len(Teardown(phase)) = 5
                               /\ Teardown(phase)[1] = "gateway" /\ Teardown(phase)[2] = "excludes"
                               /\ Teardown(phase)[3] = "drain" /\ Teardown(phase)[4] = "delete"
                               /\ Teardown(phase)[5] = "device"
    /\ Windows => /\ Len(Teardown("drop")) = 1 /\ Teardown("drop")[1] = "device"
                  /\ Len(Teardown("teardown")) = 6
                  /\ Teardown("teardown")[1] = "nrpt" /\ Teardown("teardown")[2] = "drain"
                  /\ Teardown("teardown")[3] = "delete" /\ Teardown("teardown")[4] = "gateway"
                  /\ Teardown("teardown")[5] = "excludes" /\ Teardown("teardown")[6] = "device"
    BY DEF Teardown

LEMMA TypesInit == Init => RecordTypes
    BY LifecycleConstants DEF Init, RecordTypes, NewRun, NoTun, RunRecord, RunSteps, ConfSteps, TunRecord

\* A run is replaced by one of its type.
LEMMA Replaced ==
    ASSUME run \in [Runs -> RunRecord], NEW r \in Runs, NEW rec \in RunRecord, run' = [run EXCEPT ![r] = rec]
    PROVE  run' \in [Runs -> RunRecord]
    OBVIOUS

-----------------------------------------------------------------------------
(***************************************************************************)
(* Steps that touch neither the TUN module nor what the tasks hold         *)
(***************************************************************************)
\* The client goes from one step to another.
PcMove(r) ==
    \/ /\ run[r].pc = "none" /\ run'[r].pc = "resolve" /\ ~ run'[r].configured
       /\ \A q \in 1 .. r - 1 : run[q].pc = "returned"
    \/ /\ run[r].pc = "resolve" /\ run'[r].pc \in {"resolve", "statics", "exit"} /\ ~ run'[r].configured
    \/ /\ run[r].pc = "statics" /\ run'[r].pc = "dispatch" /\ ~ run'[r].configured
    \/ /\ run[r].pc = "running" /\ run'[r].pc = "drop" /\ run'[r].at = 1
    \/ /\ run[r].pc = "groups" /\ run'[r].pc = "dispatcher"
    \/ /\ run[r].pc = "dispatcher" /\ run'[r].pc = "tasks"
    \/ /\ run[r].pc \in {"exit", "stopped"} /\ run'[r].pc = "returned"
       /\ run'[r].ok = (run[r].pc = "stopped")

QuietMove(r) ==
    /\ UNCHANGED <<build, tun, refused>>
    /\ run' \in [Runs -> RunRecord]
    /\ \A q \in Runs \ {r} : run'[q] = run[q]
    /\ run'[r].conf = run[r].conf /\ run'[r].todo = run[r].todo /\ run'[r].adding = run[r].adding
    /\ run'[r].ex = run[r].ex /\ run'[r].exa = run[r].exa /\ run'[r].drained = run[r].drained
    /\ \/ /\ run'[r].pc = run[r].pc /\ run'[r].at = run[r].at
          /\ run'[r].ok = run[r].ok /\ run'[r].configured = run[r].configured
       \/ PcMove(r)

\* The steps of the host, the bridge and the client that are of this kind.
LEMMA QuietSteps ==
    ASSUME LifeInv, NEW r \in Runs,
           \/ StartClient(r) \/ StopClient(r) \/ ControlLine(r) \/ Signal(r) \/ ResolvePeer(r)
           \/ SetStatics(r) \/ GroupsEnd(r) \/ Select(r) \/ AwaitGroups(r)
           \/ LoopsEnd(r) \/ ClearStatics(r) \/ Exit(r) \/ TickerEnds(r)
    PROVE  QuietMove(r)
<1>0. run \in [Runs -> RunRecord] /\ run[r] \in RunRecord
    BY DEF LifeInv, RecordTypes
<1>c. run[r].configured => run[r].pc \notin Early
    BY DEF LifeInv, TasksFit
<1> USE DEF Go
<1>1. CASE StopClient(r) \/ ControlLine(r) \/ Signal(r)
    <2> DEFINE new == [run[r] EXCEPT !.cancelled = TRUE]
    <2>1. new \in RunRecord
        BY <1>0 DEF RunRecord
    <2>2. run' = [run EXCEPT ![r] = new]
        BY <1>1 DEF StopClient, ControlLine, Signal
    <2> QED
        BY <1>0, <1>1, <2>1, <2>2, Replaced DEF StopClient, ControlLine, Signal, QuietMove, RunRecord
<1>2. CASE GroupsEnd(r)
    <2> DEFINE new == [run[r] EXCEPT !.groups = FALSE]
    <2>1. new \in RunRecord
        BY <1>0 DEF RunRecord
    <2>2. run' = [run EXCEPT ![r] = new]
        BY <1>2 DEF GroupsEnd
    <2> QED
        BY <1>0, <1>2, <2>1, <2>2, Replaced DEF GroupsEnd, QuietMove, RunRecord
<1>3. CASE LoopsEnd(r)
    <2> DEFINE new == [run[r] EXCEPT !.io = FALSE]
    <2>1. new \in RunRecord
        BY <1>0 DEF RunRecord
    <2>2. run' = [run EXCEPT ![r] = new]
        BY <1>3 DEF LoopsEnd
    <2> QED
        BY <1>0, <1>3, <2>1, <2>2, Replaced DEF LoopsEnd, QuietMove, RunRecord
<1>4. CASE TickerEnds(r)
    <2> DEFINE new == [run[r] EXCEPT !.ticker = FALSE]
    <2>1. new \in RunRecord
        BY <1>0 DEF RunRecord
    <2>2. run' = [run EXCEPT ![r] = new]
        BY <1>4 DEF TickerEnds
    <2>3. run' \in [Runs -> RunRecord]
        BY <1>0, <2>1, <2>2, Replaced
    <2>4. UNCHANGED <<build, tun, refused>>
        BY <1>4 DEF TickerEnds
    <2> QED
        BY <1>0, <2>2, <2>3, <2>4 DEF QuietMove, RunRecord
<1>5. CASE StartClient(r)
    <2> DEFINE new == [run[r] EXCEPT !.pc = "resolve"]
    <2>1. new \in RunRecord
        BY <1>0 DEF RunRecord, RunSteps
    <2>2. run' = [run EXCEPT ![r] = new]
        BY <1>5 DEF StartClient
    <2> QED
        BY <1>0, <1>c, <1>5, <2>1, <2>2, Replaced DEF StartClient, QuietMove, PcMove, RunRecord, Early
<1>6. CASE ResolvePeer(r)
    <2>1. PICK p \in {"resolve", "statics", "exit"}, n \in Nat : run' = [run EXCEPT ![r].pc = p, ![r].at = n]
        <3>1. run[r].pc = "resolve" /\ run[r].at \in Nat
            BY <1>0, <1>6 DEF ResolvePeer, RunRecord
        <3>2. run[r] = [run[r] EXCEPT !.pc = "resolve"]
            BY <1>0, <3>1 DEF RunRecord
        <3>3. [run EXCEPT ![r].at = run[r].at + 1] = [run EXCEPT ![r].pc = "resolve", ![r].at = run[r].at + 1]
            BY <1>0, <3>2
        <3>4. PICK calls \in BOOLEAN :
                 \/ run' = [run EXCEPT ![r].pc = IF calls THEN "statics" ELSE "exit", ![r].at = 0]
                 \/ run' = [run EXCEPT ![r].at = @ + 1]
                 \/ run' = [run EXCEPT ![r].pc = "exit", ![r].at = 0]
            BY <1>6 DEF ResolvePeer
        <3> DEFINE Result(p, n) == run' = [run EXCEPT ![r].pc = p, ![r].at = n]
        <3>5. Result("statics", 0) \/ Result("exit", 0) \/ Result("resolve", run[r].at + 1)
            BY <3>3, <3>4
        <3>6. 0 \in Nat /\ run[r].at + 1 \in Nat
            BY <3>1
        <3> QED
            BY <3>5, <3>6
    <2> DEFINE new == [run[r] EXCEPT !.pc = p, !.at = n]
    <2>2. new \in RunRecord
        BY <1>0 DEF RunRecord, RunSteps
    <2>3. run' = [run EXCEPT ![r] = new]
        BY <2>1
    <2>4. run' \in [Runs -> RunRecord]
        BY <1>0, <2>2, <2>3, Replaced
    <2>5. UNCHANGED <<build, tun, refused>> /\ run[r].pc = "resolve"
        BY <1>6 DEF ResolvePeer
    <2>6. ~ run[r].configured
        BY <1>c, <2>5 DEF Early
    <2>7. run'[r].pc = p /\ run'[r].configured = run[r].configured
        BY <1>0, <2>3 DEF RunRecord
    <2>8. PcMove(r)
        BY <2>5, <2>6, <2>7 DEF PcMove
    <2> QED
        BY <1>0, <2>3, <2>4, <2>5, <2>8 DEF QuietMove, RunRecord
<1>7. CASE SetStatics(r)
    <2> DEFINE new == [run[r] EXCEPT !.pc = "dispatch", !.ticker = TRUE]
    <2>1. new \in RunRecord
        BY <1>0 DEF RunRecord, RunSteps
    <2>2. run' = [run EXCEPT ![r] = new]
        BY <1>7 DEF SetStatics
    <2> QED
        BY <1>0, <1>c, <1>7, <2>1, <2>2, Replaced DEF SetStatics, QuietMove, PcMove, RunRecord, Early
<1>8. CASE Select(r)
    <2> DEFINE new == [run[r] EXCEPT !.pc = "drop", !.at = 1, !.cancelled = TRUE]
    <2>1. new \in RunRecord
        BY <1>0 DEF RunRecord, RunSteps
    <2>2. run' = [run EXCEPT ![r] = new]
        BY <1>8 DEF Select
    <2> QED
        BY <1>0, <1>8, <2>1, <2>2, Replaced DEF Select, QuietMove, PcMove, RunRecord
<1>9. CASE AwaitGroups(r) \/ ClearStatics(r)
    <2> DEFINE new(p) == [run[r] EXCEPT !.pc = p]
    <2>1. new("dispatcher") \in RunRecord /\ new("tasks") \in RunRecord
        BY <1>0 DEF RunRecord, RunSteps
    <2>2. /\ AwaitGroups(r) => run' = [run EXCEPT ![r] = new("dispatcher")]
          /\ ClearStatics(r) => run' = [run EXCEPT ![r] = new("tasks")]
        BY DEF AwaitGroups, ClearStatics
    <2>3. run' \in [Runs -> RunRecord]
        BY <1>0, <1>9, <2>1, <2>2, Replaced
    <2> QED
        BY <1>0, <1>9, <2>2, <2>3 DEF AwaitGroups, ClearStatics, QuietMove, PcMove, RunRecord
<1>10. CASE Exit(r)
    <2> DEFINE new(o) == [run[r] EXCEPT !.pc = "returned", !.ok = o, !.configs = 0, !.configured = FALSE]
    <2>1. \A o \in BOOLEAN : new(o) \in RunRecord
        BY <1>0 DEF RunRecord, RunSteps
    <2>2. PICK o \in BOOLEAN : o = (run[r].pc = "stopped")
        BY Zenon
    <2>3. run' = [run EXCEPT ![r] = new(o)]
        BY <1>10, <2>2, Zenon DEF Exit
    <2>4. run' \in [Runs -> RunRecord]
        BY <1>0, <2>1, <2>3, Replaced
    <2>5. run'[r].ok = o /\ run'[r].pc = "returned"
        BY <1>0, <2>3 DEF RunRecord
    <2>6. PcMove(r)
        BY <1>10, <2>2, <2>5 DEF PcMove, Exit
    <2> QED
        BY <1>0, <1>10, <2>3, <2>4, <2>6 DEF Exit, QuietMove, RunRecord
<1> QED
    BY <1>1, <1>2, <1>3, <1>4, <1>5, <1>6, <1>7, <1>8, <1>9, <1>10

\* What the tasks of a run have put into the table and not yet written down.
Kept(r) == run[r].drained \union InHand(r)

\* The routes are still accounted for when nothing leaves the records, a task's hands or
\* what the system would not delete.
LEMMA RoutesStay ==
    ASSUME RoutesAreRecorded, UNCHANGED build,
           ~ Windows => tun.recorded \subseteq tun'.recorded,
           \A q \in Runs : Kept(q) \subseteq Kept(q)',
           ~ Windows => \A d \in tun'.table :
               \/ d \in tun'.recorded \union tun'.left
               \/ \E q \in Runs : d \in Kept(q)'
               \/ d \in tun.table \ tun.left
    PROVE  RoutesAreRecorded'
    BY DEF RoutesAreRecorded, Kept, Windows

LEMMA QuietKeeps ==
    ASSUME LifeInv, NEW r \in Runs, QuietMove(r)
    PROVE  LifeInv'
<1> USE DEF LifeInv
<1>1. RecordTypes'
    BY DEF QuietMove, RecordTypes
<1>2. OneAtATime'
    BY LifecycleConstants DEF QuietMove, PcMove, OneAtATime, Runs
<1>3. \A q \in Runs : TasksFit(q)'
    BY DEF QuietMove, PcMove, TasksFit, Windows, Serving, Early
<1>4. \A q \in Runs : TeardownFits(q)'
    <2>1. ASSUME NEW q \in Runs \ {r} PROVE TeardownFits(q)'
        BY <2>1 DEF QuietMove, TeardownFits, Teardown, Windows
    <2>2. CASE PcMove(r)
        <3>1. run'[r].pc \notin {"drop", "teardown"} \/ (run'[r].pc = "drop" /\ run'[r].at = 1)
            BY <2>2 DEF PcMove
        <3>2. run[r].pc \notin {"drop", "teardown"}
            BY <2>2 DEF PcMove
        <3>3. 1 \in 1 .. Len(Teardown("drop"))'
            BY TeardownSteps DEF Teardown, Windows, QuietMove
        <3>4. run'[r].pc = "drop" => Len(Teardown(run[r].pc))' = Len(Teardown("drop"))'
            BY DEF Teardown
        <3>5. run'[r].pc \in {"drop", "teardown"} => run'[r].at \in 1 .. Len(Teardown(run[r].pc))'
            BY <3>1, <3>3, <3>4
        <3>6. ~ Windows => run'[r].drained = {}
            BY <3>2 DEF QuietMove, TeardownFits
        <3>7. TeardownFits(r)'
            BY <3>5, <3>6 DEF QuietMove, TeardownFits, Windows
        <3> QED
            BY <2>1, <3>7
    <2>3. CASE run'[r].pc = run[r].pc /\ run'[r].at = run[r].at
        BY <2>3 DEF QuietMove, TeardownFits, Teardown, Windows
    <2> QED
        BY <2>1, <2>2, <2>3 DEF QuietMove
<1>5. ToExclude' = ToExclude
    BY DEF QuietMove, ToExclude
<1>6. \A q \in Runs : Covered(q)'
    BY <1>5 DEF QuietMove, PcMove, Covered, Windows
<1>7. \A q \in Runs : TornDown(q)'
    BY DEF QuietMove, PcMove, TornDown, Windows, Clean, NoRule
<1>8. RoutesAreRecorded'
    BY RoutesStay DEF QuietMove, Kept, InHand
<1>9. CleanBetweenClients'
    BY DEF QuietMove, PcMove, CleanBetweenClients, TornDown, Windows, Clean, NoRule, Early
<1> QED
    BY <1>1, <1>2, <1>3, <1>4, <1>6, <1>7, <1>8, <1>9

-----------------------------------------------------------------------------
(***************************************************************************)
(* Steps of the tasks                                                      *)
(***************************************************************************)
\* While a client is up the others have returned or not begun.
LEMMA OnlyOneUp ==
    ASSUME LifeInv, NEW r \in Runs, Up(r), NEW q \in Runs \ {r}
    PROVE  run[q].pc \in {"none", "returned"} /\ run[q].conf = "off"
<1>1. run[q].pc \in {"none", "returned"}
    <2>1. q < r \/ r < q
        BY LifecycleConstants DEF Runs
    <2> QED
        BY <2>1 DEF LifeInv, OneAtATime, Up
<1> QED
    BY <1>1 DEF LifeInv, TasksFit, Serving

\* A task of a run makes a step: the client stays where it is.
TaskMove(r) ==
    /\ UNCHANGED build /\ tun' \in TunRecord /\ refused' \subseteq Hosts
    /\ run' \in [Runs -> RunRecord]
    /\ \A q \in Runs \ {r} : run'[q] = run[q]
    /\ run'[r].pc = run[r].pc /\ run'[r].at = run[r].at
    /\ run'[r].ok = run[r].ok /\ run'[r].drained = run[r].drained
    /\ tun'.device = tun.device
    /\ \/ /\ tun'.gateway = tun.gateway /\ tun'.nrpt = tun.nrpt
          /\ tun'.recorded \subseteq tun.recorded \union Hosts
          /\ NameRule \in tun.left => NameRule \in tun'.left
       \/ run[r].conf # "off" /\ (tun'.nrpt = tun.nrpt \/ Windows)

LEMMA TaskKeeps ==
    ASSUME LifeInv, NEW r \in Runs, TaskMove(r), TasksFit(r)', RoutesAreRecorded',
           \A q \in Runs : Covered(q)'
    PROVE  LifeInv'
<1> USE DEF LifeInv
<1>1. RecordTypes'
    BY DEF TaskMove, RecordTypes
<1>2. OneAtATime'
    BY DEF TaskMove, OneAtATime
<1>3. \A q \in Runs : TasksFit(q)'
    BY DEF TaskMove, TasksFit, Windows
<1>4. \A q \in Runs : TeardownFits(q)'
    BY DEF TaskMove, TeardownFits, Teardown, Windows
<1>5. CASE /\ tun'.gateway = tun.gateway /\ tun'.nrpt = tun.nrpt
           /\ tun'.recorded \subseteq tun.recorded \union Hosts
           /\ NameRule \in tun.left => NameRule \in tun'.left
    <2>0. (NoRule => NoRule') /\ (tun.recorded \subseteq Hosts => tun'.recorded \subseteq Hosts)
        BY <1>5 DEF NoRule
    <2>1. \A q \in Runs : TornDown(q)'
        BY <1>5, <2>0 DEF TaskMove, TornDown, Windows, Clean
    <2>2. CleanBetweenClients'
        BY <1>5, <2>0 DEF TaskMove, CleanBetweenClients, Windows, Clean
    <2> QED
        BY <1>1, <1>2, <1>3, <1>4, <2>1, <2>2
<1>6. CASE run[r].conf # "off" /\ (tun'.nrpt = tun.nrpt \/ Windows)
    <2>1. run[r].pc \in Serving
        BY <1>6 DEF TasksFit
    <2>2. Up(r)
        BY <2>1 DEF Up, Serving
    <2>3. \A q \in Runs \ {r} : run[q].pc \in {"none", "returned"}
        BY <2>2, OnlyOneUp
    <2>4. \A q \in Runs : TornDown(q)'
        BY <2>1, <2>3 DEF TaskMove, TornDown, Serving
    <2>5. CleanBetweenClients'
        BY <1>6, <2>1 DEF TaskMove, CleanBetweenClients, Windows, Serving, Early
    <2> QED
        BY <1>1, <1>2, <1>3, <1>4, <2>4, <2>5
<1> QED
    BY <1>5, <1>6 DEF TaskMove

\* The configuration task matters for its own client only.
LEMMA ConfCovered ==
    ASSUME LifeInv, NEW r \in Runs, TaskMove(r), run[r].conf # "off", Covered(r)'
    PROVE  \A q \in Runs : Covered(q)'
<1>1. run[r].pc \in Serving
    BY DEF LifeInv, TasksFit
<1>2. Up(r)
    BY <1>1 DEF Up, Serving
<1>3. \A q \in Runs \ {r} : run'[q].pc \in {"none", "returned"}
    BY <1>2, OnlyOneUp DEF TaskMove
<1> QED
    BY <1>3 DEF Covered

\* The configuration task goes on without a route to keep count of.
PlainConf(r) ==
    /\ TaskMove(r) /\ UNCHANGED refused
    /\ ~ Windows => /\ tun'.excludes = tun.excludes /\ tun'.table = tun.table
                    /\ tun'.recorded = tun.recorded /\ tun'.left = tun.left
    /\ run'[r].todo = run[r].todo /\ run'[r].adding = run[r].adding
    /\ run'[r].ex = run[r].ex /\ run'[r].exa = run[r].exa /\ run'[r].configured = run[r].configured
    /\ run[r].conf \notin {"off", "subnets", "defer", "record"}
    /\ run'[r].conf \notin {"off", "subnets", "defer", "record", "dns"}
    /\ tun'.gateway \/ tun'.gateway = tun.gateway
    /\ run'[r].conf \in Routing => run[r].conf \in Routing \/ tun'.gateway
    /\ ~ Windows => run'[r].conf \notin {"stale", "drain"}

LEMMA PlainConfKeeps ==
    ASSUME LifeInv, NEW r \in Runs, PlainConf(r)
    PROVE  LifeInv'
<1> USE DEF PlainConf
<1>1. TasksFit(r)'
    BY DEF LifeInv, TaskMove, TasksFit, Windows
<1>2. ToExclude' = ToExclude
    BY DEF TaskMove, ToExclude
<1>3. Covered(r)'
    <2>0. Covered(r) /\ tun.gateway \in BOOLEAN
        BY DEF LifeInv, RecordTypes, TunRecord
    <2> QED
        BY <1>2, <2>0 DEF TaskMove, Covered, Windows
<1>4. RoutesAreRecorded'
    <2>1. CASE Windows
        BY <2>1 DEF RoutesAreRecorded, Windows, TaskMove
    <2>2. CASE ~ Windows
        BY <2>2, RoutesStay DEF LifeInv, TaskMove, Kept, InHand
    <2> QED
        BY <2>1, <2>2
<1> QED
    BY <1>1, <1>3, <1>4, TaskKeeps, ConfCovered

\* The steps of apply_tunconf that are of this kind.
LEMMA PlainConfSteps ==
    ASSUME LifeInv, NEW r \in Runs,
           \/ ReceiveConfig(r) \/ ConfigFails(r) \/ ReadDevice(r) \/ ReadGateway(r) \/ SetAddress(r)
           \/ ConfigureAdapter(r) \/ Stale(r) \/ Drain(r) \/ CaptureTraffic(r) \/ SetDns(r) \/ SetAdapterDns(r)
    PROVE  PlainConf(r)
<1>0. run \in [Runs -> RunRecord] /\ run[r] \in RunRecord /\ tun \in TunRecord /\ refused \subseteq Hosts
    BY DEF LifeInv, RecordTypes
<1>w. ~ Windows => run[r].conf \notin {"stale", "drain"}
    BY DEF LifeInv, TasksFit
<1> DEFINE Simple(from, to) ==
        /\ run[r].conf = from /\ run' = [run EXCEPT ![r].conf = to] /\ UNCHANGED <<build, refused>>
<1>1. ASSUME NEW from \in ConfSteps \ {"off", "subnets", "defer", "record"},
             NEW to \in ConfSteps \ {"off", "subnets", "defer", "record", "dns"},
             Simple(from, to), tun' \in TunRecord, tun'.device = tun.device,
             tun'.nrpt = tun.nrpt \/ Windows,
             tun'.gateway \/ tun'.gateway = tun.gateway,
             to \in Routing => from \in Routing \/ tun'.gateway,
             ~ Windows => to \notin {"stale", "drain"},
             ~ Windows => /\ tun'.excludes = tun.excludes /\ tun'.table = tun.table
                          /\ tun'.recorded = tun.recorded /\ tun'.left = tun.left
      PROVE  PlainConf(r)
    <2> DEFINE new == [run[r] EXCEPT !.conf = to]
    <2>1. new \in RunRecord
        BY <1>0, <1>1 DEF RunRecord
    <2>2. run' = [run EXCEPT ![r] = new]
        BY <1>1
    <2>3. run' \in [Runs -> RunRecord]
        BY <1>0, <2>1, <2>2, Replaced
    <2>4. /\ \A q \in Runs \ {r} : run'[q] = run[q]
          /\ run'[r].conf = to /\ run'[r].pc = run[r].pc /\ run'[r].at = run[r].at
          /\ run'[r].ok = run[r].ok /\ run'[r].drained = run[r].drained
          /\ run'[r].todo = run[r].todo /\ run'[r].adding = run[r].adding
          /\ run'[r].ex = run[r].ex /\ run'[r].exa = run[r].exa /\ run'[r].configured = run[r].configured
        BY <1>0, <2>2 DEF RunRecord
    <2>5. TaskMove(r)
        BY <1>0, <1>1, <2>3, <2>4 DEF TaskMove
    <2> QED
        BY <1>1, <2>4, <2>5 DEF PlainConf
<1> HIDE DEF Simple
<1> USE DEF Config, ConfSteps, Routing
<1>2. CASE ConfigFails(r)
    <2>1. Simple(run[r].conf, "idle") /\ tun' = tun /\ run[r].conf \in {"gateway", "address", "halves", "captured"}
        BY <1>2 DEF ConfigFails, Simple
    <2> QED
        BY <1>0, <1>1, <2>1
<1>3. CASE ReadDevice(r)
    <2>1. tun' = tun /\ (Simple("device", "idle") \/ Simple("device", "gateway"))
        BY <1>3 DEF ReadDevice, Simple
    <2> QED
        BY <1>0, <1>1, <2>1
<1>4. CASE ReadGateway(r)
    <2>1. tun' = SetGateway(tun) /\ Simple("gateway", "address")
        BY <1>4 DEF ReadGateway, Simple
    <2>2. /\ tun' \in TunRecord /\ tun'.gateway /\ tun'.device = tun.device /\ tun'.nrpt = tun.nrpt
          /\ tun'.excludes = tun.excludes /\ tun'.table = tun.table /\ tun'.recorded = tun.recorded
          /\ tun'.left = tun.left
        BY <1>0, <2>1 DEF SetGateway, TunRecord
    <2> QED
        BY <1>1, <2>1, <2>2
<1>5. CASE SetAddress(r)
    <2>1. tun' = tun /\ Simple("address", "halves")
        BY <1>5 DEF SetAddress, Simple
    <2> QED
        BY <1>0, <1>1, <2>1
<1>6. CASE ConfigureAdapter(r)
    <2>1. tun' = tun /\ Windows /\ (Simple("address", "idle") \/ Simple("address", "stale"))
        BY <1>6 DEF ConfigureAdapter, Simple
    <2> QED
        BY <1>0, <1>1, <2>1
<1>7. CASE Stale(r)
    <2>1. PICK gone \in SUBSET {Subnets, NameServers}, halves \in BOOLEAN :
              tun' = DeleteStale(tun, gone, halves) /\ Simple("stale", "drain")
        BY <1>7 DEF Stale, Simple
    <2>2. Windows
        BY <1>w, <2>1 DEF Simple
    <2>3. tun' \in TunRecord /\ tun'.gateway = tun.gateway /\ tun'.device = tun.device /\ tun'.nrpt = tun.nrpt
        BY <1>0, <2>1 DEF DeleteStale, RouteDel, TunRecord, Destinations
    <2> QED
        BY <1>1, <2>1, <2>2, <2>3
<1>8. CASE Drain(r)
    <2>1. PICK gone \in SUBSET tun.excludes : tun' = DrainExcludes(tun, gone) /\ Simple("drain", "halves")
        BY <1>8 DEF Drain, Simple
    <2>2. Windows
        BY <1>w, <2>1 DEF Simple
    <2>3. tun' \in TunRecord /\ tun'.gateway = tun.gateway /\ tun'.device = tun.device /\ tun'.nrpt = tun.nrpt
        BY <1>0, <2>1 DEF DrainExcludes, RouteDel, TunRecord, Destinations
    <2> QED
        BY <1>1, <2>1, <2>2, <2>3
<1>9. CASE CaptureTraffic(r)
    <2>1. tun' = Capture(tun, r) /\ Simple("halves", "captured")
        BY <1>9 DEF CaptureTraffic, Simple
    <2>2. /\ tun' \in TunRecord /\ tun'.gateway = tun.gateway /\ tun'.device = tun.device /\ tun'.nrpt = tun.nrpt
          /\ tun'.excludes = tun.excludes /\ tun'.table = tun.table /\ tun'.recorded = tun.recorded
          /\ tun'.left = tun.left
        BY <1>0, <2>1 DEF Capture, TunRecord
    <2> QED
        BY <1>1, <2>1, <2>2
<1>10. CASE SetDns(r)
    <2>1. tun' = tun /\ Simple("dns", "idle")
        BY <1>10 DEF SetDns, Simple
    <2> QED
        BY <1>0, <1>1, <2>1
<1>11. CASE SetAdapterDns(r)
    <2>1. /\ Windows /\ Simple("dns", "idle")
          /\ (\E removed, added \in BOOLEAN : tun' = SetNrpt(tun, removed, added)) \/ tun' = tun
        BY <1>11 DEF SetAdapterDns, Simple
    <2>2. tun' \in TunRecord /\ tun'.gateway = tun.gateway /\ tun'.device = tun.device
      <3> DEFINE Fits(t) == t \in TunRecord /\ t.gateway = tun.gateway /\ t.device = tun.device
      <3>1. \A removed \in BOOLEAN : Fits(RemoveNrpt(tun, removed))
        BY <1>0 DEF RemoveNrpt, TunRecord
      <3>2. ASSUME NEW t, Fits(t), NEW added \in BOOLEAN
            PROVE  Fits(AddNrpt(t, added))
        BY <3>2 DEF AddNrpt, TunRecord
      <3>3. \A removed, added \in BOOLEAN : Fits(SetNrpt(tun, removed, added))
        <4> HIDE DEF Fits
        <4> QED
            BY <3>1, <3>2 DEF SetNrpt
      <3> QED
        BY <1>0, <2>1, <3>3
    <2> QED
        BY <1>1, <2>1, <2>2
<1>12. CASE ReceiveConfig(r)
    <2>1. PICK to \in {"gateway", "device"} : run' = [run EXCEPT ![r].conf = to, ![r].configs = @ + 1]
        BY <1>12 DEF ReceiveConfig
    <2>2. UNCHANGED <<build, tun, refused>> /\ run[r].conf = "idle"
        BY <1>12 DEF ReceiveConfig
    <2> DEFINE new == [run[r] EXCEPT !.conf = to, !.configs = @ + 1]
    <2>3. new \in RunRecord
        <3>1. PICK n \in Nat : n = run[r].configs + 1
            BY <1>0 DEF RunRecord
        <3>2. [run[r] EXCEPT !.conf = to, !.configs = n] \in RunRecord
            BY <1>0 DEF RunRecord
        <3> QED
            BY <3>1, <3>2
    <2>4. run' = [run EXCEPT ![r] = new]
        BY <2>1
    <2>5. run' \in [Runs -> RunRecord]
        BY <1>0, <2>3, <2>4, Replaced
    <2>6. /\ \A q \in Runs \ {r} : run'[q] = run[q]
          /\ run'[r].conf = to /\ run'[r].pc = run[r].pc /\ run'[r].at = run[r].at
          /\ run'[r].ok = run[r].ok /\ run'[r].drained = run[r].drained
          /\ run'[r].todo = run[r].todo /\ run'[r].adding = run[r].adding
          /\ run'[r].ex = run[r].ex /\ run'[r].exa = run[r].exa /\ run'[r].configured = run[r].configured
        BY <1>0, <2>4 DEF RunRecord
    <2>7. TaskMove(r)
        BY <1>0, <2>2, <2>5, <2>6 DEF TaskMove
    <2> QED
        BY <2>2, <2>6, <2>7 DEF PlainConf
<1> QED
    BY <1>2, <1>3, <1>4, <1>5, <1>6, <1>7, <1>8, <1>9, <1>10, <1>11, <1>12

\* The two properties of the routes are about Linux.
LEMMA OnWindows ==
    ASSUME Windows, UNCHANGED build
    PROVE  RoutesAreRecorded' /\ \A q \in Runs : Covered(q)'
    BY DEF RoutesAreRecorded, Covered, Windows

\* What a route that is added changes.
LEMMA AddedRoute ==
    ASSUME tun \in TunRecord, NEW d \in Destinations, tun' = RunRoute(tun, d) \/ tun' = RouteAdd(tun, d)
    PROVE  /\ tun' \in TunRecord /\ tun'.device = tun.device /\ tun'.gateway = tun.gateway
           /\ tun'.nrpt = tun.nrpt /\ tun'.excludes = tun.excludes /\ tun'.recorded = tun.recorded
           /\ tun'.table = tun.table \union {d} /\ tun'.left = tun.left \ {d}
<1>1. tun' = [tun EXCEPT !.table = tun.table \union {d}, !.left = tun.left \ {d}]
    BY DEF RunRoute, RouteAdd
<1>2. tun.table \union {d} \subseteq Destinations /\ tun.left \ {d} \subseteq Destinations \union {NameRule}
    BY DEF TunRecord
<1> QED
    BY <1>1, <1>2 DEF TunRecord

\* A destination that is refused: on Windows the command changes nothing.
LEMMA Refusing ==
    ASSUME NEW d, Refuse(d)
    PROVE  IF Windows THEN tun' = RunRouteFails(tun) ELSE \E there \in BOOLEAN : tun' = RouteRefused(tun, d, there)
<1>1. CASE Windows
    BY <1>1, Zenon DEF Refuse, Refusals
<1>2. CASE ~ Windows
    BY <1>2, Zenon DEF Refuse, Refusals
<1> QED
    BY <1>1, <1>2

\* What a refused route changes.
LEMMA RefusedHost ==
    ASSUME tun \in TunRecord, NEW a \in Hosts, Refuse(a)
    PROVE  /\ tun' \in TunRecord /\ tun'.device = tun.device /\ tun'.gateway = tun.gateway
           /\ tun'.nrpt = tun.nrpt /\ tun'.excludes = tun.excludes /\ tun'.recorded = tun.recorded
           /\ tun.left \ {a} \subseteq tun'.left /\ tun.table \ {a} \subseteq tun'.table
           /\ ~ Windows => /\ tun'.table \subseteq tun.table \union tun'.left
                           /\ tun.left \intersect tun'.table \subseteq tun'.left
<1>1. CASE Windows
    <2>1. tun' = tun
        BY <1>1, Refusing DEF RunRouteFails
    <2> QED
        BY <1>1, <2>1
<1>2. CASE ~ Windows
    <2>1. PICK there \in BOOLEAN : tun' = RouteRefused(tun, a, there)
        BY <1>2, Refusing
    <2>2. CASE there
        BY <2>1, <2>2 DEF RouteRefused, TunRecord, Destinations
    <2>3. CASE ~ there
        BY <2>1, <2>3 DEF RouteRefused, TunRecord, Destinations
    <2> QED
        BY <2>2, <2>3
<1> QED
    BY <1>1, <1>2

\* The subnets of VK are no host; a destination is added, refused or recorded.
LEMMA SubnetsSteps ==
    ASSUME LifeInv, NEW r \in Runs, ExcludeSubnets(r) \/ RecordSubnets(r)
    PROVE  LifeInv'
<1>0. /\ run \in [Runs -> RunRecord] /\ run[r] \in RunRecord /\ tun \in TunRecord /\ refused \subseteq Hosts
      /\ TasksFit(r) /\ Covered(r) /\ RoutesAreRecorded
    BY DEF LifeInv, RecordTypes
<1> DEFINE from == run[r].conf
           new(to, nets) == [run[r] EXCEPT !.conf = to, !.nets = nets]
<1>1. PICK to \in {"subnets", "deferred"}, nets \in BOOLEAN : run' = [run EXCEPT ![r].conf = to, ![r].nets = nets]
    <2>1. CASE ExcludeSubnets(r)
        BY <2>1 DEF ExcludeSubnets
    <2>2. CASE RecordSubnets(r)
        <3>1. [run EXCEPT ![r].conf = "deferred"] = [run EXCEPT ![r].conf = "deferred", ![r].nets = run[r].nets]
            <4>1. [run[r] EXCEPT !.conf = "deferred"] = [run[r] EXCEPT !.conf = "deferred", !.nets = run[r].nets]
                BY <1>0 DEF RunRecord
            <4> QED
                BY <1>0, <4>1
        <3>2. run[r].nets \in BOOLEAN
            BY <1>0 DEF RunRecord
        <3> QED
            BY <2>2, <3>1, <3>2 DEF RecordSubnets, Config
    <2> QED
        BY <2>1, <2>2
<1>2. from \in {"captured", "subnets"} /\ UNCHANGED <<build, refused>>
    BY DEF ExcludeSubnets, RecordSubnets, Config
<1>3. new(to, nets) \in RunRecord
    BY <1>0 DEF RunRecord, ConfSteps
<1>4. run' = [run EXCEPT ![r] = new(to, nets)]
    BY <1>1
<1>5. run' \in [Runs -> RunRecord]
    BY <1>0, <1>3, <1>4, Replaced
<1>6. /\ \A q \in Runs \ {r} : run'[q] = run[q]
      /\ run'[r].conf = to /\ run'[r].pc = run[r].pc /\ run'[r].at = run[r].at
      /\ run'[r].ok = run[r].ok /\ run'[r].drained = run[r].drained
      /\ run'[r].todo = run[r].todo /\ run'[r].adding = run[r].adding
      /\ run'[r].ex = run[r].ex /\ run'[r].exa = run[r].exa /\ run'[r].configured = run[r].configured
    BY <1>0, <1>4 DEF RunRecord
<1>7. /\ tun' \in TunRecord /\ tun'.device = tun.device /\ tun'.gateway = tun.gateway /\ tun'.nrpt = tun.nrpt
      /\ tun'.excludes = tun.excludes
    <2>1. Subnets \in Destinations
        BY Names
    <2>2. CASE tun' = RunRoute(tun, Subnets) \/ tun' = RouteAdd(tun, Subnets)
        BY <1>0, <2>2, AddedRoute, <2>1
    <2>3. CASE tun' = RunRouteFails(tun)
        BY <1>0, <2>3 DEF RunRouteFails
    <2>4. CASE \E there \in BOOLEAN : tun' = RouteRefused(tun, Subnets, there)
        <3>1. PICK there \in BOOLEAN : tun' = RouteRefused(tun, Subnets, there)
            BY <2>4
        <3>2. CASE there
            BY <1>0, <2>1, <3>1, <3>2 DEF RouteRefused, TunRecord
        <3>3. CASE ~ there
            BY <1>0, <2>1, <3>1, <3>3 DEF RouteRefused, TunRecord
        <3> QED
            BY <3>2, <3>3
    <2>5. CASE tun' = Record(tun, Subnets)
        BY <1>0, <2>1, <2>5 DEF Record, TunRecord
    <2>6. ExcludeSubnets(r) => tun' = Route(Subnets) \/ Refuse(Subnets)
        BY DEF ExcludeSubnets
    <2>7. tun' = Route(Subnets) => tun' = RunRoute(tun, Subnets) \/ tun' = RouteAdd(tun, Subnets)
        BY DEF Route
    <2>8. Refuse(Subnets) => tun' = RunRouteFails(tun) \/ \E there \in BOOLEAN : tun' = RouteRefused(tun, Subnets, there)
        BY Refusing
    <2>9. RecordSubnets(r) => tun' = Record(tun, Subnets)
        BY DEF RecordSubnets
    <2> QED
        BY <2>2, <2>3, <2>4, <2>5, <2>6, <2>7, <2>8, <2>9
<1>8. TaskMove(r)
    BY <1>0, <1>2, <1>5, <1>6, <1>7 DEF TaskMove
<1>9. TasksFit(r)'
    BY <1>0, <1>2, <1>6 DEF TasksFit, Windows, Serving
<1>10. CASE Windows
    BY <1>2, <1>8, <1>9, <1>10, OnWindows, TaskKeeps
<1>11. CASE ~ Windows
    <2>1. \/ /\ from = "captured" /\ to = "subnets"
             /\ tun'.table = tun.table \union {Subnets} /\ tun'.recorded = tun.recorded
             /\ tun'.left = tun.left \ {Subnets}
          \/ /\ from = "captured" /\ to = "deferred" /\ tun'.recorded = tun.recorded
             /\ \/ /\ tun'.table = tun.table \ {Subnets} /\ tun'.left = tun.left \ {Subnets}
                \/ /\ tun'.table = tun.table \union {Subnets} /\ tun'.left = tun.left \union {Subnets}
          \/ /\ from = "subnets" /\ to = "deferred" /\ tun'.left = tun.left
             /\ tun'.table = tun.table /\ tun'.recorded = tun.recorded \union {Subnets}
        <3>1. \/ from = "captured" /\ run'[r].conf = "subnets" /\ tun' = RouteAdd(tun, Subnets)
              \/ /\ from = "captured" /\ run'[r].conf = "deferred"
                 /\ \E there \in BOOLEAN : tun' = RouteRefused(tun, Subnets, there)
              \/ from = "subnets" /\ run'[r].conf = "deferred" /\ tun' = Record(tun, Subnets)
            <4>1. run'[r].conf = to
                BY <1>6
            <4>2. CASE ExcludeSubnets(r)
                <5>1. /\ from = "captured"
                      /\ \/ /\ tun' = Route(Subnets)
                            /\ run' = [run EXCEPT ![r].conf = IF Windows THEN "deferred" ELSE "subnets", ![r].nets = TRUE]
                         \/ /\ Refuse(Subnets)
                            /\ run' = [run EXCEPT ![r].conf = "deferred", ![r].nets = FALSE]
                    BY <4>2 DEF ExcludeSubnets
                <5>2. CASE tun' = Route(Subnets) /\ run' = [run EXCEPT ![r].conf = "subnets", ![r].nets = TRUE]
                    <6>1. run'[r].conf = "subnets"
                        BY <1>0, <5>2 DEF RunRecord
                    <6> QED
                        BY <1>11, <5>1, <5>2, <6>1 DEF Route
                <5>3. CASE Refuse(Subnets) /\ run' = [run EXCEPT ![r].conf = "deferred", ![r].nets = FALSE]
                    <6>1. run'[r].conf = "deferred"
                        BY <1>0, <5>3 DEF RunRecord
                    <6>2. \E there \in BOOLEAN : tun' = RouteRefused(tun, Subnets, there)
                        BY <1>11, <5>3, Refusing
                    <6> QED
                        BY <5>1, <6>1, <6>2
                <5> QED
                    BY <1>11, <5>1, <5>2, <5>3
            <4>3. CASE RecordSubnets(r)
                BY <1>0, <4>3 DEF RecordSubnets, Config, RunRecord
            <4> QED
                BY <4>2, <4>3
        <3> QED
            BY <1>0, <1>6, <3>1 DEF RouteAdd, RouteRefused, Record, TunRecord
    <2>2. RoutesAreRecorded'
        <3>1. \A q \in Runs \ {r} : Kept(q)' = Kept(q)
            BY <1>6 DEF Kept, InHand
        <3>2. /\ to = "subnets" => Kept(r)' = Kept(r) \union {Subnets}
              /\ from = "captured" /\ to = "deferred" => Kept(r)' = Kept(r)
              /\ from = "subnets" => Kept(r) \subseteq Kept(r)' \union {Subnets}
            BY <1>6, <2>1 DEF Kept, InHand
        <3>3. CASE from = "captured"
            BY <1>0, <1>2, <2>1, <3>1, <3>2, <3>3, RoutesStay
        <3>4. CASE from = "subnets"
            BY <1>0, <1>2, <2>1, <3>1, <3>2, <3>4 DEF RoutesAreRecorded, Kept, Windows
        <3> QED
            BY <1>2, <3>3, <3>4
    <2>3. ToExclude' = ToExclude
        BY <1>6 DEF ToExclude
    <2>4. Covered(r)'
        <3>1. tun'.excludes \intersect tun.table \subseteq tun'.table
            BY <1>0, <1>7, <2>1, Names DEF TunRecord
        <3>2. run[r].pc = "running" => tun.gateway
            BY <1>0, <1>2, <1>11 DEF Covered, Routing, ConfSteps
        <3>3. run[r].pc = "running" /\ run[r].configured =>
                tun.excludes \subseteq tun.table \union refused \union run[r].todo \union ToExclude
            BY <1>0, <1>11 DEF Covered
        <3> QED
            BY <1>2, <1>6, <1>7, <2>3, <3>1, <3>2, <3>3 DEF Covered
    <2> QED
        BY <1>2, <1>8, <1>9, <2>2, <2>4, TaskKeeps, ConfCovered
<1> QED
    BY <1>10, <1>11

\* A step of apply_deferred_excludes, by what it makes of the task's own state.
DeferStep(r, to, todo, adding, nets, configured) ==
    /\ run[r].conf \notin {"off", "subnets"}
    /\ to \in {"defer", "record", "dns"} /\ todo \in SUBSET Hosts /\ adding \in SUBSET Hosts
    /\ nets \in BOOLEAN /\ configured \in BOOLEAN
    /\ run' = [run EXCEPT ![r] = [run[r] EXCEPT !.conf = to, !.todo = todo, !.adding = adding,
                                                !.nets = nets, !.configured = configured]]
    /\ UNCHANGED build /\ refused' \subseteq Hosts
    /\ tun' \in TunRecord /\ tun'.device = tun.device /\ tun'.gateway = tun.gateway /\ tun'.nrpt = tun.nrpt
    /\ tun'.excludes = tun.excludes
    /\ todo # {} => to # "dns"
    /\ adding # {} => to = "record"
    /\ \A a, b \in adding : a = b

\* What such a step leaves alone.
LEMMA DeferredMove ==
    ASSUME LifeInv, NEW r \in Runs, NEW to, NEW todo, NEW adding, NEW nets, NEW configured,
           DeferStep(r, to, todo, adding, nets, configured)
    PROVE  /\ TaskMove(r) /\ TasksFit(r)' /\ ToExclude' = ToExclude
           /\ run'[r].conf = to /\ run'[r].todo = todo /\ run'[r].adding = adding /\ run'[r].pc = run[r].pc
           /\ run'[r].configured = configured
           /\ \A q \in Runs \ {r} : Kept(q)' = Kept(q)
           /\ Kept(r)' = run[r].drained \union adding \union (IF run[r].ex = "record" THEN {run[r].exa} ELSE {})
<1>0. run \in [Runs -> RunRecord] /\ run[r] \in RunRecord /\ TasksFit(r)
    BY DEF LifeInv, RecordTypes
<1> USE DEF DeferStep
<1> DEFINE new == [run[r] EXCEPT !.conf = to, !.todo = todo, !.adding = adding, !.nets = nets,
                                 !.configured = configured]
<1>1. new \in RunRecord
    BY <1>0 DEF RunRecord, ConfSteps
<1>2. run' \in [Runs -> RunRecord]
    BY <1>0, <1>1, Replaced
<1>3. /\ \A q \in Runs \ {r} : run'[q] = run[q]
      /\ run'[r].conf = to /\ run'[r].pc = run[r].pc /\ run'[r].at = run[r].at
      /\ run'[r].ok = run[r].ok /\ run'[r].drained = run[r].drained
      /\ run'[r].todo = todo /\ run'[r].adding = adding
      /\ run'[r].ex = run[r].ex /\ run'[r].exa = run[r].exa /\ run'[r].configured = configured
    BY <1>0 DEF RunRecord
<1>4. TaskMove(r)
    BY <1>0, <1>2, <1>3 DEF TaskMove
<1>5. TasksFit(r)'
    BY <1>0, <1>3 DEF TasksFit, Windows, Serving, Early
<1>6. ToExclude' = ToExclude
    BY <1>3 DEF ToExclude
<1>7. \A q \in Runs \ {r} : Kept(q)' = Kept(q)
    BY <1>3 DEF Kept, InHand
<1>8. Kept(r)' = run[r].drained \union adding \union (IF run[r].ex = "record" THEN {run[r].exa} ELSE {})
    BY <1>3 DEF Kept, InHand
<1> QED
    BY <1>3, <1>4, <1>5, <1>6, <1>7, <1>8

LEMMA TakeDeferredStep ==
    ASSUME LifeInv, NEW r \in Runs, TakeDeferred(r)
    PROVE  LifeInv'
<1>0. /\ run[r] \in RunRecord /\ tun \in TunRecord /\ refused \subseteq Hosts
      /\ TasksFit(r) /\ Covered(r) /\ RoutesAreRecorded
    BY DEF LifeInv, RecordTypes
<1> DEFINE todo == IF Windows \/ tun.gateway THEN tun.excludes ELSE {}
<1>1. run[r].conf = "deferred" /\ UNCHANGED <<build, tun, refused>>
    BY DEF TakeDeferred
<1>2. run[r].adding = {} /\ run[r].nets \in BOOLEAN /\ run[r].configured \in BOOLEAN /\ todo \in SUBSET Hosts
    BY <1>0, <1>1 DEF TasksFit, RunRecord, TunRecord
<1>3. run' = [run EXCEPT ![r] = [run[r] EXCEPT !.conf = "defer", !.todo = todo, !.adding = {},
                                               !.nets = run[r].nets, !.configured = run[r].configured]]
    <2>1. [run[r] EXCEPT !.conf = "defer", !.todo = todo] =
             [run[r] EXCEPT !.conf = "defer", !.todo = todo, !.adding = {}, !.nets = run[r].nets, !.configured = run[r].configured]
        BY <1>0, <1>2 DEF RunRecord
    <2> QED
        BY <2>1 DEF TakeDeferred
<1> HIDE DEF todo
<1>d. DeferStep(r, "defer", todo, {}, run[r].nets, run[r].configured)
    BY <1>0, <1>1, <1>2, <1>3 DEF DeferStep
<1>4. /\ TaskMove(r) /\ TasksFit(r)' /\ ToExclude' = ToExclude
      /\ run'[r].todo = todo /\ run'[r].pc = run[r].pc
      /\ \A q \in Runs \ {r} : Kept(q)' = Kept(q)
      /\ Kept(r)' = run[r].drained \union (IF run[r].ex = "record" THEN {run[r].exa} ELSE {})
    BY <1>d, DeferredMove
<1>5. RoutesAreRecorded'
    <2>1. Kept(r)' = Kept(r)
        BY <1>1, <1>2, <1>4 DEF Kept, InHand
    <2> QED
        BY <1>0, <1>1, <1>4, <2>1, RoutesStay
<1>6. Covered(r)'
    <2>1. ~ Windows /\ run[r].pc = "running" => tun.gateway
        BY <1>0, <1>1 DEF Covered, Routing, ConfSteps
    <2> QED
        BY <1>1, <1>4, <2>1 DEF Covered, Windows, todo
<1> QED
    BY <1>1, <1>4, <1>5, <1>6, TaskKeeps, ConfCovered

LEMMA AddDeferredStep ==
    ASSUME LifeInv, NEW r \in Runs, AddDeferred(r)
    PROVE  LifeInv'
<1>0. /\ run[r] \in RunRecord /\ tun \in TunRecord /\ refused \subseteq Hosts
      /\ TasksFit(r) /\ Covered(r) /\ RoutesAreRecorded
    BY DEF LifeInv, RecordTypes
<1>1. run[r].conf = "defer" /\ UNCHANGED build
    BY DEF AddDeferred
<1>2. run[r].adding = {} /\ run[r].nets \in BOOLEAN /\ run[r].configured \in BOOLEAN /\ run[r].todo \in SUBSET Hosts
    BY <1>0, <1>1 DEF TasksFit, RunRecord
<1>3. PICK a \in run[r].todo :
         \/ /\ tun' = Route(a) /\ UNCHANGED refused
            /\ run' = [run EXCEPT ![r].conf = "record", ![r].todo = @ \ {a}, ![r].adding = {a}]
         \/ /\ Refuse(a) /\ refused' = refused \union {a}
            /\ run' = [run EXCEPT ![r].todo = @ \ {a}]
    BY DEF AddDeferred
<1>4. a \in Hosts /\ run[r].todo \ {a} \in SUBSET Hosts
    BY <1>2
<1>5. CASE /\ tun' = Route(a) /\ UNCHANGED refused
           /\ run' = [run EXCEPT ![r].conf = "record", ![r].todo = @ \ {a}, ![r].adding = {a}]
    <2>1. run' = [run EXCEPT ![r] = [run[r] EXCEPT !.conf = "record", !.todo = run[r].todo \ {a},
                                                   !.adding = {a}, !.nets = run[r].nets, !.configured = run[r].configured]]
        <3>1. [run[r] EXCEPT !.conf = "record", !.todo = @ \ {a}, !.adding = {a}] =
                [run[r] EXCEPT !.conf = "record", !.todo = run[r].todo \ {a},
                               !.adding = {a}, !.nets = run[r].nets, !.configured = run[r].configured]
            BY <1>0 DEF RunRecord
        <3> QED
            BY <1>5, <3>1
    <2>2. /\ tun' \in TunRecord /\ tun'.device = tun.device /\ tun'.gateway = tun.gateway
          /\ tun'.nrpt = tun.nrpt /\ tun'.excludes = tun.excludes
          /\ tun'.table = tun.table \union {a} /\ tun'.recorded = tun.recorded
          /\ tun'.left = tun.left \ {a}
        BY <1>0, <1>4, <1>5 DEF Route, RunRoute, RouteAdd, TunRecord, Destinations
    <2>d. DeferStep(r, "record", run[r].todo \ {a}, {a}, run[r].nets, run[r].configured)
        BY <1>0, <1>1, <1>2, <1>4, <1>5, <2>1, <2>2 DEF DeferStep
    <2>3. /\ TaskMove(r) /\ TasksFit(r)' /\ ToExclude' = ToExclude
          /\ run'[r].conf = "record" /\ run'[r].todo = run[r].todo \ {a} /\ run'[r].pc = run[r].pc
          /\ run'[r].configured = run[r].configured
          /\ \A q \in Runs \ {r} : Kept(q)' = Kept(q)
          /\ Kept(r)' = run[r].drained \union {a} \union (IF run[r].ex = "record" THEN {run[r].exa} ELSE {})
        BY <2>d, DeferredMove
    <2>4. Kept(r)' = Kept(r) \union {a}
        BY <1>1, <1>2, <2>3 DEF Kept, InHand
    <2>5. RoutesAreRecorded'
        BY <1>0, <1>1, <2>2, <2>3, <2>4, RoutesStay
    <2>6. Covered(r)'
        BY <1>0, <1>1, <1>5, <2>2, <2>3 DEF Covered, Windows, Routing, ConfSteps
    <2> QED
        BY <1>1, <2>3, <2>5, <2>6, TaskKeeps, ConfCovered
<1>6. CASE /\ Refuse(a) /\ refused' = refused \union {a}
           /\ run' = [run EXCEPT ![r].todo = @ \ {a}]
    <2>1. run' = [run EXCEPT ![r] = [run[r] EXCEPT !.conf = "defer", !.todo = run[r].todo \ {a},
                                                   !.adding = {}, !.nets = run[r].nets, !.configured = run[r].configured]]
        <3>1. [run[r] EXCEPT !.todo = @ \ {a}] =
                [run[r] EXCEPT !.conf = "defer", !.todo = run[r].todo \ {a},
                               !.adding = {}, !.nets = run[r].nets, !.configured = run[r].configured]
            BY <1>0, <1>1, <1>2 DEF RunRecord
        <3> QED
            BY <1>6, <3>1
    <2>2. /\ tun' \in TunRecord /\ tun'.device = tun.device /\ tun'.gateway = tun.gateway
          /\ tun'.nrpt = tun.nrpt /\ tun'.excludes = tun.excludes
          /\ tun'.recorded = tun.recorded
          /\ tun.table \ {a} \subseteq tun'.table
          /\ ~ Windows => /\ tun'.table \subseteq tun.table \union tun'.left
                          /\ tun.left \intersect tun'.table \subseteq tun'.left
        BY <1>0, <1>4, <1>6, RefusedHost
    <2>d. DeferStep(r, "defer", run[r].todo \ {a}, {}, run[r].nets, run[r].configured)
        BY <1>0, <1>1, <1>2, <1>4, <1>6, <2>1, <2>2 DEF DeferStep
    <2>3. /\ TaskMove(r) /\ TasksFit(r)' /\ ToExclude' = ToExclude
          /\ run'[r].conf = "defer" /\ run'[r].todo = run[r].todo \ {a} /\ run'[r].pc = run[r].pc
          /\ run'[r].configured = run[r].configured
          /\ \A q \in Runs \ {r} : Kept(q)' = Kept(q)
          /\ Kept(r)' = run[r].drained \union (IF run[r].ex = "record" THEN {run[r].exa} ELSE {})
        BY <2>d, DeferredMove
    <2>4. Kept(r)' = Kept(r)
        BY <1>1, <1>2, <2>3 DEF Kept, InHand
    <2>5. RoutesAreRecorded'
        BY <1>0, <1>1, <2>2, <2>3, <2>4, RoutesStay
    <2>6. Covered(r)'
        BY <1>0, <1>1, <1>6, <2>2, <2>3 DEF Covered, Windows, Routing, ConfSteps
    <2> QED
        BY <1>1, <2>3, <2>5, <2>6, TaskKeeps, ConfCovered
<1> QED
    BY <1>3, <1>5, <1>6

LEMMA RecordDeferredStep ==
    ASSUME LifeInv, NEW r \in Runs, RecordDeferred(r)
    PROVE  LifeInv'
<1>0. /\ run[r] \in RunRecord /\ tun \in TunRecord /\ refused \subseteq Hosts
      /\ TasksFit(r) /\ Covered(r) /\ RoutesAreRecorded
    BY DEF LifeInv, RecordTypes
<1>1. run[r].conf = "record" /\ UNCHANGED <<build, refused>>
    BY DEF RecordDeferred
<1>2. run[r].nets \in BOOLEAN /\ run[r].configured \in BOOLEAN /\ run[r].todo \in SUBSET Hosts /\ run[r].adding \in SUBSET Hosts
    BY <1>0 DEF RunRecord
<1>3. PICK a \in run[r].adding : tun' = Record(tun, a)
    BY DEF RecordDeferred
<1>4. a \in Hosts /\ run[r].adding = {a}
    BY <1>0, <1>2 DEF TasksFit
<1>5. /\ tun' \in TunRecord /\ tun'.device = tun.device /\ tun'.gateway = tun.gateway
      /\ tun'.nrpt = tun.nrpt /\ tun'.excludes = tun.excludes
      /\ tun'.table = tun.table /\ tun'.recorded = tun.recorded \union {a} /\ tun'.left = tun.left
    BY <1>0, <1>3, <1>4 DEF Record, TunRecord, Destinations
<1>6. run' = [run EXCEPT ![r] = [run[r] EXCEPT !.conf = "defer", !.todo = run[r].todo,
                                               !.adding = {}, !.nets = run[r].nets, !.configured = run[r].configured]]
    <2>1. [run[r] EXCEPT !.conf = "defer", !.adding = {}] =
            [run[r] EXCEPT !.conf = "defer", !.todo = run[r].todo, !.adding = {}, !.nets = run[r].nets, !.configured = run[r].configured]
        BY <1>0 DEF RunRecord
    <2> QED
        BY <2>1 DEF RecordDeferred
<1>d. DeferStep(r, "defer", run[r].todo, {}, run[r].nets, run[r].configured)
    BY <1>0, <1>1, <1>2, <1>5, <1>6 DEF DeferStep
<1>7. /\ TaskMove(r) /\ TasksFit(r)' /\ ToExclude' = ToExclude
      /\ run'[r].conf = "defer" /\ run'[r].todo = run[r].todo /\ run'[r].pc = run[r].pc
      /\ run'[r].configured = run[r].configured
      /\ \A q \in Runs \ {r} : Kept(q)' = Kept(q)
      /\ Kept(r)' = run[r].drained \union (IF run[r].ex = "record" THEN {run[r].exa} ELSE {})
    BY <1>d, DeferredMove
<1>8. Kept(r) \subseteq Kept(r)' \union {a}
    BY <1>1, <1>4, <1>7 DEF Kept, InHand
<1>9. RoutesAreRecorded'
    BY <1>0, <1>1, <1>5, <1>7, <1>8 DEF RoutesAreRecorded, Kept, Windows
<1>10. Covered(r)'
    BY <1>0, <1>1, <1>5, <1>7 DEF Covered, Windows, Routing, ConfSteps
<1> QED
    BY <1>1, <1>7, <1>9, <1>10, TaskKeeps, ConfCovered

LEMMA ExcludedStep ==
    ASSUME LifeInv, NEW r \in Runs, Excluded(r)
    PROVE  LifeInv'
<1>0. /\ run[r] \in RunRecord /\ tun \in TunRecord /\ refused \subseteq Hosts
      /\ TasksFit(r) /\ Covered(r) /\ RoutesAreRecorded
    BY DEF LifeInv, RecordTypes
<1>1. /\ run[r].conf = "defer" /\ run[r].todo = {} /\ run[r].adding = {} /\ UNCHANGED <<build, refused>>
    BY <1>0 DEF Excluded, TasksFit
<1>2. /\ tun' \in TunRecord /\ tun'.device = tun.device /\ tun'.gateway = tun.gateway
      /\ tun'.nrpt = tun.nrpt /\ tun'.excludes = tun.excludes
      /\ ~ Windows => tun' = tun
    <2>1. CASE Windows
        <3>1. PICK nets \in SUBSET {Subnets}, servers \in SUBSET {NameServers} : tun' = RestartCleanup(tun, nets, servers)
            BY <2>1 DEF Excluded
        <3> QED
            BY <1>0, <2>1, <3>1 DEF RestartCleanup, TunRecord, Destinations
    <2>2. CASE ~ Windows
        BY <1>0, <2>2 DEF Excluded
    <2> QED
        BY <2>1, <2>2
<1>3. run' = [run EXCEPT ![r] = [run[r] EXCEPT !.conf = "dns", !.todo = {}, !.adding = {},
                                               !.nets = FALSE, !.configured = TRUE]]
    <2>1. [run[r] EXCEPT !.conf = "dns", !.nets = FALSE, !.configured = TRUE] =
            [run[r] EXCEPT !.conf = "dns", !.todo = {}, !.adding = {}, !.nets = FALSE, !.configured = TRUE]
        BY <1>0, <1>1 DEF RunRecord
    <2> QED
        BY <2>1 DEF Excluded
<1>d. DeferStep(r, "dns", {}, {}, FALSE, TRUE)
    BY <1>0, <1>1, <1>2, <1>3 DEF DeferStep
<1>4. /\ TaskMove(r) /\ TasksFit(r)' /\ ToExclude' = ToExclude
      /\ run'[r].conf = "dns" /\ run'[r].todo = {} /\ run'[r].pc = run[r].pc
      /\ \A q \in Runs \ {r} : Kept(q)' = Kept(q)
      /\ Kept(r)' = run[r].drained \union (IF run[r].ex = "record" THEN {run[r].exa} ELSE {})
    BY <1>d, DeferredMove
<1>5. CASE Windows
    BY <1>1, <1>4, <1>5, OnWindows, TaskKeeps
<1>6. CASE ~ Windows
    <2>1. Kept(r)' = Kept(r)
        BY <1>1, <1>4 DEF Kept, InHand
    <2>2. RoutesAreRecorded'
        BY <1>0, <1>1, <1>2, <1>4, <1>6, <2>1, RoutesStay
    <2>3. Covered(r)'
        BY <1>0, <1>1, <1>2, <1>4, <1>6 DEF Covered, Windows, Routing, ConfSteps
    <2> QED
        BY <1>1, <1>4, <2>2, <2>3, TaskKeeps, ConfCovered
<1> QED
    BY <1>5, <1>6

-----------------------------------------------------------------------------
(***************************************************************************)
(* exclude_host_ip, also of clients that have returned                     *)
(***************************************************************************)
\* A caller goes from one step to another with its address.
CallStep(r, to, a) ==
    /\ run' = [run EXCEPT ![r] = [run[r] EXCEPT !.ex = to, !.exa = a]]
    /\ to \in {"idle", "gateway", "add", "record"} /\ a \in Hosts
    /\ UNCHANGED build /\ refused' \subseteq Hosts
    /\ tun' \in TunRecord /\ tun'.device = tun.device /\ tun'.gateway = tun.gateway /\ tun'.nrpt = tun.nrpt
    /\ tun'.recorded \subseteq tun.recorded \union Hosts
    /\ NameRule \in tun.left => NameRule \in tun'.left

LEMMA CallMove ==
    ASSUME LifeInv, NEW r \in Runs, NEW to, NEW a, CallStep(r, to, a)
    PROVE  /\ TaskMove(r) /\ TasksFit(r)'
           /\ run'[r].ex = to /\ run'[r].exa = a
           /\ run'[r].conf = run[r].conf /\ run'[r].pc = run[r].pc /\ run'[r].todo = run[r].todo
           /\ run'[r].configured = run[r].configured /\ run'[r].adding = run[r].adding
           /\ run'[r].drained = run[r].drained
           /\ \A q \in Runs \ {r} : run'[q] = run[q] /\ Kept(q)' = Kept(q)
<1>0. run \in [Runs -> RunRecord] /\ run[r] \in RunRecord /\ TasksFit(r)
    BY DEF LifeInv, RecordTypes
<1> USE DEF CallStep
<1> DEFINE new == [run[r] EXCEPT !.ex = to, !.exa = a]
<1>1. new \in RunRecord
    BY <1>0 DEF RunRecord
<1>2. run' \in [Runs -> RunRecord]
    BY <1>0, <1>1, Replaced
<1>3. /\ \A q \in Runs \ {r} : run'[q] = run[q]
      /\ run'[r].conf = run[r].conf /\ run'[r].pc = run[r].pc /\ run'[r].at = run[r].at
      /\ run'[r].ok = run[r].ok /\ run'[r].drained = run[r].drained
      /\ run'[r].todo = run[r].todo /\ run'[r].adding = run[r].adding
      /\ run'[r].ex = to /\ run'[r].exa = a /\ run'[r].configured = run[r].configured
    BY <1>0 DEF RunRecord
<1>4. TaskMove(r)
    BY <1>0, <1>2, <1>3 DEF TaskMove
<1>5. TasksFit(r)'
    BY <1>0, <1>3 DEF TasksFit, Windows
<1>6. \A q \in Runs \ {r} : Kept(q)' = Kept(q)
    BY <1>3 DEF Kept, InHand
<1> QED
    BY <1>3, <1>4, <1>5, <1>6

\* The address of a caller stays accounted for: whatever the step takes from the excluded
\* addresses' cover, it puts into the table or among the refused.
LEMMA CallCovered ==
    ASSUME LifeInv, NEW r \in Runs, TaskMove(r),
           run'[r].conf = run[r].conf, run'[r].todo = run[r].todo, run'[r].configured = run[r].configured,
           tun'.gateway = tun.gateway,
           ~ Windows /\ tun.gateway =>
               tun'.excludes \subseteq (tun'.table \union refused' \union ToExclude') \union
                                       (tun.excludes \ (tun.table \union refused \union ToExclude))
    PROVE  \A q \in Runs : Covered(q)'
<1> SUFFICES ASSUME NEW q \in Runs PROVE Covered(q)'
    OBVIOUS
<1>1. /\ run'[q].pc = run[q].pc /\ run'[q].conf = run[q].conf /\ run'[q].todo = run[q].todo
      /\ run'[q].configured = run[q].configured /\ build' = build
    BY DEF TaskMove
<1>2. Covered(q)
    BY DEF LifeInv
<1>3. run[q].conf \in {"defer", "record", "dns"} => run[q].conf \in Routing
    BY DEF Routing, ConfSteps
<1> QED
    BY <1>1, <1>2, <1>3 DEF Covered, Windows

LEMMA ExcludeStep ==
    ASSUME LifeInv, NEW r \in Runs, NEW a \in Hosts, Exclude(r, a)
    PROVE  LifeInv'
<1>0. run[r] \in RunRecord /\ tun \in TunRecord /\ refused \subseteq Hosts /\ RoutesAreRecorded
    BY DEF LifeInv, RecordTypes
<1>1. run[r].ex = "idle" /\ tun' = Insert(tun, a) /\ UNCHANGED <<build, refused>>
    BY DEF Exclude
<1>2. /\ tun' \in TunRecord /\ tun'.device = tun.device /\ tun'.gateway = tun.gateway /\ tun'.nrpt = tun.nrpt
      /\ tun'.table = tun.table /\ tun'.recorded = tun.recorded /\ tun'.excludes = tun.excludes \union {a}
      /\ tun'.left = tun.left
    BY <1>0, <1>1 DEF Insert, TunRecord
<1>3. run' = [run EXCEPT ![r] = [run[r] EXCEPT !.ex = "gateway", !.exa = a]]
    BY DEF Exclude
<1>4. CallStep(r, "gateway", a)
    BY <1>0, <1>1, <1>2, <1>3 DEF CallStep
<1>5. /\ TaskMove(r) /\ TasksFit(r)'
      /\ run'[r].ex = "gateway" /\ run'[r].exa = a
      /\ run'[r].conf = run[r].conf /\ run'[r].pc = run[r].pc /\ run'[r].todo = run[r].todo
      /\ run'[r].configured = run[r].configured /\ run'[r].adding = run[r].adding
      /\ run'[r].drained = run[r].drained
      /\ \A q \in Runs \ {r} : run'[q] = run[q] /\ Kept(q)' = Kept(q)
    BY <1>4, CallMove
<1>6. Kept(r)' = Kept(r)
    BY <1>1, <1>5 DEF Kept, InHand
<1>7. RoutesAreRecorded'
    BY <1>0, <1>1, <1>2, <1>5, <1>6, RoutesStay
<1>8. ToExclude' = ToExclude \union {a}
    BY <1>1, <1>5 DEF ToExclude
<1>9. \A q \in Runs : Covered(q)'
    BY <1>1, <1>2, <1>5, <1>8, CallCovered
<1> QED
    BY <1>5, <1>7, <1>9, TaskKeeps

LEMMA ExcludeGatewayStep ==
    ASSUME LifeInv, NEW r \in Runs, ExcludeGateway(r)
    PROVE  LifeInv'
<1>0. run[r] \in RunRecord /\ tun \in TunRecord /\ refused \subseteq Hosts /\ RoutesAreRecorded /\ TasksFit(r)
    BY DEF LifeInv, RecordTypes
<1>1. run[r].ex = "gateway" /\ UNCHANGED <<build, tun, refused>> /\ run[r].exa \in Hosts
    BY <1>0 DEF ExcludeGateway, TasksFit
<1> DEFINE to == IF tun.gateway THEN "add" ELSE "idle"
<1>2. run' = [run EXCEPT ![r] = [run[r] EXCEPT !.ex = to, !.exa = run[r].exa]]
    <2>1. [run[r] EXCEPT !.ex = to] = [run[r] EXCEPT !.ex = to, !.exa = run[r].exa]
        BY <1>0 DEF RunRecord
    <2> QED
        BY <2>1 DEF ExcludeGateway
<1>3. CallStep(r, to, run[r].exa)
    BY <1>0, <1>1, <1>2 DEF CallStep
<1>4. /\ TaskMove(r) /\ TasksFit(r)'
      /\ run'[r].ex = to /\ run'[r].exa = run[r].exa
      /\ run'[r].conf = run[r].conf /\ run'[r].pc = run[r].pc /\ run'[r].todo = run[r].todo
      /\ run'[r].configured = run[r].configured /\ run'[r].adding = run[r].adding
      /\ run'[r].drained = run[r].drained
      /\ \A q \in Runs \ {r} : run'[q] = run[q] /\ Kept(q)' = Kept(q)
    BY <1>3, CallMove
<1>5. Kept(r)' = Kept(r)
    BY <1>1, <1>4 DEF Kept, InHand
<1>6. RoutesAreRecorded'
    BY <1>0, <1>1, <1>4, <1>5, RoutesStay
<1>7. tun.gateway => ToExclude' = ToExclude
    BY <1>1, <1>4 DEF ToExclude
<1>8. \A q \in Runs : Covered(q)'
    BY <1>1, <1>4, <1>7, CallCovered
<1> QED
    BY <1>4, <1>6, <1>8, TaskKeeps

LEMMA ExcludeAddStep ==
    ASSUME LifeInv, NEW r \in Runs, ExcludeAdd(r)
    PROVE  LifeInv'
<1>0. run[r] \in RunRecord /\ tun \in TunRecord /\ refused \subseteq Hosts /\ RoutesAreRecorded /\ TasksFit(r)
    BY DEF LifeInv, RecordTypes
<1> DEFINE a == run[r].exa
<1>1. run[r].ex = "add" /\ UNCHANGED build /\ a \in Hosts
    BY <1>0 DEF ExcludeAdd, TasksFit
<1>2. \/ tun' = Route(a) /\ run' = [run EXCEPT ![r].ex = "record"] /\ refused' = refused
      \/ Refuse(a) /\ run' = [run EXCEPT ![r].ex = "idle"] /\ refused' = refused \union {a}
    BY DEF ExcludeAdd
<1>3. PICK to \in {"record", "idle"} :
        /\ run' = [run EXCEPT ![r].ex = to]
        /\ to = "record" => tun' = Route(a) /\ refused' = refused
        /\ to = "idle" => Refuse(a) /\ refused' = refused \union {a}
    BY <1>2
<1>4. run' = [run EXCEPT ![r] = [run[r] EXCEPT !.ex = to, !.exa = a]]
    <2>1. [run[r] EXCEPT !.ex = to] = [run[r] EXCEPT !.ex = to, !.exa = a]
        BY <1>0 DEF RunRecord
    <2> QED
        BY <1>3, <2>1
<1>5. /\ tun' \in TunRecord /\ tun'.device = tun.device /\ tun'.gateway = tun.gateway /\ tun'.nrpt = tun.nrpt
      /\ tun'.recorded = tun.recorded /\ tun'.excludes = tun.excludes
      /\ tun.left \ {a} \subseteq tun'.left
      /\ to = "record" => tun'.table = tun.table \union {a}
      /\ to = "idle" => /\ tun.table \ {a} \subseteq tun'.table
                        /\ ~ Windows => /\ tun'.table \subseteq tun.table \union tun'.left
                                        /\ tun.left \intersect tun'.table \subseteq tun'.left
    <2>1. CASE to = "record"
        <3>1. tun' = RunRoute(tun, a) \/ tun' = RouteAdd(tun, a)
            BY <1>3, <2>1 DEF Route
        <3>2. tun \in TunRecord /\ a \in Destinations
            BY <1>0, <1>1 DEF Destinations
        <3> HIDE DEF a
        <3> QED
            BY <2>1, <3>1, <3>2, AddedRoute
    <2>2. CASE to = "idle"
        <3>1. Refuse(a)
            BY <1>3, <2>2
        <3>2. tun \in TunRecord /\ a \in Hosts
            BY <1>0, <1>1
        <3> HIDE DEF a
        <3> QED
            BY <2>2, <3>1, <3>2, RefusedHost
    <2> QED
        BY <2>1, <2>2
<1>r. NameRule \in tun.left => NameRule \in tun'.left
    BY <1>1, <1>5, Names DEF Destinations
<1>6. refused' \subseteq Hosts
    BY <1>0, <1>1, <1>2
<1>7. CallStep(r, to, a)
    BY <1>0, <1>1, <1>4, <1>5, <1>6, <1>r DEF CallStep
<1>8. /\ TaskMove(r) /\ TasksFit(r)'
      /\ run'[r].ex = to /\ run'[r].exa = a
      /\ run'[r].conf = run[r].conf /\ run'[r].pc = run[r].pc /\ run'[r].todo = run[r].todo
      /\ run'[r].configured = run[r].configured /\ run'[r].adding = run[r].adding
      /\ run'[r].drained = run[r].drained
      /\ \A q \in Runs \ {r} : run'[q] = run[q] /\ Kept(q)' = Kept(q)
    BY <1>7, CallMove
<1>9. /\ to = "record" => Kept(r)' = Kept(r) \union {a}
      /\ to = "idle" => Kept(r)' = Kept(r)
    BY <1>1, <1>8 DEF Kept, InHand
<1>10. RoutesAreRecorded'
    BY <1>0, <1>1, <1>5, <1>8, <1>9, RoutesStay
<1>11. ToExclude \subseteq ToExclude' \union {a}
    BY <1>1, <1>8 DEF ToExclude
<1>12. a \in tun'.table \union refused' /\ refused \subseteq refused'
    BY <1>3, <1>5
<1>13. \A q \in Runs : Covered(q)'
    <2>1. tun'.excludes \subseteq (tun'.table \union refused' \union ToExclude') \union
                                  (tun.excludes \ (tun.table \union refused \union ToExclude))
        BY <1>5, <1>11, <1>12
    <2> QED
        BY <1>5, <1>8, <2>1, CallCovered
<1> QED
    BY <1>8, <1>10, <1>13, TaskKeeps

LEMMA ExcludeRecordStep ==
    ASSUME LifeInv, NEW r \in Runs, ExcludeRecord(r)
    PROVE  LifeInv'
<1>0. run[r] \in RunRecord /\ tun \in TunRecord /\ refused \subseteq Hosts /\ RoutesAreRecorded /\ TasksFit(r)
    BY DEF LifeInv, RecordTypes
<1> DEFINE a == run[r].exa
<1>1. run[r].ex = "record" /\ tun' = Record(tun, a) /\ UNCHANGED <<build, refused>> /\ a \in Hosts
    BY <1>0 DEF ExcludeRecord, TasksFit
<1>2. run' = [run EXCEPT ![r] = [run[r] EXCEPT !.ex = "idle", !.exa = a]]
    <2>1. [run[r] EXCEPT !.ex = "idle"] = [run[r] EXCEPT !.ex = "idle", !.exa = a]
        BY <1>0 DEF RunRecord
    <2> QED
        BY <2>1 DEF ExcludeRecord
<1>3. /\ tun' \in TunRecord /\ tun'.device = tun.device /\ tun'.gateway = tun.gateway /\ tun'.nrpt = tun.nrpt
      /\ tun'.table = tun.table /\ tun'.excludes = tun.excludes /\ tun'.recorded = tun.recorded \union {a}
      /\ tun'.left = tun.left
    BY <1>0, <1>1 DEF Record, TunRecord, Destinations
<1>4. CallStep(r, "idle", a)
    BY <1>0, <1>1, <1>2, <1>3 DEF CallStep
<1>5. /\ TaskMove(r) /\ TasksFit(r)'
      /\ run'[r].ex = "idle" /\ run'[r].exa = a
      /\ run'[r].conf = run[r].conf /\ run'[r].pc = run[r].pc /\ run'[r].todo = run[r].todo
      /\ run'[r].configured = run[r].configured /\ run'[r].adding = run[r].adding
      /\ run'[r].drained = run[r].drained
      /\ \A q \in Runs \ {r} : run'[q] = run[q] /\ Kept(q)' = Kept(q)
    BY <1>4, CallMove
<1>6. Kept(r) \subseteq Kept(r)' \union {a}
    BY <1>1, <1>5 DEF Kept, InHand
<1>7. RoutesAreRecorded'
    BY <1>0, <1>1, <1>3, <1>5, <1>6 DEF RoutesAreRecorded, Kept, Windows
<1>8. ToExclude' = ToExclude
    BY <1>1, <1>5 DEF ToExclude
<1>9. \A q \in Runs : Covered(q)'
    BY <1>1, <1>3, <1>5, <1>8, CallCovered
<1> QED
    BY <1>5, <1>7, <1>9, TaskKeeps

-----------------------------------------------------------------------------
(***************************************************************************)
(* The client opens its device and gives it up                             *)
(***************************************************************************)
\* A client that is up makes a step and is still up, with a device or past it.
ClientMove(r) ==
    /\ UNCHANGED build /\ tun' \in TunRecord /\ refused' \subseteq Hosts
    /\ run' \in [Runs -> RunRecord]
    /\ \A q \in Runs \ {r} : run'[q] = run[q]
    /\ Up(r) /\ run'[r].pc \notin Early \union {"returned"}
    /\ ~ Windows => tun'.nrpt = tun.nrpt

LEMMA ClientKeeps ==
    ASSUME LifeInv, NEW r \in Runs, ClientMove(r),
           TasksFit(r)', TeardownFits(r)', Covered(r)', TornDown(r)', RoutesAreRecorded'
    PROVE  LifeInv'
<1> USE DEF LifeInv, ClientMove
<1>1. RecordTypes'
    BY DEF RecordTypes
<1>2. \A q \in Runs \ {r} : run[q].pc \in {"none", "returned"}
    BY OnlyOneUp
<1>3. OneAtATime'
    <2>1. run[r].pc # "none" /\ run[r].pc # "returned" /\ run'[r].pc # "none"
        BY DEF Up, Early
    <2> QED
        BY <1>2, <2>1 DEF OneAtATime
<1>4. \A q \in Runs \ {r} : TasksFit(q)' /\ TeardownFits(q)'
    BY DEF TasksFit, TeardownFits, Teardown, Windows
<1>5. \A q \in Runs \ {r} : Covered(q)' /\ TornDown(q)'
    BY <1>2 DEF Covered, TornDown
<1>6. CleanBetweenClients'
    BY DEF CleanBetweenClients, Windows
<1> QED
    BY <1>1, <1>3, <1>4, <1>5, <1>6

LEMMA DispatcherSteps ==
    ASSUME LifeInv, NEW r \in Runs, DispatcherStarts(r) \/ DispatcherFails(r)
    PROVE  LifeInv'
<1>0. /\ run \in [Runs -> RunRecord] /\ run[r] \in RunRecord /\ tun \in TunRecord /\ refused \subseteq Hosts
      /\ TasksFit(r) /\ TeardownFits(r) /\ RoutesAreRecorded
    BY DEF LifeInv, RecordTypes
<1>1. run[r].pc = "dispatch" /\ UNCHANGED <<build, refused>>
    BY DEF DispatcherStarts, DispatcherFails
<1>2. /\ run[r].conf = "off" /\ run[r].todo = {} /\ run[r].adding = {} /\ ~ run[r].configured
      /\ ~ Windows => run[r].drained = {}
    BY <1>0, <1>1 DEF TasksFit, TeardownFits, Serving, Early
<1>3. /\ tun' \in TunRecord /\ tun'.nrpt = tun.nrpt
      /\ tun'.recorded = tun.recorded /\ tun'.table = tun.table /\ tun'.left = tun.left
    <2>1. tun' = tun \/ tun' = Opened(tun, r) \/ tun' = AdapterOpened(tun, r)
        BY DEF DispatcherStarts, DispatcherFails, Open
    <2> QED
        BY <1>0, <2>1 DEF Opened, AdapterOpened, TunRecord
<1> DEFINE started == [run[r] EXCEPT !.pc = "running", !.io = TRUE, !.groups = TRUE, !.conf = "idle"]
           refusal == [run[r] EXCEPT !.pc = "exit"]
<1>4. started \in RunRecord /\ refusal \in RunRecord
    BY <1>0 DEF RunRecord, RunSteps, ConfSteps
<1>5. run' = [run EXCEPT ![r] = started] \/ run' = [run EXCEPT ![r] = refusal]
    BY DEF DispatcherStarts, DispatcherFails, Go
<1>6. run' \in [Runs -> RunRecord]
    BY <1>0, <1>4, <1>5, Replaced
<1>7. /\ \A q \in Runs \ {r} : run'[q] = run[q]
      /\ \/ run'[r].pc = "running" /\ run'[r].conf = "idle"
         \/ run'[r].pc = "exit" /\ run'[r].conf = "off"
      /\ run'[r].todo = run[r].todo /\ run'[r].adding = run[r].adding /\ run'[r].configured = run[r].configured
      /\ run'[r].ex = run[r].ex /\ run'[r].exa = run[r].exa /\ run'[r].drained = run[r].drained
    <2>1. CASE run' = [run EXCEPT ![r] = started]
        BY <1>0, <2>1 DEF RunRecord
    <2>2. CASE run' = [run EXCEPT ![r] = refusal]
        BY <1>0, <1>2, <2>2 DEF RunRecord
    <2> QED
        BY <1>5, <2>1, <2>2
<1>8. ClientMove(r)
    BY <1>0, <1>1, <1>3, <1>6, <1>7 DEF ClientMove, Up, Early
<1>9. TasksFit(r)'
    BY <1>0, <1>1, <1>2, <1>7 DEF TasksFit, Serving, Windows
<1>10. TeardownFits(r)'
    BY <1>1, <1>2, <1>7 DEF TeardownFits, Windows
<1>11. Covered(r)' /\ TornDown(r)'
    BY <1>2, <1>7 DEF Covered, TornDown, Routing
<1>12. \A q \in Runs : Kept(q)' = Kept(q)
    BY <1>2, <1>7 DEF Kept, InHand
<1>13. RoutesAreRecorded'
    BY <1>0, <1>1, <1>3, <1>12, RoutesStay
<1> QED
    BY <1>8, <1>9, <1>10, <1>11, <1>13, ClientKeeps

\* The configuration task is waited for before the teardown begins.
LEMMA AwaitTasksStep ==
    ASSUME LifeInv, NEW r \in Runs, AwaitTasks(r)
    PROVE  LifeInv'
<1>0. /\ run \in [Runs -> RunRecord] /\ run[r] \in RunRecord /\ tun \in TunRecord /\ refused \subseteq Hosts
      /\ TasksFit(r) /\ TeardownFits(r) /\ RoutesAreRecorded
    BY DEF LifeInv, RecordTypes
<1>1. run[r].pc = "tasks" /\ run[r].conf = "idle" /\ UNCHANGED <<build, tun, refused>>
    BY DEF AwaitTasks
<1>2. run[r].todo = {} /\ run[r].adding = {} /\ (~ Windows => run[r].drained = {})
    BY <1>0, <1>1 DEF TasksFit, TeardownFits
<1> DEFINE new == [run[r] EXCEPT !.pc = "teardown", !.at = 1, !.conf = "off"]
<1>3. new \in RunRecord
    BY <1>0 DEF RunRecord, RunSteps, ConfSteps
<1>4. run' = [run EXCEPT ![r] = new]
    BY DEF AwaitTasks
<1>5. run' \in [Runs -> RunRecord]
    BY <1>0, <1>3, <1>4, Replaced
<1>6. /\ \A q \in Runs \ {r} : run'[q] = run[q]
      /\ run'[r].pc = "teardown" /\ run'[r].at = 1 /\ run'[r].conf = "off"
      /\ run'[r].todo = run[r].todo /\ run'[r].adding = run[r].adding /\ run'[r].configured = run[r].configured
      /\ run'[r].ex = run[r].ex /\ run'[r].exa = run[r].exa /\ run'[r].drained = run[r].drained
    BY <1>0, <1>4 DEF RunRecord
<1>7. ClientMove(r)
    BY <1>0, <1>1, <1>5, <1>6 DEF ClientMove, Up, Early
<1>8. TasksFit(r)'
    BY <1>0, <1>1, <1>2, <1>6 DEF TasksFit, Early, Windows
<1>9. TeardownFits(r)'
    <2>1. Len(Teardown(run[r].pc))' = Len(Teardown("teardown")) /\ 1 \in 1 .. Len(Teardown("teardown"))
        BY <1>1, <1>6, TeardownSteps DEF Teardown, Windows
    <2> QED
        BY <1>1, <1>2, <1>6, <2>1 DEF TeardownFits, Windows
<1>10. Covered(r)' /\ TornDown(r)'
    BY <1>6 DEF Covered, TornDown
<1>11. \A q \in Runs : Kept(q)' = Kept(q)
    BY <1>1, <1>6 DEF Kept, InHand
<1>12. RoutesAreRecorded'
    BY <1>0, <1>1, <1>11, RoutesStay
<1> QED
    BY <1>7, <1>8, <1>9, <1>10, <1>12, ClientKeeps

\* What one step of a teardown makes of the TUN module.
TeardownEffect(r, step) ==
    /\ tun' \in TunRecord
    /\ IF step = "gateway" THEN ~ tun'.gateway ELSE tun'.gateway = tun.gateway
    /\ IF step = "nrpt" THEN NoRule'
       ELSE tun'.nrpt = tun.nrpt /\ (NameRule \in tun.left => NameRule \in tun'.left)
    /\ IF step = "device" THEN tun'.device = 0 ELSE tun'.device = tun.device
    /\ IF step = "drain" THEN tun'.recorded = {} ELSE tun'.recorded = tun.recorded
    /\ IF step = "delete"
       THEN /\ tun'.table \subseteq tun.table
            /\ tun'.table \intersect (tun.left \union run[r].drained) \subseteq tun'.left
       ELSE tun'.table = tun.table
    /\ step \notin {"nrpt", "delete"} => tun'.left = tun.left

LEMMA TeardownTun ==
    ASSUME LifeInv, NEW r \in Runs, NEW phase, NEW next, TeardownStep(r, phase, next),
           NEW step \in {"gateway", "excludes", "nrpt", "drain", "delete", "device"},
           step = Teardown(phase)[run[r].at]
    PROVE  TeardownEffect(r, step)
<1>0. tun \in TunRecord /\ run[r] \in RunRecord
    BY DEF LifeInv, RecordTypes
<1>1. CASE step = "gateway"
    <2>1. tun' = ForgetGateway(tun)
        BY <1>1 DEF TeardownStep
    <2> QED
        BY <1>0, <1>1, <2>1 DEF TeardownEffect, ForgetGateway, TunRecord
<1>2. CASE step = "excludes"
    <2>1. tun' = ForgetExcludes(tun)
        BY <1>2 DEF TeardownStep
    <2> QED
        BY <1>0, <1>2, <2>1 DEF TeardownEffect, ForgetExcludes, TunRecord
<1>3. CASE step = "nrpt"
    <2>1. PICK works \in BOOLEAN : tun' = RemoveNrpt(tun, works)
        BY <1>3 DEF TeardownStep
    <2> QED
        BY <1>0, <1>3, <2>1 DEF TeardownEffect, NoRule, RemoveNrpt, TunRecord
<1>4. CASE step = "drain"
    <2>1. tun' = DrainRecorded(tun)
        BY <1>4 DEF TeardownStep
    <2> QED
        BY <1>0, <1>4, <2>1 DEF TeardownEffect, DrainRecorded, TunRecord
<1>5. CASE step = "delete"
    <2>1. PICK gone \in SUBSET run[r].drained : tun' = RouteDel(tun, run[r].drained, gone)
        BY <1>5 DEF TeardownStep
    <2>2. run[r].drained \subseteq Destinations /\ NameRule \notin gone
        BY <1>0, Names DEF RunRecord
    <2> QED
        BY <1>0, <1>5, <2>1, <2>2 DEF TeardownEffect, RouteDel, TunRecord
<1>6. CASE step = "device"
    <2>1. tun' = CloseAdapter(tun) \/ tun' = CloseDevice(tun)
        BY <1>6 DEF TeardownStep, Close
    <2> QED
        BY <1>0, <1>6, <2>1 DEF TeardownEffect, CloseAdapter, CloseDevice, TunRecord
<1> QED
    BY <1>1, <1>2, <1>3, <1>4, <1>5, <1>6

\* The step of the teardown that the run is at, by its number.
LEMMA TeardownNow ==
    ASSUME NEW phase \in {"drop", "teardown"}, NEW n \in 1 .. Len(Teardown(phase))
    PROVE  /\ Teardown(phase)[n] \in {"gateway", "excludes", "nrpt", "drain", "delete", "device"}
           /\ n = Len(Teardown(phase)) <=> Teardown(phase)[n] = "device"
           /\ ~ Windows => /\ n = 1 <=> Teardown(phase)[n] = "gateway"
                           /\ n = 3 <=> Teardown(phase)[n] = "drain"
                           /\ n = 4 <=> Teardown(phase)[n] = "delete"
                           /\ Teardown(phase)[n] # "nrpt"
                           /\ n = Len(Teardown(phase)) => n > 3
           /\ Windows /\ phase = "teardown" => /\ n = 1 <=> Teardown(phase)[n] = "nrpt"
                                               /\ n = 4 <=> Teardown(phase)[n] = "gateway"
                                               /\ n = Len(Teardown(phase)) => n > 4
<1>1. CASE ~ Windows
    <2>1. n \in 1 .. 5 /\ Len(Teardown(phase)) = 5
        BY <1>1, TeardownSteps
    <2>2. n = 1 \/ n = 2 \/ n = 3 \/ n = 4 \/ n = 5
        BY <2>1
    <2> QED
        BY <1>1, <2>1, <2>2, TeardownSteps
<1>2. CASE Windows /\ phase = "drop"
    <2>0. Len(Teardown(phase)) = 1
        BY <1>2, TeardownSteps
    <2>1. n = 1 /\ Len(Teardown(phase)) = 1
        BY <2>0
    <2> QED
        BY <1>2, <2>1, TeardownSteps
<1>3. CASE Windows /\ phase = "teardown"
    <2>1. n \in 1 .. 6 /\ Len(Teardown(phase)) = 6
        BY <1>3, TeardownSteps
    <2>2. n = 1 \/ n = 2 \/ n = 3 \/ n = 4 \/ n = 5 \/ n = 6
        BY <2>1
    <2>3. /\ Teardown(phase)[1] = "nrpt" /\ Teardown(phase)[2] = "drain"
          /\ Teardown(phase)[3] = "delete" /\ Teardown(phase)[4] = "gateway"
          /\ Teardown(phase)[5] = "excludes" /\ Teardown(phase)[6] = "device"
        BY <1>3, TeardownSteps
    <2> DEFINE step == Teardown(phase)[n]
    <2>4. \/ (n = 1 /\ step = "nrpt") \/ (n = 2 /\ step = "drain") \/ (n = 3 /\ step = "delete")
          \/ (n = 4 /\ step = "gateway") \/ (n = 5 /\ step = "excludes") \/ (n = 6 /\ step = "device")
        BY <2>2, <2>3
    <2> HIDE DEF step
    <2>5. /\ step \in {"gateway", "excludes", "nrpt", "drain", "delete", "device"}
          /\ n = 6 <=> step = "device"
          /\ n = 1 <=> step = "nrpt"
          /\ n = 4 <=> step = "gateway"
        BY <2>4
    <2>6. Windows
        BY <1>3
    <2>7. n = 6 => n > 4
        OBVIOUS
    <2> QED
        BY <2>1, <2>5, <2>6, <2>7 DEF step
<1> QED
    BY <1>1, <1>2, <1>3

\* drop_interface_now and teardown: the routes that are drained stay accounted for until
\* they are deleted, and what was given up stays given up.
LEMMA TeardownKeeps ==
    ASSUME LifeInv, NEW r \in Runs, NEW phase \in {"drop", "teardown"},
           NEW next, next = (IF phase = "drop" THEN "groups" ELSE "stopped"), TeardownStep(r, phase, next)
    PROVE  LifeInv'
<1>0. /\ run \in [Runs -> RunRecord] /\ run[r] \in RunRecord /\ tun \in TunRecord /\ refused \subseteq Hosts
      /\ TasksFit(r) /\ TeardownFits(r) /\ TornDown(r) /\ RoutesAreRecorded
      /\ ~ Windows => ~ tun.nrpt
    BY DEF LifeInv, RecordTypes, CleanBetweenClients
<1> DEFINE n == run[r].at
           step == Teardown(phase)[n]
           over == n = Len(Teardown(phase))
<1>1. run[r].pc = phase /\ UNCHANGED build /\ n \in 1 .. Len(Teardown(phase)) /\ n \in Nat
    BY <1>0 DEF TeardownStep, TeardownFits, RunRecord
<1>2. /\ step \in {"gateway", "excludes", "nrpt", "drain", "delete", "device"}
      /\ over <=> step = "device"
      /\ ~ Windows => /\ n = 1 <=> step = "gateway"
                      /\ n = 3 <=> step = "drain"
                      /\ n = 4 <=> step = "delete"
                      /\ step # "nrpt"
                      /\ over => n > 3
      /\ Windows /\ phase = "teardown" => /\ n = 1 <=> step = "nrpt"
                                          /\ n = 4 <=> step = "gateway"
                                          /\ over => n > 4
    BY <1>1, TeardownNow
<1>3. TeardownEffect(r, step)
    BY <1>2, TeardownTun
<1>4. PICK dr, at, upto :
        /\ run' = [run EXCEPT ![r].drained = dr, ![r].at = at, ![r].pc = upto]
        /\ dr = IF step = "drain" THEN tun.recorded ELSE IF step = "delete" THEN {} ELSE run[r].drained
        /\ at = IF over THEN 0 ELSE n + 1
        /\ upto = IF over THEN next ELSE phase
    BY <1>0, <1>1 DEF TeardownStep
<1> HIDE DEF step, over
<1>5. dr \in SUBSET Destinations /\ at \in Nat /\ upto \in RunSteps
    <2>1. run[r].drained \in SUBSET Destinations /\ tun.recorded \in SUBSET Destinations
        BY <1>0 DEF RunRecord, TunRecord
    <2> QED
        BY <1>1, <1>4, <2>1 DEF RunSteps
<1> DEFINE new == [run[r] EXCEPT !.drained = dr, !.at = at, !.pc = upto]
<1>6. new \in RunRecord
    BY <1>0, <1>5 DEF RunRecord
<1>7. run' = [run EXCEPT ![r] = new]
    BY <1>4
<1>8. run' \in [Runs -> RunRecord]
    BY <1>0, <1>6, <1>7, Replaced
<1>9. /\ \A q \in Runs \ {r} : run'[q] = run[q]
      /\ run'[r].pc = upto /\ run'[r].at = at /\ run'[r].drained = dr
      /\ run'[r].conf = run[r].conf /\ run'[r].todo = run[r].todo /\ run'[r].adding = run[r].adding
      /\ run'[r].ex = run[r].ex /\ run'[r].exa = run[r].exa /\ run'[r].configured = run[r].configured
    BY <1>0, <1>7 DEF RunRecord
<1>10. refused' \subseteq Hosts
    BY <1>0 DEF TeardownStep
<1>11. upto \in {"drop", "groups", "teardown", "stopped"} /\ (phase = "drop" => upto \in {"drop", "groups"})
    BY <1>4
<1>12. ClientMove(r)
    <2>1. Up(r) /\ run'[r].pc \notin Early \union {"returned"}
        BY <1>1, <1>9, <1>11 DEF Up, Early
    <2>2. tun' \in TunRecord /\ (~ Windows => tun'.nrpt = tun.nrpt)
        BY <1>2, <1>3 DEF TeardownEffect
    <2> QED
        BY <1>1, <1>8, <1>9, <1>10, <2>1, <2>2 DEF ClientMove
<1>13. TasksFit(r)'
    <2>1. run'[r].conf # "off" => run'[r].pc \in Serving
        BY <1>0, <1>1, <1>9, <1>11 DEF TasksFit, Serving
    <2>2. run'[r].pc \notin Early
        BY <1>9, <1>11 DEF Early
    <2> QED
        BY <1>0, <1>1, <1>9, <2>1, <2>2 DEF TasksFit, Windows
<1>14. Covered(r)'
    BY <1>9, <1>11 DEF Covered
<1>15. TeardownFits(r)'
    <2>1. CASE over
        <3>1. upto \notin {"drop", "teardown"}
            BY <1>4, <2>1
        <3>2. ~ Windows => n # 4 /\ dr = {}
            BY <1>0, <1>1, <1>2, <1>4, <2>1 DEF TeardownFits
        <3> QED
            BY <1>1, <1>9, <3>1, <3>2 DEF TeardownFits, Windows
    <2>2. CASE ~ over
        <3>1. upto = phase /\ at = n + 1 /\ at \in 1 .. Len(Teardown(phase))
            <4>1. Len(Teardown(phase)) \in Nat /\ n # Len(Teardown(phase))
                BY <1>1, <2>2, TeardownSteps DEF over
            <4> QED
                BY <1>1, <1>4, <2>2, <4>1
        <3>2. Len(Teardown(run[r].pc))' = Len(Teardown(phase))
            BY <1>1, <1>9, <3>1 DEF Teardown, Windows
        <3>3. ~ Windows /\ dr # {} => at = 4
            BY <1>0, <1>1, <1>2, <1>4, <3>1 DEF TeardownFits
        <3> QED
            BY <1>1, <1>9, <3>1, <3>2, <3>3 DEF TeardownFits, Windows
    <2> QED
        BY <2>1, <2>2
<1>16. TornDown(r)'
    <2>1. CASE over
        <3>1. upto = "stopped" => phase = "teardown"
            BY <1>4
        <3>2. phase = "teardown" => Clean'
            <4> SUFFICES ASSUME phase = "teardown" PROVE Clean'
                OBVIOUS
            <4>1. n > 3 /\ step = "device"
                BY <1>1, <1>2, <2>1
            <4>2. tun'.device = 0 /\ tun'.gateway = tun.gateway /\ tun'.nrpt = tun.nrpt
                  /\ tun'.recorded = tun.recorded /\ tun'.left = tun.left
                BY <1>3, <4>1 DEF TeardownEffect
            <4>3. CASE Windows
                BY <1>0, <1>1, <1>2, <2>1, <4>2, <4>3 DEF TornDown, Clean, NoRule, Windows
            <4>4. CASE ~ Windows
                BY <1>0, <1>1, <1>2, <2>1, <4>1, <4>2, <4>4 DEF TornDown, Clean, NoRule, Windows
            <4> QED
                BY <4>3, <4>4
        <3>3. upto # "teardown"
            BY <1>4, <2>1
        <3> QED
            BY <1>9, <3>1, <3>2, <3>3 DEF TornDown
    <2>2. CASE ~ over
        <3>1. upto = phase /\ at = n + 1 /\ upto # "stopped"
            BY <1>4, <2>2
        <3>2. CASE Windows /\ phase = "teardown"
            <4>1. NoRule'
                <5>1. CASE step = "nrpt"
                    BY <1>3, <5>1 DEF TeardownEffect
                <5>2. CASE step # "nrpt"
                    <6>1. n > 1
                        BY <1>1, <1>2, <3>2, <5>2
                    <6>2. NoRule
                        BY <1>0, <1>1, <3>2, <6>1 DEF TornDown
                    <6> QED
                        BY <1>3, <5>2, <6>2 DEF TeardownEffect, NoRule
                <5> QED
                    BY <5>1, <5>2
            <4>2. at > 4 => ~ tun'.gateway
                BY <1>0, <1>1, <1>2, <1>3, <3>1, <3>2 DEF TornDown, TeardownEffect
            <4> QED
                BY <1>1, <1>9, <3>1, <3>2, <4>1, <4>2 DEF TornDown, Windows
        <3>3. CASE ~ Windows /\ phase = "teardown"
            <4>1. ~ tun'.gateway
                BY <1>0, <1>1, <1>2, <1>3, <3>3 DEF TornDown, TeardownEffect
            <4>2. at > 3 => tun'.recorded \subseteq Hosts
                BY <1>0, <1>1, <1>2, <1>3, <3>1, <3>3 DEF TornDown, TeardownEffect
            <4> QED
                BY <1>1, <1>9, <3>1, <3>3, <4>1, <4>2 DEF TornDown, Windows
        <3>4. CASE phase = "drop"
            BY <1>9, <3>1, <3>4 DEF TornDown
        <3> QED
            BY <3>2, <3>3, <3>4
    <2> QED
        BY <2>1, <2>2
<1>17. RoutesAreRecorded'
    <2>1. CASE Windows
        BY <1>1, <2>1, OnWindows
    <2>2. CASE ~ Windows
        <3>1. \A q \in Runs \ {r} : Kept(q)' = Kept(q)
            BY <1>9 DEF Kept, InHand
        <3>2. InHand(r)' = InHand(r) /\ Kept(r)' = dr \union InHand(r)
            BY <1>9 DEF Kept, InHand
        <3>3. n # 4 => run[r].drained = {}
            BY <1>0, <2>2 DEF TeardownFits
        <3>4. CASE step = "drain"
            <4>1. /\ dr = tun.recorded /\ run[r].drained = {} /\ tun'.table = tun.table
                  /\ tun'.left = tun.left
                BY <1>2, <1>3, <1>4, <2>2, <3>3, <3>4 DEF TeardownEffect
            <4> QED
                BY <1>0, <1>1, <3>1, <3>2, <4>1 DEF RoutesAreRecorded, Kept, Windows
        <3>5. CASE step = "delete"
            <4>1. /\ dr = {} /\ tun'.recorded = tun.recorded /\ tun'.table \subseteq tun.table
                  /\ tun'.table \intersect (tun.left \union run[r].drained) \subseteq tun'.left
                BY <1>3, <1>4, <3>5 DEF TeardownEffect
            <4> QED
                BY <1>0, <1>1, <3>1, <3>2, <4>1 DEF RoutesAreRecorded, Kept, Windows
        <3>6. CASE step \notin {"drain", "delete"}
            <4>1. dr = run[r].drained /\ tun'.table = tun.table /\ tun'.recorded = tun.recorded
                  /\ tun'.left = tun.left
                BY <1>2, <1>3, <1>4, <2>2, <3>6 DEF TeardownEffect
            <4>2. Kept(r)' = Kept(r)
                BY <3>2, <4>1 DEF Kept
            <4> QED
                BY <1>0, <1>1, <3>1, <4>1, <4>2, RoutesStay
        <3> QED
            BY <3>4, <3>5, <3>6
    <2> QED
        BY <2>1, <2>2
<1> QED
    BY <1>12, <1>13, <1>14, <1>15, <1>16, <1>17, ClientKeeps

-----------------------------------------------------------------------------
(***************************************************************************)
(* The theorems                                                            *)
(***************************************************************************)
LEMMA LifeInit == Init => LifeInv
<1> SUFFICES ASSUME Init PROVE LifeInv
    OBVIOUS
<1>0. RecordTypes
    BY TypesInit
<1>1. tun.device = 0 /\ ~ tun.gateway /\ ~ tun.nrpt /\ tun.table = {} /\ tun.recorded = {}
    BY DEF Init, NoTun
<1>2. \A r \in Runs : /\ run[r].pc = "none" /\ run[r].conf = "off" /\ run[r].ex = "idle"
                      /\ run[r].todo = {} /\ run[r].adding = {} /\ run[r].drained = {} /\ ~ run[r].configured
    BY DEF Init, NewRun
<1>3. OneAtATime /\ RoutesAreRecorded /\ CleanBetweenClients
    BY <1>1, <1>2 DEF OneAtATime, RoutesAreRecorded, CleanBetweenClients, Clean, NoRule
<1>4. \A r \in Runs : TasksFit(r) /\ TeardownFits(r) /\ Covered(r) /\ TornDown(r)
    BY <1>2 DEF TasksFit, TeardownFits, Covered, TornDown
<1> QED
    BY <1>0, <1>3, <1>4 DEF LifeInv

LEMMA LifeStutters ==
    ASSUME LifeInv, UNCHANGED vars
    PROVE  LifeInv'
<1> USE DEF vars
<1>1. RecordTypes' /\ OneAtATime' /\ CleanBetweenClients'
    BY DEF LifeInv, RecordTypes, OneAtATime, CleanBetweenClients, Windows, Clean, NoRule
<1>2. ToExclude' = ToExclude
    BY DEF ToExclude
<1>3. \A r \in Runs : TasksFit(r)' /\ TeardownFits(r)' /\ Covered(r)' /\ TornDown(r)'
    BY <1>2 DEF LifeInv, TasksFit, TeardownFits, Covered, TornDown, Teardown, Windows, Clean, NoRule
<1>4. RoutesAreRecorded'
    BY DEF LifeInv, RoutesAreRecorded, InHand, Windows
<1> QED
    BY <1>1, <1>3, <1>4 DEF LifeInv

LEMMA LifeStep == LifeInv /\ [Next]_vars => LifeInv'
<1> SUFFICES ASSUME LifeInv, [Next]_vars PROVE LifeInv'
    OBVIOUS
<1>1. CASE UNCHANGED vars \/ Terminated
    BY <1>1, LifeStutters DEF Terminated
<1>2. ASSUME NEW r \in Runs,
             \/ StartClient(r) \/ StopClient(r) \/ ControlLine(r) \/ Signal(r) \/ ResolvePeer(r)
             \/ SetStatics(r) \/ GroupsEnd(r) \/ Select(r) \/ AwaitGroups(r)
             \/ LoopsEnd(r) \/ ClearStatics(r) \/ Exit(r) \/ TickerEnds(r)
      PROVE  LifeInv'
    BY <1>2, QuietSteps, QuietKeeps
<1>3. ASSUME NEW r \in Runs,
             \/ DispatcherStarts(r) \/ DispatcherFails(r) \/ DropInterface(r) \/ AwaitTasks(r) \/ TearDown(r)
      PROVE  LifeInv'
    <2>1. CASE DropInterface(r)
        BY <2>1, TeardownKeeps DEF DropInterface
    <2>2. CASE TearDown(r)
        BY <2>2, TeardownKeeps DEF TearDown
    <2> QED
        BY <1>3, <2>1, <2>2, DispatcherSteps, AwaitTasksStep
<1>4. ASSUME NEW r \in Runs, (\E a \in Hosts : Exclude(r, a)) \/ ExcludeTask(r)
      PROVE  LifeInv'
    BY <1>4, ExcludeStep, ExcludeGatewayStep, ExcludeAddStep, ExcludeRecordStep DEF ExcludeTask
<1>5. ASSUME NEW r \in Runs, ReceiveConfig(r) \/ ConfigTask(r)
      PROVE  LifeInv'
    <2>1. CASE \/ ReceiveConfig(r) \/ ConfigFails(r) \/ ReadDevice(r) \/ ReadGateway(r) \/ SetAddress(r)
               \/ ConfigureAdapter(r) \/ Stale(r) \/ Drain(r) \/ CaptureTraffic(r) \/ SetDns(r) \/ SetAdapterDns(r)
        BY <2>1, PlainConfSteps, PlainConfKeeps
    <2>2. CASE \/ ExcludeSubnets(r) \/ RecordSubnets(r) \/ TakeDeferred(r) \/ AddDeferred(r)
               \/ RecordDeferred(r) \/ Excluded(r)
        BY <2>2, SubnetsSteps, TakeDeferredStep, AddDeferredStep, RecordDeferredStep, ExcludedStep
    <2> QED
        BY <1>5, <2>1, <2>2 DEF ConfigTask
<1> QED
    BY <1>1, <1>2, <1>3, <1>4, <1>5 DEF Next, ClientTask

\* The inductive invariant of the life of a process (run_client, exclude_host_ip,
\* apply_tunconf, teardown): clients follow one another, every route and every address is
\* in some task's hands, and a teardown has given up what its steps so far are about.
THEOREM LifecycleInvariant == Spec => []LifeInv
    BY LifeInit, LifeStep, PTL DEF Spec

\* On Linux the code loses sight of no route around the tunnel: it is in UPLINK_ROUTES, or
\* a teardown has drained it, or the task that added it is about to write it down, or the
\* system would not delete it or reported an error for it; for any number of clients, hosts
\* and overlapping exclude_host_ip calls.  It does not say that a teardown is still to come.
THEOREM RoutesAlwaysRecorded == Spec => []RoutesAreRecorded
<1>1. LifeInv => RoutesAreRecorded
    BY DEF LifeInv
<1> QED
    BY <1>1, LifecycleInvariant, PTL

\* On Linux an applied configuration leaves no excluded address without its route: what
\* exclude_host_ip saw before or during apply_tunconf is in the table, refused by the
\* system, or still in the hands of its caller.
THEOREM NoAddressLoops == Spec => []NoLoop
<1>1. LifeInv => NoLoop
    <2> SUFFICES ASSUME LifeInv, NEW r \in Runs, ~ Windows, run[r].pc = "running", run[r].configured,
                        run[r].conf = "idle"
                 PROVE  tun.excludes \subseteq tun.table \union refused
                           \union {run[q].exa : q \in {p \in Runs : run[p].ex # "idle"}}
        BY DEF NoLoop
    <2>1. Covered(r) /\ TasksFit(r)
        BY DEF LifeInv
    <2>2. run[r].todo = {}
        BY <2>1 DEF TasksFit
    <2>3. ToExclude \subseteq {run[q].exa : q \in {p \in Runs : run[p].ex # "idle"}}
        BY DEF ToExclude
    <2> QED
        BY <2>1, <2>2, <2>3 DEF Covered
<1> QED
    BY <1>1, LifecycleInvariant, PTL

\* Clients that ended well leave no device and no gateway in the statics, and no rule of name
\* resolution and, on Linux, no route of VK's subnets but those the system would not delete:
\* the configuration task is awaited before teardown, so nothing sets them again.
THEOREM TeardownAlwaysHolds == Spec => []TeardownHolds
<1>1. LifeInv => TeardownHolds
    <2> SUFFICES ASSUME LifeInv, AllEndedWell
                 PROVE  /\ tun.device = 0 /\ ~ tun.gateway /\ NoRule
                        /\ ~ Windows /\ Subnets \in tun.table => Subnets \in tun.left
        BY DEF TeardownHolds, NoRule
    <2>1. \A r \in Runs : run[r].pc = "none" \/ (run[r].pc = "returned" /\ run[r].ok)
        BY DEF AllEndedWell
    <2>2. Clean
        BY <2>1 DEF LifeInv, CleanBetweenClients, Early
    <2>3. ASSUME ~ Windows, Subnets \in tun.table PROVE Subnets \in tun.left
        <3>1. Subnets \notin Hosts /\ tun.recorded \subseteq Hosts
            BY <2>2, <2>3, Names DEF Clean
        <3>2. ASSUME NEW r \in Runs PROVE Subnets \notin run[r].drained \union InHand(r)
            <4>1. TasksFit(r) /\ TeardownFits(r) /\ run[r] \in RunRecord
                BY DEF LifeInv, RecordTypes
            <4>2. run[r].drained = {} /\ run[r].conf = "off"
                BY <2>1, <2>3, <4>1 DEF TasksFit, TeardownFits, Serving
            <4>3. run[r].adding \subseteq Hosts /\ (run[r].ex = "record" => run[r].exa \in Hosts)
                BY <4>1 DEF RunRecord, TasksFit
            <4> QED
                BY <3>1, <4>2, <4>3 DEF InHand
        <3> QED
            BY <2>3, <3>1, <3>2 DEF LifeInv, RoutesAreRecorded
    <2> QED
        BY <2>2, <2>3 DEF Clean
<1> QED
    BY <1>1, LifecycleInvariant, PTL

StaticsTyped == control_tx \in Runs \union {0} /\ captcha \in Runs \union {0} /\ tunnel_active \in BOOLEAN

\* The statics of the process and the state of the TUN module keep their types.
THEOREM LifecycleTypeCorrect == Spec => []TypeOK
<1>1. Init => StaticsTyped
    BY DEF Init, StaticsTyped
<1>2. StaticsTyped /\ [Next]_vars => StaticsTyped'
    <2> SUFFICES ASSUME StaticsTyped, [Next]_vars PROVE StaticsTyped'
        OBVIOUS
    <2> USE DEF StaticsTyped, statics
    <2>1. CASE UNCHANGED vars \/ Terminated
        BY <2>1 DEF vars, Terminated
    <2>2. ASSUME NEW r \in Runs, SetStatics(r) \/ ClearStatics(r) \/ ReceiveConfig(r)
          PROVE  StaticsTyped'
        BY <2>2 DEF SetStatics, ClearStatics, ReceiveConfig
    <2>3. ASSUME NEW r \in Runs,
                 \/ StartClient(r) \/ StopClient(r) \/ ControlLine(r) \/ Signal(r) \/ ResolvePeer(r)
                 \/ DispatcherStarts(r) \/ DispatcherFails(r) \/ Select(r) \/ AwaitGroups(r) \/ AwaitTasks(r)
                 \/ Exit(r) \/ GroupsEnd(r) \/ LoopsEnd(r) \/ TickerEnds(r)
          PROVE  StaticsTyped'
        BY <2>3 DEF StartClient, StopClient, ControlLine, Signal, ResolvePeer, DispatcherStarts, DispatcherFails,
                    Select, AwaitGroups, AwaitTasks, Exit, GroupsEnd, LoopsEnd, TickerEnds
    <2>4. ASSUME NEW r \in Runs, DropInterface(r) \/ TearDown(r)
          PROVE  StaticsTyped'
        BY <2>4 DEF DropInterface, TearDown, TeardownStep
    <2>5. ASSUME NEW r \in Runs, (\E a \in Hosts : Exclude(r, a)) \/ ExcludeTask(r)
          PROVE  StaticsTyped'
        BY <2>5 DEF Exclude, ExcludeTask, ExcludeGateway, ExcludeAdd, ExcludeRecord
    <2>6. ASSUME NEW r \in Runs, ConfigTask(r)
          PROVE  StaticsTyped'
        BY <2>6 DEF ConfigTask, ConfigFails, ReadDevice, ReadGateway, SetAddress, ConfigureAdapter, Stale, Drain,
                    CaptureTraffic, ExcludeSubnets, RecordSubnets, TakeDeferred, AddDeferred, RecordDeferred,
                    Excluded, SetDns, SetAdapterDns, Config
    <2> QED
        BY <2>1, <2>2, <2>3, <2>4, <2>5, <2>6 DEF Next, ClientTask
<1>3. LifeInv /\ StaticsTyped => TypeOK
    BY DEF LifeInv, RecordTypes, TunRecord, StaticsTyped, TypeOK, TunType
<1> QED
    BY <1>1, <1>2, <1>3, LifecycleInvariant, PTL DEF Spec

-----------------------------------------------------------------------------
(***************************************************************************)
(* The flight that brings the configuration (ConfigFlight)                 *)
(***************************************************************************)
\* Where a worker has no guard it owes no flight: acquire finds the guard of a new session
\* unset, and drop leaves none behind.
NoGuard == {"start", "exchange", "count", "swap", "returned"}

FlightInv ==
    /\ FlightTypeOK /\ NoOrphanFlight
    /\ \A w \in Workers : pc[w] \in NoGuard => ~ acquired[w]

LEMMA FlightStarts == FlightInit => FlightInv
BY DEF FlightInit, FlightInv, FlightTypeOK, Steps, NoOrphanFlight

LEMMA FlightSteps == FlightInv /\ [FlightNext]_flightVars => FlightInv'
<1> SUFFICES ASSUME FlightInv, [FlightNext]_flightVars PROVE FlightInv'
    OBVIOUS
<1> USE DEF FlightInv, FlightTypeOK, Steps, NoOrphanFlight, NoGuard, Goto, shared, worker
<1>1. ASSUME NEW w \in Workers, LoadSent(w) PROVE FlightInv'
    BY <1>1 DEF LoadSent
<1>2. ASSUME NEW w \in Workers, CompareExchange(w) PROVE FlightInv'
    BY <1>2 DEF CompareExchange
<1>3. ASSUME NEW w \in Workers, NoSession(w) PROVE FlightInv'
    BY <1>3 DEF NoSession
<1>4. ASSUME NEW w \in Workers, Answered(w) PROVE FlightInv'
    BY <1>4 DEF Answered
<1>5. ASSUME NEW w \in Workers, StoreSent(w) PROVE FlightInv'
    BY <1>5 DEF StoreSent
<1>6. ASSUME NEW w \in Workers, ClearFlight(w) PROVE FlightInv'
    BY <1>6 DEF ClearFlight
<1>7. ASSUME NEW w \in Workers, Refused(w) PROVE FlightInv'
    BY <1>7 DEF Refused
<1>8. ASSUME NEW w \in Workers, Ready(w) PROVE FlightInv'
    <2>1. CASE was_ready[w]
        BY <1>8, <2>1 DEF Ready
    <2>2. CASE ~ was_ready[w]
        BY <1>8, <2>2 DEF Ready
    <2> QED
        BY <2>1, <2>2
<1>9. ASSUME NEW w \in Workers, DropGuard(w) PROVE FlightInv'
    BY <1>9 DEF DropGuard
<1>10. ASSUME NEW w \in Workers, CountActive(w) PROVE FlightInv'
    BY <1>10 DEF CountActive
<1>11. ASSUME NEW w \in Workers, SwapSent(w) PROVE FlightInv'
    BY <1>11 DEF SwapSent
<1>12. ASSUME NEW w \in Workers, Returns(w) PROVE FlightInv'
    BY <1>12 DEF Returns
<1>13. ASSUME NEW w \in Workers, SessionEnds(w) PROVE FlightInv'
    BY <1>13 DEF SessionEnds, Uncount
<1>14. CASE Cancel
    BY <1>14 DEF Cancel
<1>15. CASE UNCHANGED flightVars
    BY <1>15 DEF flightVars
<1> QED
    BY <1>1, <1>2, <1>3, <1>4, <1>5, <1>6, <1>7, <1>8, <1>9, <1>10, <1>11, <1>12, <1>13, <1>14, <1>15
    DEF FlightNext, Moves

\* If config_in_flight is set, a worker that acquired the flight has not dropped its guard
\* yet: ConfigFlightGuard and ConfigDeliveryState leave no flight that nobody gives back,
\* although a guard may clear the flight of another worker, with any number of workers.
THEOREM FlightsAreReturned == FlightSpec => []NoOrphanFlight
<1>1. FlightInv => NoOrphanFlight
    BY DEF FlightInv
<1> QED
    BY <1>1, FlightStarts, FlightSteps, PTL DEF FlightSpec
=============================================================================
