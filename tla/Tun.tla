-------------------------------- MODULE Tun --------------------------------
(***************************************************************************)
(* The TUN device and the routes around the tunnel: backend/tun_linux.rs   *)
(* and backend/tun_win.rs, as operators on one record of the process-wide  *)
(* state of the two modules and of the routing table they write:           *)
(*                                                                         *)
(*   device    the run whose device DEVICE holds, 0 if none                *)
(*   adapter   ADAPTER, on Windows                                         *)
(*   gateway   GATEWAY_ROUTE is set                                        *)
(*   excludes  DYNAMIC_EXCLUDES: addresses that must go round the tunnel   *)
(*   recorded  UPLINK_ROUTES or CLEANUP_ROUTES: routes teardown removes    *)
(*   table     routes through the uplink that are in the routing table     *)
(*   captured  runs whose half-routes 0/1 and 128/1 were added             *)
(*   nrpt      the name resolution rule of Windows is set                  *)
(*   left      history: what the system has although it was told to delete *)
(*             it and the code forgot it, or was added with an error       *)
(*                                                                         *)
(* The thirteen subnets of VK_EXCLUDE_CIDRS are one destination, the       *)
(* system's name servers another.  Every operator is one lock or one call  *)
(* of the system; module Lifecycle interleaves them.                       *)
(***************************************************************************)
EXTENDS Naturals, FiniteSets

CONSTANTS
    Hosts       \* addresses of TURN servers and of VK's hosts

Subnets == "vk"
NameServers == "dns"
Destinations == Hosts \union {Subnets, NameServers}
NameRule == "rule"      \* the rule `nrpt` stands for, in `left`

\* The route of a host is never that of the subnets.
ASSUME HostsAreHosts == Subnets \notin Hosts /\ NameRule \notin Hosts

NoTun == [device |-> 0, adapter |-> 0, gateway |-> FALSE, excludes |-> {}, recorded |-> {},
          table |-> {}, captured |-> {}, nrpt |-> FALSE, left |-> {}]

TunType(t, runs) ==
    /\ t.device \in runs \union {0} /\ t.adapter \in runs \union {0}
    /\ t.gateway \in BOOLEAN /\ t.nrpt \in BOOLEAN
    /\ t.excludes \subseteq Hosts
    /\ t.recorded \subseteq Destinations /\ t.table \subseteq Destinations
    /\ t.captured \subseteq runs
    /\ t.left \subseteq Destinations \union {NameRule}

-----------------------------------------------------------------------------
\* TunDevice::open: the device replaces the one DEVICE held.
Opened(t, r) == [t EXCEPT !.device = r]

\* WinTunDevice::new sets ADAPTER too.
AdapterOpened(t, r) == [t EXCEPT !.device = r, !.adapter = r]

\* route_add with `ensure`: one destination through the uplink, anew.
RouteAdd(t, d) == [t EXCEPT !.table = @ \union {d}, !.left = @ \ {d}]

\* route_add returns an error.  The route is not there, or it still is: the old one
\* could not be deleted, or the kernel's answer to the new one was not received.
RouteRefused(t, d, there) ==
    IF there THEN [t EXCEPT !.table = @ \union {d}, !.left = @ \union {d}]
    ELSE [t EXCEPT !.table = @ \ {d}, !.left = @ \ {d}]

\* The same with the route command of Windows, which succeeds or changes nothing.
RunRoute(t, d) == [t EXCEPT !.table = @ \union {d}, !.left = @ \ {d}]
RunRouteFails(t) == t

\* route_del and route_delete: of D the system deletes `gone`; the rest is not told
\* to anybody.
RouteDel(t, D, gone) ==
    [t EXCEPT !.table = @ \ gone, !.left = (@ \ gone) \union ((D \ gone) \intersect t.table)]

\* A route that is added and not written down.
RecordNothing(t, d) == t

\* uplink_routes().push, cleanup_routes().push
Record(t, d) == [t EXCEPT !.recorded = @ \union {d}]

\* exclude_host_ip: the first caller for an address goes on, the others return.
Seen(t, a) == a \in t.excludes
Insert(t, a) == [t EXCEPT !.excludes = @ \union {a}]

SetGateway(t) == [t EXCEPT !.gateway = TRUE]

\* The half-routes are added through the device; they go with the interface.
Capture(t, r) == [t EXCEPT !.captured = @ \union {r}]

\* apply_tunconf on Windows: routes an earlier session may have left behind.
DeleteStale(t, gone, halves) ==
    [RouteDel(t, {Subnets, NameServers}, gone) EXCEPT !.captured = IF halves THEN {} ELSE @]

\* The excluded addresses are taken for those of an earlier session.
DrainExcludes(t, gone) == [RouteDel(t, t.excludes, gone) EXCEPT !.excludes = {}]

\* What to remove at the end is written anew: the subnets that were added before, and
\* the name servers that are added now.
RestartCleanup(t, nets, servers) ==
    [t EXCEPT !.recorded = nets \union servers, !.table = @ \union servers, !.left = @ \ servers]

\* set_nrpt_rule and remove_nrpt_rule: a failure is logged.
AddNrpt(t, works) == IF works THEN [t EXCEPT !.nrpt = TRUE, !.left = @ \ {NameRule}] ELSE t
RemoveNrpt(t, works) ==
    IF works THEN [t EXCEPT !.nrpt = FALSE, !.left = @ \ {NameRule}]
    ELSE [t EXCEPT !.left = IF t.nrpt THEN @ \union {NameRule} ELSE @]
SetNrpt(t, removed, added) == AddNrpt(RemoveNrpt(t, removed), added)

\* teardown, lock by lock
ForgetGateway(t) == [t EXCEPT !.gateway = FALSE]
ForgetExcludes(t) == [t EXCEPT !.excludes = {}]
DrainRecorded(t) == [t EXCEPT !.recorded = {}]
CloseDevice(t) == [t EXCEPT !.device = 0]
CloseAdapter(t) == [t EXCEPT !.device = 0, !.adapter = 0]
=============================================================================
