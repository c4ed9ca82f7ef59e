------------------------------- MODULE ClientV2 -------------------------------
(***************************************************************************)
(* The clientv2 facade (clientv2.go): the root client built by            *)
(* NewFromProto or AsV2, the resource and sub-resource handles reached    *)
(* from it by accessor calls, and the forwarding of every operation to    *)
(* one method of the shared legacy client with toLegacyIgnored(opts).     *)
(*                                                                        *)
(* Every caller is a goroutine that builds or adapts a root, navigates    *)
(* to a handle, invokes an operation and blocks in the forwarded legacy   *)
(* call.  The legacy client (outside this repository) serves the calls of *)
(* all goroutines in any order and answers each with some result.        *)
(*                                                                        *)
(* A handle is the pair of its type (kind) and the legacy.Client it       *)
(* holds.  Operation parameters are abstract values from Params; domain   *)
(* objects and results are opaque.                                        *)
(***************************************************************************)
EXTENDS CallOptions, FiniteSets, TLC

CONSTANTS
    Callers,    \* goroutines using the facade
    Rpcs,       \* generated gRPC clients (dpdkproto.DPDKironcoreClient)
    LegacyIds,  \* identities of legacy.Client values
    PreLegacy,  \* legacy clients that exist before any facade is built
    Params,     \* values of required operation parameters
    Options,    \* CallOption values a caller may pass
    MaxOpts,    \* most options passed to one call
    Results,    \* what a legacy call may return (object and error)
    NilClient,  \* a nil legacy.Client field
    NoRpc, NoHandle, NoCall, NoReq, NoResult

ASSUME PreLegacy \subseteq LegacyIds /\ MaxOpts \in Nat

-----------------------------------------------------------------------------
(* The handle types and their accessors.                                  *)

\* A value of one of the client structs: &xClient{legacy: ...}.
Handle(kind, l) == [kind |-> kind, legacy |-> l]

\* rootAdapter's accessors, one per resource domain (lines 74-80).
RootAccessors ==
    [LoadBalancers |-> "lb", Interfaces |-> "iface", Routes |-> "route",
     NATs |-> "nat", Firewall |-> "fw", System |-> "system",
     Capture |-> "capture"]

\* lbClient's sub-resource accessors (lines 122-123).
LoadBalancersAccessors == [Prefixes |-> "lbPrefixes", Targets |-> "lbTargets"]

\* ifaceClient's sub-resource accessors (lines 190-192); Firewall returns
\* the same fwClient type as the root's Firewall accessor.
InterfacesAccessors ==
    [VIP |-> "vip", Prefixes |-> "ifacePrefixes", Firewall |-> "fw"]

Accessors ==
    ("root" :> RootAccessors) @@ ("lb" :> LoadBalancersAccessors)
                              @@ ("iface" :> InterfacesAccessors)

-----------------------------------------------------------------------------
(* The forwarders.  Each operation of a handle calls one legacy method    *)
(* with its arity required parameters, then any fixed arguments, then     *)
(* toLegacyIgnored(opts...)...  pass[i] is the parameter of the operation *)
(* that the forwarder passes as the legacy method's i-th argument: every  *)
(* forwarder passes them in the order it declares them.                   *)

Fwd(method, arity) ==
    [method |-> method, arity |-> arity, pass |-> [i \in 1 .. arity |-> i],
     fixed |-> << >>]

\* lbClient (lines 108-121).
LoadBalancersOps ==
    [Get |-> Fwd("GetLoadBalancer", 1), List |-> Fwd("ListLoadBalancers", 0),
     Create |-> Fwd("CreateLoadBalancer", 1),
     Delete |-> Fwd("DeleteLoadBalancer", 1)]

\* lbPrefixesClient (lines 125-135).
LoadBalancerPrefixesOps ==
    [List |-> Fwd("ListLoadBalancerPrefixes", 1),
     Create |-> Fwd("CreateLoadBalancerPrefix", 1),
     Delete |-> Fwd("DeleteLoadBalancerPrefix", 2)]

\* lbTargetsClient (lines 137-147).
LoadBalancerTargetsOps ==
    [List |-> Fwd("ListLoadBalancerTargets", 1),
     Create |-> Fwd("CreateLoadBalancerTarget", 1),
     Delete |-> Fwd("DeleteLoadBalancerTarget", 2)]

\* ifaceClient (lines 176-189).
InterfacesOps ==
    [Get |-> Fwd("GetInterface", 1), List |-> Fwd("ListInterfaces", 0),
     Create |-> Fwd("CreateInterface", 1), Delete |-> Fwd("DeleteInterface", 1)]

\* vipClient (lines 194-204).
VirtualIPsOps ==
    [Get |-> Fwd("GetVirtualIP", 1), Create |-> Fwd("CreateVirtualIP", 1),
     Delete |-> Fwd("DeleteVirtualIP", 1)]

\* ifacePrefixesClient (lines 206-216).
InterfacePrefixesOps ==
    [List |-> Fwd("ListPrefixes", 1), Create |-> Fwd("CreatePrefix", 1),
     Delete |-> Fwd("DeletePrefix", 2)]

\* routeClient (lines 228-238).
RoutesOps ==
    [List |-> Fwd("ListRoutes", 1), Create |-> Fwd("CreateRoute", 1),
     Delete |-> Fwd("DeleteRoute", 2)]

\* Variant (a plausible copy-paste slip): ListLocal forwards like ListAny.
NATsOpsListLocalAsAny ==
    [Get |-> Fwd("GetNat", 1), Create |-> Fwd("CreateNat", 1),
     Delete |-> Fwd("DeleteNat", 1),
     ListAny |-> [Fwd("ListNats", 1) EXCEPT !.fixed = <<"any">>],
     ListLocal |-> [Fwd("ListNats", 1) EXCEPT !.fixed = <<"any">>],
     ListNeighbors |-> Fwd("ListNeighborNats", 1),
     CreateNeighbor |-> Fwd("CreateNeighborNat", 1),
     DeleteNeighbor |-> Fwd("DeleteNeighborNat", 1)]

\* Variant (a plausible change that leaves the documentation stale):
\* ListAny is renamed ListAll.
NATsOpsListAnyRenamed ==
    [Get |-> Fwd("GetNat", 1), Create |-> Fwd("CreateNat", 1),
     Delete |-> Fwd("DeleteNat", 1),
     ListAll |-> [Fwd("ListNats", 1) EXCEPT !.fixed = <<"any">>],
     ListLocal |-> Fwd("ListLocalNats", 1),
     ListNeighbors |-> Fwd("ListNeighborNats", 1),
     CreateNeighbor |-> Fwd("CreateNeighborNat", 1),
     DeleteNeighbor |-> Fwd("DeleteNeighborNat", 1)]

\* natClient (lines 256-281); ListAny passes the fixed filter "any".
NATsOps ==
    [Get |-> Fwd("GetNat", 1), Create |-> Fwd("CreateNat", 1),
     Delete |-> Fwd("DeleteNat", 1),
     ListAny |-> [Fwd("ListNats", 1) EXCEPT !.fixed = <<"any">>],
     ListLocal |-> Fwd("ListLocalNats", 1),
     ListNeighbors |-> Fwd("ListNeighborNats", 1),
     CreateNeighbor |-> Fwd("CreateNeighborNat", 1),
     DeleteNeighbor |-> Fwd("DeleteNeighborNat", 1)]

\* Variant (a plausible slip that compiles, both being strings): Get passes
\* ruleID and interfaceID the wrong way round.
FirewallOpsGetSwapped ==
    [List |-> Fwd("ListFirewallRules", 1),
     Get |-> [Fwd("GetFirewallRule", 2) EXCEPT !.pass = <<2, 1>>],
     Create |-> Fwd("CreateFirewallRule", 1),
     Delete |-> Fwd("DeleteFirewallRule", 2)]

\* fwClient (lines 294-307).
FirewallOps ==
    [List |-> Fwd("ListFirewallRules", 1), Get |-> Fwd("GetFirewallRule", 2),
     Create |-> Fwd("CreateFirewallRule", 1),
     Delete |-> Fwd("DeleteFirewallRule", 2)]

\* systemClient (lines 321-337).
SystemOps ==
    [CheckInitialized |-> Fwd("CheckInitialized", 0),
     Initialize |-> Fwd("Initialize", 0), GetVni |-> Fwd("GetVni", 2),
     ResetVni |-> Fwd("ResetVni", 2), GetVersion |-> Fwd("GetVersion", 1)]

\* captureClient (lines 349-359).
CaptureOps ==
    [Start |-> Fwd("CaptureStart", 1), Stop |-> Fwd("CaptureStop", 0),
     Status |-> Fwd("CaptureStatus", 0)]

Ops ==
    ("lb" :> LoadBalancersOps) @@ ("lbPrefixes" :> LoadBalancerPrefixesOps)
    @@ ("lbTargets" :> LoadBalancerTargetsOps) @@ ("iface" :> InterfacesOps)
    @@ ("vip" :> VirtualIPsOps) @@ ("ifacePrefixes" :> InterfacePrefixesOps)
    @@ ("route" :> RoutesOps) @@ ("nat" :> NATsOps) @@ ("fw" :> FirewallOps)
    @@ ("system" :> SystemOps) @@ ("capture" :> CaptureOps)

Kinds == {"root"} \cup DOMAIN Ops

OptionLists == BoundedSeq(Options, MaxOpts)

-----------------------------------------------------------------------------
VARIABLES
    legacyRpc,  \* legacyRpc[l]: the gRPC client legacy client l wraps, or NoRpc
    pc,         \* pc[c]: where goroutine c is
    handle,     \* handle[c]: the client value c holds
    origin,     \* origin[c]: how c obtained its root (history variable)
    call,       \* call[c]: the facade operation c is in: op, args and opts
    req,        \* req[c]: the legacy call c made: method, args, ignored, client
    result      \* result[c]: what the last legacy call of c returned

vars == <<legacyRpc, pc, handle, origin, call, req, result>>

Init ==
    /\ legacyRpc \in [LegacyIds -> Rpcs \cup {NoRpc}]
    /\ \A l \in LegacyIds : legacyRpc[l] # NoRpc <=> l \in PreLegacy
    /\ pc = [c \in Callers |-> "idle"]
    /\ handle = [c \in Callers |-> NoHandle]
    /\ origin = [c \in Callers |-> NoHandle]
    /\ call = [c \in Callers |-> NoCall]
    /\ req = [c \in Callers |-> NoReq]
    /\ result = [c \in Callers |-> NoResult]

\* NewFromProto(rpc) (lines 59-62): legacy.NewClient(rpc) makes a new
\* legacy client l, wrapped in a rootAdapter.
NewFromProto(c, rpc, l) ==
    /\ pc[c] = "idle"
    /\ legacyRpc[l] = NoRpc
    /\ legacyRpc' = [legacyRpc EXCEPT ![l] = rpc]
    /\ handle' = [handle EXCEPT ![c] = Handle("root", l)]
    /\ origin' = [origin EXCEPT ![c] = [legacy |-> l, rpc |-> rpc]]
    /\ pc' = [pc EXCEPT ![c] = "ready"]
    /\ UNCHANGED <<call, req, result>>

\* Variant (a plausible slip): AsV2 re-initialises a legacy client on the
\* adapted client's transport instead of wrapping the client itself.
AsV2Reconnect(c, l) ==
    /\ pc[c] = "idle"
    /\ legacyRpc[l] # NoRpc
    /\ \E fresh \in LegacyIds :
         /\ legacyRpc[fresh] = NoRpc
         /\ legacyRpc' = [legacyRpc EXCEPT ![fresh] = legacyRpc[l]]
         /\ handle' = [handle EXCEPT ![c] = Handle("root", fresh)]
    /\ origin' = [origin EXCEPT ![c] = [legacy |-> l, rpc |-> legacyRpc[l]]]
    /\ pc' = [pc EXCEPT ![c] = "ready"]
    /\ UNCHANGED <<call, req, result>>

\* AsV2(c) (lines 65-67): wrap the existing legacy client l as it is.
AsV2(c, l) ==
    /\ pc[c] = "idle"
    /\ legacyRpc[l] # NoRpc
    /\ handle' = [handle EXCEPT ![c] = Handle("root", l)]
    /\ origin' = [origin EXCEPT ![c] = [legacy |-> l, rpc |-> legacyRpc[l]]]
    /\ pc' = [pc EXCEPT ![c] = "ready"]
    /\ UNCHANGED <<legacyRpc, call, req, result>>

\* Variant (a plausible slip): the accessor builds its client value
\* without copying the legacy field, e.g. &fwClient{}.
NavigateDetached(c, name) ==
    /\ pc[c] = "ready"
    /\ handle[c].kind \in DOMAIN Accessors
    /\ name \in DOMAIN Accessors[handle[c].kind]
    /\ handle' = [handle EXCEPT
                    ![c] = Handle(Accessors[@.kind][name], NilClient)]
    /\ UNCHANGED <<legacyRpc, pc, origin, call, req, result>>

\* An accessor call, e.g. r.LoadBalancers() or c.Prefixes(): a new client
\* value of the accessor's type holding the same legacy client (lines
\* 74-80, 122-123, 190-192).  No I/O.
Navigate(c, name) ==
    /\ pc[c] = "ready"
    /\ handle[c].kind \in DOMAIN Accessors
    /\ name \in DOMAIN Accessors[handle[c].kind]
    /\ handle' = [handle EXCEPT
                    ![c] = Handle(Accessors[@.kind][name], @.legacy)]
    /\ UNCHANGED <<legacyRpc, pc, origin, call, req, result>>

\* Entering an operation method of the handle with its required
\* parameters and its variadic options.
Invoke(c, op, args, opts) ==
    /\ pc[c] = "ready"
    /\ handle[c].kind \in DOMAIN Ops
    /\ op \in DOMAIN Ops[handle[c].kind]
    /\ args \in [1 .. Ops[handle[c].kind][op].arity -> Params]
    /\ call' = [call EXCEPT ![c] = [op |-> op, args |-> args, opts |-> opts]]
    /\ pc' = [pc EXCEPT ![c] = "calling"]
    /\ UNCHANGED <<legacyRpc, handle, origin, req, result>>

\* The method body, e.g. c.legacy.GetLoadBalancer(ctx, id,
\* toLegacyIgnored(opts...)...) (line 111, and alike in every forwarder):
\* the options are converted, then the legacy method is called on the
\* handle's client.  A goroutine whose conversion panics never gets there.
Forward(c) ==
    LET f   == Ops[handle[c].kind][call[c].op]
        ign == ToLegacyIgnored(call[c].opts)
    IN  /\ pc[c] = "calling"
        /\ ign # Panicked
        /\ req' = [req EXCEPT ![c] = [method |-> f.method,
                                      args |-> [i \in DOMAIN f.pass |->
                                                 call[c].args[f.pass[i]]]
                                               \o f.fixed,
                                      ignored |-> ign,
                                      client |-> handle[c].legacy]]
        /\ pc' = [pc EXCEPT ![c] = "wait"]
        /\ UNCHANGED <<legacyRpc, handle, origin, call, result>>

\* The legacy client (not in this repository) serves the call of c.
LegacyServe(c, r) ==
    /\ pc[c] = "wait"
    /\ result' = [result EXCEPT ![c] = r]
    /\ pc' = [pc EXCEPT ![c] = "replied"]
    /\ UNCHANGED <<legacyRpc, handle, origin, call, req>>

\* The forwarder returns the legacy result and error as they are; the
\* goroutine takes them and drops its client values, and may start over.
Return(c) ==
    /\ pc[c] = "replied"
    /\ pc' = [pc EXCEPT ![c] = "idle"]
    /\ handle' = [handle EXCEPT ![c] = NoHandle]
    /\ call' = [call EXCEPT ![c] = NoCall]
    /\ req' = [req EXCEPT ![c] = NoReq]
    /\ result' = [result EXCEPT ![c] = NoResult]
    /\ UNCHANGED <<legacyRpc, origin>>

Next ==
    \E c \in Callers :
        \/ \E rpc \in Rpcs, l \in LegacyIds : NewFromProto(c, rpc, l)
        \/ \E l \in LegacyIds : AsV2(c, l)
        \/ \E name \in {"LoadBalancers", "Interfaces", "Routes", "NATs",
                        "Firewall", "System", "Capture", "Prefixes",
                        "Targets", "VIP"} : Navigate(c, name)
        \/ \E op \in UNION {DOMAIN Ops[k] : k \in DOMAIN Ops},
              args \in UNION {[1 .. n -> Params] : n \in 0 .. 2},
              opts \in OptionLists : Invoke(c, op, args, opts)
        \/ Forward(c)
        \/ \E r \in Results : LegacyServe(c, r)
        \/ Return(c)

Spec == Init /\ [][Next]_vars

-----------------------------------------------------------------------------
(* Properties.                                                            *)

Methods == UNION {{Ops[k][o].method : o \in DOMAIN Ops[k]} : k \in DOMAIN Ops}

ArgLists == UNION {[1 .. n -> Params \cup {"any"}] : n \in 0 .. 3}

\* Every client value a goroutine holds has one of the handle types and a
\* constructed legacy client, and every legacy call carries at most one
\* group of ignored codes.
TypeOK ==
    /\ legacyRpc \in [LegacyIds -> Rpcs \cup {NoRpc}]
    /\ pc \in [Callers -> {"idle", "ready", "calling", "wait", "replied"}]
    /\ \A c \in Callers :
         /\ handle[c] \in [kind : Kinds, legacy : LegacyIds] \cup {NoHandle}
         /\ handle[c] # NoHandle => legacyRpc[handle[c].legacy] # NoRpc
         /\ call[c] \in [op : STRING, args : Seq(Params), opts : OptionLists]
                        \cup {NoCall}
         /\ req[c] \in [method : Methods, args : ArgLists,
                        ignored : Seq(Seq(Codes)), client : LegacyIds]
                        \cup {NoReq}
         /\ req[c] # NoReq => Len(req[c].ignored) <= 1
         /\ result[c] \in Results \cup {NoResult}

\* The legacy call a goroutine made names the operation it invoked: no
\* other operation of any handle, reached by any accessor path, forwards
\* to the same legacy method with the same fixed arguments.  The forty-three
\* hand-written forwarders (lines 108-359) map operations one-to-one onto
\* legacy calls.
LegacyCallIdentifiesOperation ==
    \A c \in Callers :
      pc[c] \in {"wait", "replied"} =>
        LET fixed == SubSeq(req[c].args, Len(call[c].args) + 1,
                            Len(req[c].args))
        IN  \A k \in DOMAIN Ops : \A o \in DOMAIN Ops[k] :
              (Ops[k][o].method = req[c].method /\ Ops[k][o].fixed = fixed)
                => (k = handle[c].kind /\ o = call[c].op)

\* A legacy call made through any handle goes to the very legacy client
\* the goroutine's root was built on, whatever accessors it went through:
\* the client NewFromProto created on the caller's gRPC client, or the
\* client AsV2 was given, never a new one (lines 59-80, 122-123, 190-192).
CallReachesOwnClient ==
    \A c \in Callers :
      pc[c] \in {"wait", "replied"} =>
        /\ req[c].client = origin[c].legacy
        /\ legacyRpc[req[c].client] = origin[c].rpc

\* The facade implements DirectLegacy: each operation is exactly one call
\* of one legacy method on an existing client, whose arguments start with
\* the operation's parameters in the caller's order and whose ignored codes
\* are those the contract gives for its options, and its result is
\* returned unchanged.
DL == INSTANCE DirectLegacy WITH
        clients <- legacyRpc,
        lpc <- [c \in Callers |->
                  IF pc[c] \in {"wait", "replied"} THEN pc[c] ELSE "idle"],
        lreq <- req,
        lparams <- [c \in Callers |->
                      IF pc[c] \in {"wait", "replied"} THEN call[c].args
                      ELSE << >>],
        lopts <- [c \in Callers |->
                    IF pc[c] \in {"wait", "replied"} THEN call[c].opts
                    ELSE << >>],
        lresult <- result

ImplementsDirectLegacy == DL!Spec

=============================================================================
