----------------------------- MODULE DocExamples -----------------------------
(***************************************************************************)
(* The usage programs the package documents: the "Basic usage" and        *)
(* "Migration from legacy" programs of doc.go and the Example functions   *)
(* of example_test.go, run as goroutines on the facade of ClientV2.       *)
(*                                                                        *)
(* A program is its constructor statement (v2 := NewFromProto(rpc) or     *)
(* v2 := AsV2(legacyClient)) followed by statements of the form           *)
(*     _, _ = v2.A().B().Op(ctx, p1, ..., pn, opts...)                    *)
(* each given by its accessor path, its operation, the number n of        *)
(* parameters it passes and its options.  A goroutine keeps v2 and        *)
(* starts every statement from it.  doc.go is not compiled, so nothing    *)
(* but this check ties its statements to the methods the code has.        *)
(***************************************************************************)
EXTENDS ClientV2, Sequences

CONSTANT RunPrograms  \* names of the programs the goroutines may run

\* One statement: _, _ = v2.path[1]()...path[k]().op(ctx, n params, opts...).
St(path, op, n, opts) == [path |-> path, op |-> op, nargs |-> n, opts |-> opts]

\* doc.go "Basic usage" (lines 11-39).
DocBasicUsage ==
    [ctor |-> "NewFromProto",
     stmts |-> << St(<<"LoadBalancers">>, "Get", 1, << >>),
                  St(<<"LoadBalancers", "Prefixes">>, "List", 1,
                     << WithIgnoredCodes(<<1001>>) >>),
                  St(<<"LoadBalancers", "Targets">>, "List", 1, << >>),
                  St(<<"Interfaces">>, "Get", 1, << >>),
                  St(<<"Interfaces", "VIP">>, "Get", 1, << >>),
                  St(<<"Interfaces", "Prefixes">>, "List", 1, << >>),
                  St(<<"Interfaces", "Firewall">>, "List", 1, << >>),
                  St(<<"Routes">>, "List", 1, << >>),
                  St(<<"NATs">>, "ListAny", 1, << >>),
                  St(<<"System">>, "GetVersion", 1, << >>),
                  St(<<"Capture">>, "Status", 0, << >>) >>]

\* doc.go "Migration from legacy" (lines 41-46).
DocMigration ==
    [ctor |-> "AsV2", stmts |-> << St(<<"Routes">>, "List", 1, << >>) >>]

\* example_test.go ExampleNewFromProto (lines 15-23).
ExampleNewFromProto == [ctor |-> "NewFromProto", stmts |-> << >>]

\* example_test.go ExampleClient_LoadBalancers (lines 25-56).
ExampleLoadBalancers ==
    LET lb == <<"LoadBalancers">>
        pf == <<"LoadBalancers", "Prefixes">>
        tg == <<"LoadBalancers", "Targets">>
    IN  [ctor |-> "NewFromProto",
         stmts |-> << St(lb, "Get", 1, << >>), St(lb, "List", 0, << >>),
                      St(lb, "Create", 1, << >>), St(lb, "Delete", 1, << >>),
                      St(pf, "List", 1, << WithIgnoredCodes(<<1001>>) >>),
                      St(pf, "Create", 1, << >>), St(pf, "Delete", 2, << >>),
                      St(tg, "List", 1, << >>), St(tg, "Create", 1, << >>),
                      St(tg, "Delete", 2, << >>) >>]

\* example_test.go ExampleClient_Interfaces (lines 58-87).
ExampleInterfaces ==
    LET ifc == <<"Interfaces">>
        vip == <<"Interfaces", "VIP">>
        pf  == <<"Interfaces", "Prefixes">>
        fw  == <<"Interfaces", "Firewall">>
    IN  [ctor |-> "NewFromProto",
         stmts |-> << St(ifc, "Get", 1, << >>), St(ifc, "List", 0, << >>),
                      St(ifc, "Create", 1, << >>), St(ifc, "Delete", 1, << >>),
                      St(vip, "Get", 1, << >>), St(vip, "Create", 1, << >>),
                      St(vip, "Delete", 1, << >>),
                      St(pf, "List", 1, << >>), St(pf, "Create", 1, << >>),
                      St(pf, "Delete", 2, << >>),
                      St(fw, "List", 1, << >>), St(fw, "Create", 1, << >>),
                      St(fw, "Get", 2, << >>), St(fw, "Delete", 2, << >>) >>]

\* example_test.go ExampleClient_Routes (lines 89-100).
ExampleRoutes ==
    [ctor |-> "NewFromProto",
     stmts |-> << St(<<"Routes">>, "List", 1, << >>),
                  St(<<"Routes">>, "Create", 1, << >>),
                  St(<<"Routes">>, "Delete", 2, << >>) >>]

\* example_test.go ExampleClient_NATs (lines 102-118).
ExampleNATs ==
    [ctor |-> "NewFromProto",
     stmts |-> [i \in 1 .. 8 |->
                  St(<<"NATs">>, << "Get", "Create", "Delete", "ListAny",
                                    "ListLocal", "ListNeighbors",
                                    "CreateNeighbor", "DeleteNeighbor" >>[i],
                     1, << >>)]]

\* example_test.go ExampleClient_System (lines 120-131).
ExampleSystem ==
    [ctor |-> "NewFromProto",
     stmts |-> << St(<<"System">>, "CheckInitialized", 0, << >>),
                  St(<<"System">>, "Initialize", 0, << >>),
                  St(<<"System">>, "GetVni", 2, << >>),
                  St(<<"System">>, "ResetVni", 2, << >>),
                  St(<<"System">>, "GetVersion", 1, << >>) >>]

\* example_test.go ExampleClient_Capture (lines 133-142).
ExampleCapture ==
    [ctor |-> "NewFromProto",
     stmts |-> << St(<<"Capture">>, "Start", 1, << >>),
                  St(<<"Capture">>, "Status", 0, << >>),
                  St(<<"Capture">>, "Stop", 0, << >>) >>]

Programs ==
    [DocBasicUsage |-> DocBasicUsage, DocMigration |-> DocMigration,
     ExampleNewFromProto |-> ExampleNewFromProto,
     ExampleLoadBalancers |-> ExampleLoadBalancers,
     ExampleInterfaces |-> ExampleInterfaces, ExampleRoutes |-> ExampleRoutes,
     ExampleNATs |-> ExampleNATs, ExampleSystem |-> ExampleSystem,
     ExampleCapture |-> ExampleCapture]

-----------------------------------------------------------------------------
VARIABLES
    prog,  \* prog[c]: the name of the program goroutine c runs
    line,  \* line[c]: 0 before the constructor, i in statement i, past the end when done
    hop,   \* hop[c]: how many accessors of the current statement c has called
    v2,    \* v2[c]: the root client the program holds
    log    \* log[c]: the legacy calls c has made, in order (history variable)

docVars == <<prog, line, hop, v2, log>>
allVars == <<vars, docVars>>

Prog(c) == Programs[prog[c]]
Stmt(c) == Prog(c).stmts[line[c]]
Done(c) == line[c] = Len(Prog(c).stmts) + 1

DocInit ==
    /\ Init
    /\ prog \in [Callers -> RunPrograms]
    /\ line = [c \in Callers |-> 0]
    /\ hop = [c \in Callers |-> 0]
    /\ v2 = [c \in Callers |-> NoHandle]
    /\ log = [c \in Callers |-> << >>]

\* v2 := clientv2.NewFromProto(rpc) (doc.go line 13).
DocNewFromProto(c) ==
    /\ line[c] = 0
    /\ Prog(c).ctor = "NewFromProto"
    /\ \E rpc \in Rpcs, l \in LegacyIds :
         /\ NewFromProto(c, rpc, l)
         /\ v2' = [v2 EXCEPT ![c] = handle'[c]]
    /\ line' = [line EXCEPT ![c] = 1]
    /\ UNCHANGED <<prog, hop, log>>

\* v2 := clientv2.AsV2(legacyClient) (doc.go line 45).
DocAsV2(c) ==
    /\ line[c] = 0
    /\ Prog(c).ctor = "AsV2"
    /\ \E l \in PreLegacy :
         /\ AsV2(c, l)
         /\ v2' = [v2 EXCEPT ![c] = handle'[c]]
    /\ line' = [line EXCEPT ![c] = 1]
    /\ UNCHANGED <<prog, hop, log>>

\* The next accessor call of the statement, e.g. .Prefixes() of
\* v2.LoadBalancers().Prefixes().List(...) (doc.go line 20).
DocNavigate(c) ==
    /\ line[c] \in 1 .. Len(Prog(c).stmts)
    /\ hop[c] < Len(Stmt(c).path)
    /\ Navigate(c, Stmt(c).path[hop[c] + 1])
    /\ hop' = [hop EXCEPT ![c] = @ + 1]
    /\ UNCHANGED <<prog, line, v2, log>>

\* The operation call ending the statement, with the parameters and the
\* options the statement passes (doc.go line 20).
DocInvoke(c) ==
    /\ line[c] \in 1 .. Len(Prog(c).stmts)
    /\ hop[c] = Len(Stmt(c).path)
    /\ \E args \in [1 .. Stmt(c).nargs -> Params] :
         Invoke(c, Stmt(c).op, args, Stmt(c).opts)
    /\ UNCHANGED docVars

\* The forwarder's legacy call, recorded in the goroutine's log.
DocForward(c) ==
    /\ Forward(c)
    /\ log' = [log EXCEPT ![c] = Append(@, req'[c])]
    /\ UNCHANGED <<prog, line, hop, v2>>

DocServe(c, r) == LegacyServe(c, r) /\ UNCHANGED docVars

\* _, _ = ...: the results are dropped, the statement ends and the
\* goroutine goes on from v2 with the next one.
DocReturn(c) ==
    /\ pc[c] = "replied"
    /\ call' = [call EXCEPT ![c] = NoCall]
    /\ req' = [req EXCEPT ![c] = NoReq]
    /\ result' = [result EXCEPT ![c] = NoResult]
    /\ pc' = [pc EXCEPT ![c] = "ready"]
    /\ handle' = [handle EXCEPT ![c] = v2[c]]
    /\ line' = [line EXCEPT ![c] = @ + 1]
    /\ hop' = [hop EXCEPT ![c] = 0]
    /\ UNCHANGED <<legacyRpc, origin, prog, v2, log>>

DocNext ==
    \E c \in Callers :
        \/ DocNewFromProto(c) \/ DocAsV2(c)
        \/ DocNavigate(c) \/ DocInvoke(c) \/ DocForward(c)
        \/ \E r \in Results : DocServe(c, r)
        \/ DocReturn(c)

\* A program's goroutine runs its straight-line statements.  That the
\* legacy client answers every call is an assumption about the server and
\* the connection: the programs pass context.TODO(), which never expires,
\* so nothing in the code bounds the wait.
DocFairness ==
    \A c \in Callers :
        /\ WF_allVars(DocNewFromProto(c)) /\ WF_allVars(DocAsV2(c))
        /\ WF_allVars(DocNavigate(c)) /\ WF_allVars(DocInvoke(c))
        /\ WF_allVars(DocForward(c))
        /\ WF_allVars(\E r \in Results : DocServe(c, r))
        /\ WF_allVars(DocReturn(c))

DocSpec == DocInit /\ [][DocNext]_allVars /\ DocFairness

-----------------------------------------------------------------------------
(* Properties.                                                            *)

\* Every documented program runs to its end: each statement names an
\* accessor path and an operation the code has, with the number of
\* parameters the code takes, and each call returns.  doc.go is not
\* compiled, so a renamed or re-shaped method would leave it stale.
DocProgramsComplete == \A c \in Callers : <>Done(c)

=============================================================================
