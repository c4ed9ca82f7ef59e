----------------------------- MODULE DirectLegacy -----------------------------
(***************************************************************************)
(* What the clientv2 facade promises (spec sections 4.2 and 7): using it  *)
(* is the same as calling the flat legacy client directly.  Each call of  *)
(* a goroutine is exactly one call of one legacy method on an existing    *)
(* legacy client, whose arguments begin with the caller's parameters in   *)
(* the caller's order (section 4.2: "same required parameters, same       *)
(* order"), whose ignored-codes argument is what the contract says of     *)
(* the call's options (IgnoredSpec), and whose result reaches the         *)
(* caller.  Legacy clients are created only by legacy.NewClient(rpc).     *)
(***************************************************************************)
EXTENDS CallOptions

CONSTANTS Callers, Rpcs, LegacyIds, Methods, ArgLists, OptionLists,
          Results, NoRpc, NoReq, NoResult

VARIABLES
    clients,  \* clients[l]: the gRPC client legacy client l wraps, or NoRpc
    lpc,      \* lpc[c]: "idle", "wait" (in a legacy call) or "replied"
    lreq,     \* lreq[c]: the legacy call c is in
    lparams,  \* lparams[c]: the parameters c passed to that call
    lopts,    \* lopts[c]: the options c stated for that call
    lresult   \* lresult[c]: what the last call of c returned

avars == <<clients, lpc, lreq, lparams, lopts, lresult>>

Init ==
    /\ clients \in [LegacyIds -> Rpcs \cup {NoRpc}]
    /\ lpc = [c \in Callers |-> "idle"]
    /\ lreq = [c \in Callers |-> NoReq]
    /\ lparams = [c \in Callers |-> << >>]
    /\ lopts = [c \in Callers |-> << >>]
    /\ lresult = [c \in Callers |-> NoResult]

\* legacy.NewClient(rpc) makes a new legacy client.
NewClient(l, rpc) ==
    /\ clients[l] = NoRpc
    /\ clients' = [clients EXCEPT ![l] = rpc]
    /\ UNCHANGED <<lpc, lreq, lparams, lopts, lresult>>

\* c calls one method of an existing client with some parameters and
\* options: the arguments begin with the parameters, in order, and the
\* ignored codes are those the contract gives the options.
Call(c) ==
    /\ lpc[c] = "idle"
    /\ lpc' = [lpc EXCEPT ![c] = "wait"]
    /\ \E opts \in OptionLists, params \in ArgLists :
         /\ lopts' = [lopts EXCEPT ![c] = opts]
         /\ lparams' = [lparams EXCEPT ![c] = params]
         /\ \E l \in LegacyIds, m \in Methods, args \in ArgLists :
              /\ clients[l] # NoRpc
              /\ Len(params) <= Len(args)
              /\ SubSeq(args, 1, Len(params)) = params
              /\ lreq' = [lreq EXCEPT ![c] = [method |-> m, args |-> args,
                                  ignored |-> IgnoredSpec(opts), client |-> l]]
    /\ UNCHANGED <<clients, lresult>>

Serve(c, r) ==
    /\ lpc[c] = "wait"
    /\ lresult' = [lresult EXCEPT ![c] = r]
    /\ lpc' = [lpc EXCEPT ![c] = "replied"]
    /\ UNCHANGED <<clients, lreq, lparams, lopts>>

Return(c) ==
    /\ lpc[c] = "replied"
    /\ lpc' = [lpc EXCEPT ![c] = "idle"]
    /\ lreq' = [lreq EXCEPT ![c] = NoReq]
    /\ lparams' = [lparams EXCEPT ![c] = << >>]
    /\ lopts' = [lopts EXCEPT ![c] = << >>]
    /\ lresult' = [lresult EXCEPT ![c] = NoResult]
    /\ UNCHANGED clients

Next ==
    \/ \E l \in LegacyIds, rpc \in Rpcs : NewClient(l, rpc)
    \/ \E c \in Callers :
         \/ Call(c)
         \/ \E r \in Results : Serve(c, r)
         \/ Return(c)

Spec == Init /\ [][Next]_avars

=============================================================================
