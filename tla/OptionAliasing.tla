---------------------------- MODULE OptionAliasing ----------------------------
(***************************************************************************)
(* What a CallOption built from a caller's slice adds to a call.          *)
(* WithIgnoredCodes(codes ...uint32) (clientv2.go, lines 22-27) is called *)
(* as WithIgnoredCodes(buf...): Go passes the caller's slice itself, and  *)
(* the closure keeps it.  The codes are read when the closure runs, in    *)
(* buildCallOptions, inside the call that uses the option, not when the   *)
(* option is made.  A caller that keeps the option (a CallOption is a     *)
(* plain func value) and writes buf before using it sends the new codes.  *)
(*                                                                        *)
(* buf is the contents of the caller's backing array; its length is fixed *)
(* (writes are buf[i] = x).  One caller, one stored option, one call.     *)
(***************************************************************************)
EXTENDS CallOptions, Naturals

CONSTANTS
    SliceLen,  \* len(buf)
    NoSent     \* no call has been made yet

VARIABLES
    buf,      \* the caller's slice
    stored,   \* the caller holds opt := WithIgnoredCodes(buf...)
    created,  \* the contents of buf when opt was made (history variable)
    sent      \* the ignored-codes argument the call forwarded, or NoSent

aliasVars == <<buf, stored, created, sent>>

AliasInit ==
    /\ buf \in [1 .. SliceLen -> Codes]
    /\ stored = FALSE
    /\ created = << >>
    /\ sent = NoSent

\* opt := WithIgnoredCodes(buf...): the closure captures the slice
\* (lines 23-27); nothing is copied.
StoreOption ==
    /\ ~stored
    /\ stored' = TRUE
    /\ created' = buf
    /\ UNCHANGED <<buf, sent>>

\* The caller's own code writes an element of its slice.
WriteSlice(i, x) ==
    /\ buf' = [buf EXCEPT ![i] = x]
    /\ UNCHANGED <<stored, created, sent>>

\* A forwarder called with opt: toLegacyIgnored runs the closure, whose
\* append reads the slice as it is now (line 25).
CallWithStored ==
    /\ stored
    /\ sent = NoSent
    /\ sent' = ToLegacyIgnored(<< WithIgnoredCodes(buf) >>)
    /\ UNCHANGED <<buf, stored, created>>

AliasNext ==
    \/ StoreOption
    \/ \E i \in 1 .. SliceLen, x \in Codes : WriteSlice(i, x)
    \/ CallWithStored

AliasSpec == AliasInit /\ [][AliasNext]_aliasVars

\* An option is a configuration value fixed when it is made (spec section
\* 3: made by a factory, applied once, never stored; section 9: immutable
\* after construction): a call made with opt forwards the codes buf held
\* when WithIgnoredCodes(buf...) was called.
StoredOptionKeepsCodes ==
    sent # NoSent => sent = IgnoredSpec(<< WithIgnoredCodes(created) >>)

=============================================================================
