---------------------------- MODULE MCCallOptions ----------------------------
(***************************************************************************)
(* Checks toLegacyIgnored against the reference IgnoredSpec for every     *)
(* option list a caller can pass, up to MaxOpts options drawn from a set  *)
(* that contains a nil option, an option with no codes, one with a        *)
(* duplicate code and one with two codes.  The lists are the initial      *)
(* states; no step changes them.                                          *)
(***************************************************************************)
EXTENDS CallOptions

CONSTANTS MaxOpts   \* longest option list enumerated

Options ==
    {NilOption} \cup
    {WithIgnoredCodes(s) : s \in {<< >>, <<1001>>, <<1001, 1001>>, <<1002, 1003>>}}

VARIABLE opts   \* the variadic opts ...CallOption of one call

Init == opts \in BoundedSeq(Options, MaxOpts)

Next == UNCHANGED opts

Spec == Init /\ [][Next]_opts

\* The argument handed to the legacy client is what the contract says:
\* the non-nil options' codes, concatenated in order with duplicates, as
\* one group, or no argument at all when that concatenation is empty
\* (buildCallOptions and toLegacyIgnored, clientv2.go lines 29-46).
ToLegacyIgnoredMeetsSpec == ToLegacyIgnored(opts) = IgnoredSpec(opts)

=============================================================================
