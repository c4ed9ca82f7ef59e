----------------------------- MODULE CallOptions -----------------------------
(***************************************************************************)
(* The call-option mechanism of package clientv2 (clientv2.go, lines      *)
(* 15-46): CallOption values, their composition into a callOptions value  *)
(* by buildCallOptions, and toLegacyIgnored, which turns the options of   *)
(* one call into the variadic [][]uint32 "ignored codes" argument of the  *)
(* legacy client.                                                         *)
(*                                                                        *)
(* A CallOption is a Go closure.  Its only constructor is                 *)
(* WithIgnoredCodes, so an option value is identified by the codes its    *)
(* closure appends; a nil CallOption is the model value NilOption.  Go    *)
(* slices are sequences, a nil slice is << >>.  Calling a nil func value  *)
(* panics in Go: the outcome of such a call is the model value Panicked.  *)
(***************************************************************************)
EXTENDS Sequences, SequencesExt

CONSTANTS
    Codes,      \* error codes (uint32) a caller may declare non-fatal
    NilOption,  \* a nil CallOption
    Panicked    \* the goroutine panicked (call of a nil func value)

\* WithIgnoredCodes(codes...): the closure appends codes (lines 22-27).
WithIgnoredCodes(codes) == [appends |-> codes]

\* var o callOptions: ignoredCodes is a nil slice (line 30).
ZeroCallOptions == [ignoredCodes |-> << >>]

\* Variant (a plausible slip): the closure overwrites instead of appending.
CallOptOverwrite(opt, o) ==
    IF opt = NilOption THEN Panicked
    ELSE [o EXCEPT !.ignoredCodes = opt.appends]

\* opt(&o): run the closure on o.  The closure body is line 25; a nil
\* func value panics instead.
CallOpt(opt, o) ==
    IF opt = NilOption THEN Panicked
    ELSE [o EXCEPT !.ignoredCodes = @ \o opt.appends]

\* One iteration of the loop of buildCallOptions (lines 31-35): a nil
\* option is skipped; a panic ends the loop.
LoopStep(o, opt) ==
    CASE o = Panicked     -> Panicked
      [] opt = NilOption  -> o
      [] OTHER            -> CallOpt(opt, o)

\* buildCallOptions(opts...) (lines 29-37): apply every option, in the
\* order given, to a zero callOptions.
BuildCallOptions(opts) == FoldLeft(LoopStep, ZeroCallOptions, opts)

\* Variant (a plausible slip): the len(...) == 0 check is dropped, so an
\* empty group is sent instead of omitting the argument.
ToLegacyIgnoredNoOmit(opts) ==
    LET o == BuildCallOptions(opts)
    IN  IF o = Panicked THEN Panicked ELSE << o.ignoredCodes >>

\* Variant (a plausible slip): one group per non-nil option instead of one
\* group for the whole call.
ToLegacyIgnoredPerOption(opts) ==
    LET given == SelectSeq(opts, LAMBDA x : x # NilOption)
    IN  IF BuildCallOptions(opts) = Panicked THEN Panicked
        ELSE [i \in DOMAIN given |-> given[i].appends]

\* toLegacyIgnored(opts...) (lines 40-46): nil when no code was set,
\* otherwise exactly one group holding every code in order.
ToLegacyIgnored(opts) ==
    LET o == BuildCallOptions(opts)
    IN  CASE o = Panicked             -> Panicked
          [] Len(o.ignoredCodes) = 0  -> << >>
          [] OTHER                    -> << o.ignoredCodes >>

-----------------------------------------------------------------------------
(***************************************************************************)
(* The reference definition (the module's contract, not its code): the    *)
(* ignored codes of a call are the concatenation of the codes of its      *)
(* non-nil options, in application order, duplicates kept; when there    *)
(* are none the argument is omitted, otherwise it is a single group.      *)
(***************************************************************************)
IgnoredSpec(opts) ==
    LET given == SelectSeq(opts, LAMBDA x : x # NilOption)
        codes == FlattenSeq([i \in DOMAIN given |-> given[i].appends])
    IN  IF codes = << >> THEN << >> ELSE << codes >>

=============================================================================
