-------------------------- MODULE MCHttpRangeStore --------------------------
(***************************************************************************)
(* Instances of HttpRangeStore for TLC: a file of six bytes whose tail of  *)
(* two is prefetched, gaps of one byte bridged.                            *)
(***************************************************************************)
EXTENDS HttpRangeStore

Call(op, range, ranges) == [op |-> op, range |-> range, ranges |-> ranges]
None == Span(0, 0)

SameSizes  == [v \in Versions |-> 6]
GrownFile  == [v \in Versions |-> 4 + 2 * v]

AllHeaders  == Headers
HiddenRange == {"last_modified", "content_length"}

(* Two ranges one byte apart, two ranges further apart with an empty one,  *)
(* and a range that reaches into the cached tail and past the end.         *)
SomeCalls == {
    Call("ranges", None, {Span(0, 1), Span(2, 3)}),
    Call("ranges", None, {Span(1, 2), Span(4, 5), Span(3, 3)}),
    Call("bounded", Span(3, 9), {}) }

(* Every form of get_opts, with ranges in and out of the object, and a     *)
(* get_ranges past its end.                                                *)
OptionCalls == {
    Call("head", None, {}), Call("suffix", Span(0, 3), {}),
    Call("offset", Span(2, 2), {}), Call("offset", Span(6, 6), {}),
    Call("bounded", Span(3, 9), {}), Call("bounded", Span(2, 2), {}),
    Call("whole", None, {}), Call("ranges", None, {Span(5, 7), Span(1, 2)}) }
=============================================================================
