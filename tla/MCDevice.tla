------------------------------ MODULE MCDevice ------------------------------
(***************************************************************************)
(* Device arrays x and w, a managed array y, an array h on the host; one   *)
(* thread with every program of two operations of the list, and some of    *)
(* three, next to one that runs a fixed program on its own arrays.         *)
(***************************************************************************)
EXTENDS Device

MCArrays == {"x", "w", "y", "h", "buff"}
MCKind   == [a \in MCArrays |-> CASE a \in {"x", "w"} -> "device"
                                  [] a = "y" -> "managed"
                                  [] OTHER -> "host"]
MCLength == 6
TwoThreads == {1, 2}
OneThread  == {1}
Own    == [t \in TwoThreads |-> t]
Shared == [t \in TwoThreads |-> 1]

X(i) == <<"x", i>>
W(i) == <<"w", i>>
Y(i) == <<"y", i>>
H(i) == <<"h", i>>

OnDevice ==
  {[op |-> "read", x |-> X(i)] : i \in {0, 4}}
  \cup {[op |-> "assign", x |-> X(1), value |-> 9], [op |-> "update", x |-> X(0), value |-> 5],
        [op |-> "equal", x |-> X(2), y |-> W(2)]}
  \cup {[op |-> "fill", x |-> X(1), n |-> n, value |-> v] : n \in {0, 1, 3, 5}, v \in {0, 7}}
  \cup {[op |-> "copy", x |-> a, s |-> 1, n |-> 5, y |-> b, d |-> 1] :
          <<a, b>> \in {<<H(0), X(1)>>, <<X(0), H(1)>>, <<X(0), W(1)>>, <<H(0), Y(0)>>, <<Y(1), H(0)>>}}
  \cup {[op |-> "copy", x |-> X(1), s |-> 2, n |-> 2, y |-> W(0), d |-> 3],
        [op |-> "copy", x |-> W(0), s |-> 1, n |-> 2, y |-> H(0), d |-> 4],
        [op |-> "widen", x |-> X(1), n |-> 3, y |-> W(0)],
        [op |-> "scale", x |-> X(0), n |-> 5, value |-> 2],
        [op |-> "norm", x |-> X(0), n |-> 3],
        [op |-> "normto", x |-> X(0), n |-> 3, y |-> W(1)]}

OnManaged ==
  {[op |-> "read", x |-> Y(1)], [op |-> "assign", x |-> Y(1), value |-> 9],
   [op |-> "update", x |-> Y(1), value |-> 5],
   [op |-> "once", x |-> Y(0), n |-> 3, value |-> 2],
   [op |-> "norm", x |-> Y(0), n |-> 3]}
  \cup {[op |-> "multiply", x |-> a, n |-> 3, y |-> b, value |-> 2, through |-> c] :
          <<a, b>> \in {<<X(0), Y(0)>>, <<Y(0), W(2)>>}, c \in {"context", "call"}}

\* What else is done with managed memory: nothing waits for the device.
Unsynchronised ==
  {[op |-> "scale", x |-> Y(0), n |-> 3, value |-> 2],
   [op |-> "fill", x |-> Y(0), n |-> 3, value |-> 7],
   [op |-> "copy", x |-> X(0), s |-> 1, n |-> 3, y |-> Y(0), d |-> 1]}

\* The strides of a reversed array.
Reversed == {[op |-> "copy", x |-> X(2), s |-> -1, n |-> 2, y |-> W(0), d |-> 1]}

Beside == <<[op |-> "normto", x |-> X(0), n |-> 3, y |-> X(3)],
            [op |-> "scale", x |-> X(0), n |-> 3, value |-> 2],
            [op |-> "update", x |-> X(3), value |-> 1], [op |-> "read", x |-> X(3)]>>

\* A launch that is not waited for, a product that may be refused, and a read of
\* what the launch writes; call<> throws before it synchronises.
Interrupted(through) ==
  {<<[op |-> "scale", x |-> Y(0), n |-> 3, value |-> 2],
     [op |-> "multiply", x |-> X(0), n |-> 3, y |-> W(2), value |-> 2, through |-> through],
     r>> : r \in {[op |-> "read", x |-> Y(1)], [op |-> "update", x |-> Y(1), value |-> 5]}}

Ops == OnDevice \cup OnManaged
Pairs   == {<<p, Beside>> : p \in (Ops \X Ops) \cup Interrupted("context")}
ThrownBefore == {<<p>> : p \in Interrupted("call")}
Singles == {<<p>> : p \in (OnManaged \cup Unsynchronised) \X OnManaged}
Backward == {<<p>> : p \in Reversed \X OnDevice}
=============================================================================
