---------------------------- MODULE MCSummariser ----------------------------
(* Instances of Summariser for TLC. *)
EXTENDS Summariser

Line(tag, value) ==
    [comma |-> TRUE, tag |-> tag, tagEnds |-> TRUE,
     value |-> value, valueEnds |-> TRUE]

\* Four files that share the tag 1, one of them with lines to ignore.
SharedTag ==
    [i \in 0 .. 3 |->
        CASE i = 0 -> <<Line(1, 5), Line(1, 2)>>
          [] i = 1 -> <<Line(1, 4), Line(0, 1)>>
          [] i = 2 -> <<[Line(0, 9) EXCEPT !.comma = FALSE],
                        Line(-2, 3),
                        Line(INT_MAX + 1, 7),
                        [Line(1, 8) EXCEPT !.valueEnds = FALSE],
                        Line(1, -3)>>
          [] i = 3 -> <<Line(1, 6)>>]
=============================================================================
