---------------------------- MODULE MCPureFunctions ----------------------------
(***************************************************************************)
(* The inputs of PureFunctions for TLC.                                    *)
(***************************************************************************)
EXTENDS PureFunctions

Number(low, high) == [Param(<<"int">>) EXCEPT !.min = {low}, !.max = {high}]
Choice == [Param(<<"enum">>) EXCEPT !.values = {Scalar("string", 0), Scalar("int", 1)}]

\* Without a container, one of every way a leaf is checked.
MCLeaves == {Number(0, 1), Choice, Param(<<"string", "bool">>), Param(<<"number">>),
             [Param(<<"string", "int">>) EXCEPT !.max = {1}]}

MCScalars == {Scalar("int", 1), Scalar("int", 2), Scalar("string", 0), Scalar("string", 2),
              Scalar("bool", 0), Scalar("number", 1), Scalar("null", 0)}

\* Required, optional and defaulted, defaults that suit and that do not.
MCParams ==
    LET plain == {Number(0, 1), Choice, Param(<<"string", "bool">>)}
        optional == {[p EXCEPT !.optional = TRUE] : p \in plain}
        defaulted == {[p EXCEPT !.default = {d}] : p \in plain,
                         d \in {Scalar("int", 1), Scalar("int", 2), Scalar("string", 0)}}
    IN  plain \union optional \union defaulted \union {Number(1, 0)}
=============================================================================
