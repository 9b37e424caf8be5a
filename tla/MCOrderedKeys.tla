---------------------------- MODULE MCOrderedKeys ----------------------------
(***************************************************************************)
(* Instances of OrderedKeys: an int of four bits, bytes of three bits, and *)
(* two letters with and without case.                                      *)
(***************************************************************************)
EXTENDS OrderedKeys, TLC

MCUpper == 3 :> 1 @@ 4 :> 2                      \* A, B = 1, 2 and a, b = 3, 4

Strings == {<<1>>, <<1, 2>>, <<1, 7>>, <<2>>, <<6, 1>>}

MCKeys ==
    [c \in {"int16", "int32", "int64", "float", "default", "cs", "cis", "uint16ThenBinary"} |->
        CASE c = "int16" -> -2..1
          [] c = "int32" -> {-8, -5, -1, 3, 7}
          [] c = "int64" -> {-20, -16, -9, 0, 7, 16}
          [] c = "float" -> {-3, -2, 0, 1, 3}
          [] c = "default" -> {<<1>>, <<1, 2>>, <<1, 2, 7>>, <<1, 7>>, <<2>>, <<2, 0, 1>>}
          [] c = "cs" -> Strings
          [] c = "cis" -> {<<1>>, <<1, 2>>, <<2>>, <<3>>, <<3, 4>>, <<4>>}
          [] c = "uint16ThenBinary" -> {<<0>>, <<0, 6>>, <<1, 1>>, <<3, 1>>, <<3, 1, 2>>}]

MCPartial == {<<>>, <<1>>, <<1, 2>>, <<1, 3>>, <<1, 1, 7>>, <<1, 7>>, <<2, 0>>}

=============================================================================
