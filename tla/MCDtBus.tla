------------------------------ MODULE MCDtBus ------------------------------
(* Trees for TLC.  Node numbers are offsets, so parents come first.        *)
EXTENDS DtBus

\* / { bus@1 { sample-bus@2 { dev@3 }; dev@4 } }
DeepNodes    == 0..4
DeepParent   == (1 :> 0) @@ (2 :> 1) @@ (3 :> 2) @@ (4 :> 1)
DeepDriverOf == (0 :> "FdtBus") @@ (1 :> "FdtBus") @@ (2 :> "SampleBus")
                @@ (3 :> "Device") @@ (4 :> "Device")
=============================================================================
