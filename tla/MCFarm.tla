-------------------------------- MODULE MCFarm --------------------------------
(* Small instances of Farm for TLC. *)
EXTENDS Farm, TLC

CONSTANTS a1, a2, b1   \* sub servers: two lobby servers and a game server
CONSTANTS game, lobby  \* types: lobby servers have game servers as clients

SmallTypeOf == (a1 :> lobby) @@ (a2 :> lobby) @@ (b1 :> game)
SmallInputs == (game :> <<lobby>>) @@ (lobby :> <<>>)
SmallOutputs == (game :> <<>>) @@ (lobby :> <<game>>)

\* Another program has the second outer port.
SmallTaken == {<<Client, 2>>}
=============================================================================
