-------------------------------- MODULE MCTables -------------------------------
(***************************************************************************)
(* The tables and helpers of a worker, side by side: 'part' picks the one  *)
(* a behaviour exercises, the others stay as they start.                   *)
(***************************************************************************)
EXTENDS TimerWheel, AsyncTimers, HashShard, SlotBitmap, ResponseWire, Buffers,
        FileCache, Limits, Router, TLC

VARIABLE part

tableVars == <<part, vars, sleepVars, shardVars, bitmapVars, responseVars,
               bufferVars, fileVars, limitVars, routerVars>>

Parts == {"wheel", "sleep", "shard", "bitmap", "response", "buffer", "file",
          "limit", "router"}

TablesInit ==
    /\ part \in Parts
    /\ Init /\ SleepInit /\ ShardInit /\ BitmapInit /\ ResponseInit
    /\ BuffersInit /\ FileInit /\ LimitInit /\ RouterInit

TablesNext ==
    /\ UNCHANGED part
    /\ \/ /\ part = "wheel" /\ Next
          /\ UNCHANGED <<sleepVars, shardVars, bitmapVars, responseVars,
                         bufferVars, fileVars, limitVars, routerVars>>
       \/ /\ part = "sleep" /\ SleepNext
          /\ UNCHANGED <<vars, shardVars, bitmapVars, responseVars,
                         bufferVars, fileVars, limitVars, routerVars>>
       \/ /\ part = "shard" /\ ShardNext
          /\ UNCHANGED <<vars, sleepVars, bitmapVars, responseVars,
                         bufferVars, fileVars, limitVars, routerVars>>
       \/ /\ part = "bitmap" /\ BitmapNext
          /\ UNCHANGED <<vars, sleepVars, shardVars, responseVars,
                         bufferVars, fileVars, limitVars, routerVars>>
       \/ /\ part = "response" /\ ResponseNext
          /\ UNCHANGED <<vars, sleepVars, shardVars, bitmapVars,
                         bufferVars, fileVars, limitVars, routerVars>>
       \/ /\ part = "buffer" /\ BuffersNext
          /\ UNCHANGED <<vars, sleepVars, shardVars, bitmapVars, responseVars,
                         fileVars, limitVars, routerVars>>
       \/ /\ part = "file" /\ FileNext
          /\ UNCHANGED <<vars, sleepVars, shardVars, bitmapVars, responseVars,
                         bufferVars, limitVars, routerVars>>
       \/ /\ part = "limit" /\ LimitNext
          /\ UNCHANGED <<vars, sleepVars, shardVars, bitmapVars, responseVars,
                         bufferVars, fileVars, routerVars>>
       \/ /\ part = "router" /\ RouterNext
          /\ UNCHANGED <<vars, sleepVars, shardVars, bitmapVars, responseVars,
                         bufferVars, fileVars, limitVars>>

TablesSpec == TablesInit /\ [][TablesNext]_tableVars

-----------------------------------------------------------------------------
\* Values of the constants.

MCTag == [p \in Pos |-> 7]

MCHashOf == [a |-> 0, b |-> 0, c |-> 2, d |-> 1, e |-> 3]
MCTagOf  == [a |-> "x", b |-> "y", c |-> "x", d |-> "y", e |-> "y"]

MCChains   == {<<"a1">>, <<"b", "c", "p">>, <<"junk">>}
MCSubnetOf == [a1 |-> "A", a2 |-> "A", b |-> "B", c |-> "C", p |-> "P"]

MCRoutePaths == {<<"/">>, <<"/", "a">>, <<"/", "<int>", "/", "b">>,
                 <<"/", "<string>">>, <<"/", "a", "/", "*">>}
MCGroupPrefixes == {<<"/", "a">>, <<"<string>", "/">>}
MCRequests == {<<"/">>, <<"/", "a">>, <<"/", "a", "/">>, <<"/", "7">>,
               <<"/", "7", "/", "b">>, <<"/", "a", "/", "b">>,
               <<"/", "a", "/", "7", "/", "b">>, <<"/", "/", "a">>,
               <<"/", "b", "/", "a", "/", "b">>}
MCReadAs == [a |-> {"<string>"}, b |-> {"<string>"}]
            @@ ("7" :> {"<uint>", "<int>", "<string>"}) @@ ("" :> {"<string>"})

\* Connections that are alike.
Alike == Permutations(Conns)

-----------------------------------------------------------------------------
(* Properties of several parts. *)

\* The shards of the hash map implement a map, and the slot bitmap a pool: what
\* they answer is what the abstract specifications answer, with the counters
\* that decide when a shard grows or is compacted exact all along.
TablesRefine == ShardIsAMap /\ []CountsExact /\ BitmapIsAPool

\* What a handler writes reaches the wire whole and in order: the response is
\* one well-formed message, and the buffer it is written to loses, repeats or
\* overruns nothing as it grows and is compacted.
OutputWhole == []WireWellFormed /\ BuffersSound
================================================================================
