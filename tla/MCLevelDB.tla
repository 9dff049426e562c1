----------------------------- MODULE MCLevelDB -----------------------------
(* Instance of LevelDB: three keys, three levels, memtables of one group.  *)
EXTENDS LevelDB

Put(k) == [k |-> k, t |-> "val"]

Delete(k) == [k |-> k, t |-> "del"]

Call(batch, sync) == [batch |-> batch, sync |-> sync]

Limits == [l \in 1 .. kNumLevels - 1 |-> 2 * l]

Few == <<Call(<<Put(1)>>, FALSE), Call(<<Put(2)>>, TRUE), Call(<<Delete(1)>>, FALSE),
         Call(<<Put(2), Put(1)>>, TRUE)>>

Many == <<Call(<<Put(1), Put(3)>>, FALSE), Call(<<Put(2)>>, FALSE),
          Call(<<Put(1), Delete(3)>>, FALSE), Call(<<Put(2), Put(1)>>, FALSE),
          Call(<<Put(3)>>, FALSE), Call(<<Delete(2)>>, TRUE)>>

Same == <<Call(<<Put(1)>>, FALSE), Call(<<Put(1)>>, FALSE), Call(<<Put(1), Put(2)>>, FALSE),
          Call(<<Put(3)>>, FALSE), Call(<<Put(2)>>, TRUE)>>

Gap == <<Call(<<Put(2)>>, FALSE), Call(<<Put(1), Put(3)>>, FALSE), Call(<<Put(3)>>, FALSE),
         Call(<<Put(2)>>, FALSE)>>

Bounds(s, f, g) == [stop |-> s, fault |-> f, get |-> g]

(* stops and faults on few writes, a reader on few, and many writes by *)
(* themselves                                                          *)
SomeOfEach == {[calls |-> Few, bounds |-> Bounds(2, 1, 0)],
               [calls |-> Same, bounds |-> Bounds(0, 0, 1)],
               [calls |-> Same, bounds |-> Bounds(1, 0, 0)],
               [calls |-> Same, bounds |-> Bounds(0, 1, 0)],
               [calls |-> Gap, bounds |-> Bounds(0, 0, 1)],
               [calls |-> Many, bounds |-> Bounds(0, 0, 0)]}

============================================================================
