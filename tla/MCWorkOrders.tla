---- MODULE MCWorkOrders ----
(* A work order with two tasks on its way to `pushed`, and the ids of a work
   order and a task that a carry-over may create.                            *)
EXTENDS WorkOrders, TLC

CONSTANTS w1, w2, t1, t2, t3

MCWoOf == (t1 :> w1) @@ (t2 :> w1) @@ (t3 :> w2)
MCPast == <<Event("wo", "created", w1, None, 1),
            Event("task", "created", t1, None, 2),
            Event("task", "created", t2, None, 3),
            Event("wo", "started", w1, None, 4),
            Event("wo", "review_requested", w1, None, 5),
            Event("wo", "pushed", w1, None, 6)>>
====
