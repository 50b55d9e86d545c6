---------------------------- MODULE OptLifecycle ----------------------------
(***************************************************************************)
(* What RedisConn promises about a callback object (BaseCallBackOpt): it   *)
(* is created, then replaced by the next CreateOpt, submitted with a       *)
(* command, or lost; a submitted object is called back at most once, one   *)
(* object at a time, and deleted when its callback returns.                *)
(***************************************************************************)
CONSTANT Opt

VARIABLE st

States == {"none", "created", "pending", "running", "lost"}

Init == st = [o \in Opt |-> "none"]

Move(o, from, to) == st[o] = from /\ st' = [st EXCEPT ![o] = to]

Create(o)  == Move(o, "none", "created")
Submit(o)  == Move(o, "created", "pending")
Lose(o)    == Move(o, "created", "lost")
Return(o)  == Move(o, "running", "none")

Replace(o, old) ==
    /\ st[o] = "none" /\ st[old] = "created"
    /\ st' = [st EXCEPT ![o] = "created", ![old] = "none"]

Call(o) ==
    /\ \A p \in Opt : st[p] # "running"
    /\ Move(o, "pending", "running")

Next == \E o \in Opt : \/ Create(o) \/ Submit(o) \/ Lose(o) \/ Call(o) \/ Return(o)
                       \/ \E old \in Opt : Replace(o, old)

Spec == Init /\ [][Next]_st
=============================================================================
