------------------------------ MODULE MCTimer ------------------------------
EXTENDS Timer

\* One user adds timers, the other does the rest with them.
MCUsers == {"adder", "changer"}

MCOps == [u \in MCUsers |-> IF u = "adder" THEN {"addTimer"}
                            ELSE {"cancel", "refresh", "reset"}]
=============================================================================
