----------------------------- MODULE ScopeLock -----------------------------
(***************************************************************************)
(* The scoped guards ReadLock and WriteLock of include/Thread/Mutex.h over *)
(* one RWMutex of src/Thread/Mutex.cc, for the threads of module Env, which*)
(* nests them.                                                             *)
(*                                                                         *)
(* A guard's constructor calls lock(), which tests the member isLocked     *)
(* before anything has set it, and then sets it: what the uninitialised    *)
(* member may read is the constant Garbage.  No return code of the pthread *)
(* calls is looked at: rdlock and wrlock by the thread that holds the lock *)
(* for writing return EDEADLK, and the guard then counts as locked.        *)
(***************************************************************************)
EXTENDS Integers, Sequences, FiniteSets

CONSTANTS
    Threads,
    Garbage,   \* what an uninitialised isLocked may read: a subset of BOOLEAN
    MaxDepth,  \* bound: guards of one thread that are in scope at a time
    None

ASSUME LockAssumption ==
    /\ None \notin Threads
    /\ Garbage \subseteq BOOLEAN /\ MaxDepth \in Nat

\* ReadLock and WriteLock
Modes == {"read", "write"}

VARIABLES
    writer,    \* the thread that holds the lock for writing
    count,     \* the lock's count of holds for reading
    readers,   \* how often every thread holds the lock for reading
    guards,    \* the guards each thread has in scope: [mode, locked]
    undefined  \* a thread has unlocked a lock it does not hold

holds    == <<writer, count, readers>>
lockVars == <<holds, guards, undefined>>

LockInit ==
    /\ writer = None
    /\ count = 0
    /\ readers = [t \in Threads |-> 0]
    /\ guards = [t \in Threads |-> <<>>]
    /\ undefined = FALSE

-----------------------------------------------------------------------------
(* The lock *)

\* RWMutex::rdlock(), RWMutex::wrlock(): enabled when it returns.
Acquire(t, m) ==
    \/ writer = t /\ UNCHANGED holds
    \/ /\ writer = None /\ m = "read"
       /\ count' = count + 1
       /\ readers' = [readers EXCEPT ![t] = @ + 1]
       /\ UNCHANGED writer
    \/ /\ writer = None /\ m = "write"
       /\ count = 0
       /\ writer' = t
       /\ UNCHANGED <<count, readers>>

\* RWMutex::unlock(), which releases whichever mode the thread holds.  Without a
\* hold it is undefined: nothing may happen, or the count of readers goes down.
Release(t) ==
    \/ writer = t /\ writer' = None /\ UNCHANGED <<count, readers, undefined>>
    \/ /\ writer # t /\ readers[t] > 0
       /\ count' = count - 1
       /\ readers' = [readers EXCEPT ![t] = @ - 1]
       /\ UNCHANGED <<writer, undefined>>
    \/ /\ writer # t /\ readers[t] = 0
       /\ undefined' = TRUE
       /\ count' \in {count, count - 1}
       /\ UNCHANGED <<writer, readers>>

-----------------------------------------------------------------------------
(* The guard *)

\* ReadScopeLockImpl(mutex), WriteScopeLockImpl(mutex): lock() with the
\* uninitialised flag, isLocked = true.
Construct(t, m) ==
    /\ Len(guards[t]) < MaxDepth
    /\ \E isLocked \in Garbage :
         IF isLocked THEN UNCHANGED holds ELSE Acquire(t, m)
    /\ guards' = [guards EXCEPT ![t] = Append(@, [mode |-> m, locked |-> TRUE])]
    /\ UNCHANGED undefined

Innermost(t) == guards[t][Len(guards[t])]

\* The destructor of the innermost guard: unlock() if it is locked.
Destruct(t) ==
    /\ guards[t] # <<>>
    /\ IF Innermost(t).locked THEN Release(t) ELSE UNCHANGED <<holds, undefined>>
    /\ guards' = [guards EXCEPT ![t] = SubSeq(@, 1, Len(@) - 1)]
=============================================================================
