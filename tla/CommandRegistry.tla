-------------------------- MODULE CommandRegistry --------------------------
(***************************************************************************)
(* The table of console commands: a vector behind a mutex, filled while    *)
(* the control thread already looks commands up.  Find returns a pointer   *)
(* into the vector and releases the mutex; the call through it comes       *)
(* later.  The vector's storage moves when it grows past its capacity.     *)
(***************************************************************************)
EXTENDS Naturals, Sequences

VARIABLES
    commands,   \* m_commands: the names, in order
    storage,    \* which allocation the vector uses now
    found       \* the control thread's pointer: allocation and index, if any

registryVars == <<commands, storage, found>>

RegistryInit == commands = <<>> /\ storage = 0 /\ found = <<>>

Registered(c) == \E i \in 1..Len(commands) : commands[i] = c

(* The capacity doubles: the storage is full at 0, 1, 2, 4, ... entries.    *)
Full(n) == n = 0 \/ \E k \in 0..n : n = 2^k

Register(c) ==
    /\ IF Registered(c) THEN UNCHANGED <<commands, storage>>
       ELSE /\ commands' = Append(commands, c)
            /\ storage' = IF Full(Len(commands)) THEN storage + 1 ELSE storage
    /\ UNCHANGED found

(* RegisterBuiltins: three commands, once.                                  *)
Builtins == <<"help", "get_threads", "set_log_level">>

RegisterBuiltins ==
    /\ commands' = IF commands = <<>> THEN Builtins ELSE commands
    /\ storage' = IF commands = <<>> THEN 3 ELSE storage
    /\ UNCHANGED found

(* Find, under the mutex; an empty result is "not found".                   *)
Find(c) ==
    /\ found' = IF Registered(c)
                THEN <<storage, CHOOSE i \in 1..Len(commands) : commands[i] = c>>
                ELSE <<>>
    /\ UNCHANGED <<commands, storage>>

(* cmd->fn(args, out): through the pointer, without the mutex.              *)
CallFound == found # <<>> /\ found' = <<>> /\ UNCHANGED <<commands, storage>>

-----------------------------------------------------------------------------
(* The pointer still points into the vector's storage when it is used.      *)
FoundLive == found # <<>> => found[1] = storage
=============================================================================
