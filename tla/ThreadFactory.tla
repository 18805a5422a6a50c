--------------------------- MODULE ThreadFactory ---------------------------
(***************************************************************************)
(* detsched: the domains a process has declared, its threads, and the      *)
(* registry that get_threads lists.  A thread of a real-time domain is     *)
(* created with its policy; without the privilege it falls back to normal  *)
(* scheduling, or is refused when DTS_STRICT_SCHED is set.                 *)
(*                                                                         *)
(* The operators are steps of the thread that calls them; the module that  *)
(* composes them says what else a step changes.                            *)
(***************************************************************************)
EXTENDS Naturals, Sequences, FiniteSets

CONSTANTS
    Names,      \* threads the process creates
    Realtime    \* those in a segment with a real-time policy

VARIABLES
    privileged, \* the process may use real-time policies (CAP_SYS_NICE)
    strict,     \* DTS_STRICT_SCHED is set
    domains,    \* m_domains
    thread,     \* each thread and its handle: none, running, returned, freed
    policy,     \* ThreadHandleImpl::m_schedPolicy
    registry    \* m_registry

factoryVars == <<privileged, strict, domains, thread, policy, registry>>
environment == <<privileged, strict>>

FactoryInit ==
    /\ privileged \in BOOLEAN /\ strict \in BOOLEAN
    /\ domains = {} /\ registry = {}
    /\ thread = [n \in Names |-> "none"]
    /\ policy = [n \in Names |-> "none"]

DomainOf(n) == IF n \in Realtime THEN "DTS" ELSE "BKG"

DeclareDomain(d) ==
    /\ domains' = domains \cup {d}
    /\ UNCHANGED <<environment, thread, policy, registry>>

(* The checks before pthread_create and the refusal after EPERM.            *)
Refused(n) ==
    \/ DomainOf(n) \notin domains
    \/ n \in Realtime /\ ~privileged /\ strict

(* pthread_create succeeds, at once or after the fallback; the thread runs, *)
(* and its creator has yet to enter it in the registry.                     *)
CreateThread(n) ==
    /\ thread[n] = "none" /\ ~Refused(n)
    /\ thread' = [thread EXCEPT ![n] = "running"]
    /\ policy' = [policy EXCEPT ![n] = IF n \in Realtime /\ privileged THEN "RR" ELSE "OTHER"]
    /\ UNCHANGED <<environment, domains, registry>>

(* CreateThread returns nullptr: refused, or the system has no thread left. *)
CreateFails(n) == thread[n] = "none" /\ UNCHANGED factoryVars

Enlist(n) ==
    /\ registry' = registry \cup {n}
    /\ UNCHANGED <<environment, domains, thread, policy>>

(* The thread's function returns.                                           *)
ThreadReturns(n) ==
    /\ thread[n] = "running"
    /\ thread' = [thread EXCEPT ![n] = "returned"]
    /\ UNCHANGED <<environment, domains, policy, registry>>

(* Faulty variant: the handle stays in the registry.                        *)
Erase_Forgotten(n) == UNCHANGED factoryVars

(* DestroyThread up to the join.                                            *)
Erase(n) ==
    /\ registry' = registry \ {n}
    /\ UNCHANGED <<environment, domains, thread, policy>>

(* pthread_join, then the handle is deleted.                                *)
Join(n) ==
    /\ thread[n] = "returned"
    /\ thread' = [thread EXCEPT ![n] = "freed"]
    /\ UNCHANGED <<environment, domains, policy, registry>>

(* What get_threads reads, under the registry's mutex.                      *)
QueryThreads == [n \in registry |-> [domain |-> DomainOf(n), policy |-> policy[n]]]

-----------------------------------------------------------------------------
(* Every variable has its type.                                             *)
FactoryTypeOK ==
    /\ privileged \in BOOLEAN /\ strict \in BOOLEAN
    /\ domains \subseteq {"DTS", "BKG"} /\ registry \subseteq Names
    /\ thread \in [Names -> {"none", "running", "returned", "freed"}]
    /\ policy \in [Names -> {"none", "RR", "OTHER"}]

(* Every handle in the registry is allocated, so a query that runs while    *)
(* the main thread creates or destroys threads reads no freed handle.       *)
RegistryLive == \A n \in registry : thread[n] \in {"running", "returned"}
=============================================================================
