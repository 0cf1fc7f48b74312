-------------------------------- MODULE DbInit --------------------------------
(***************************************************************************)
(* How a process gets its database engine and sessions.  init_db and       *)
(* get_db_session share one module-level lock, a threading.Lock: a thread  *)
(* that takes it twice waits for itself.  A forked worker child inherits   *)
(* the engine and the lock of its parent, and worker_process_init replaces *)
(* the one and drops the other before the first task.                      *)
(***************************************************************************)
CONSTANTS
    Threads,   \* the threads of the process
    Main,      \* the one that runs the start-up hook
    Forked,    \* a prefork child, as opposed to the API or a pool of threads
    Free,      \* nobody holds the lock
    Parent     \* it was held in the parent at the fork

VARIABLES
    lock,      \* _db_lock
    engine,    \* _db_state["engine"]
    factory,   \* _db_state["session_local"]
    pc         \* pc[t]: where a thread is

vars == <<lock, engine, factory, pc>>

None == "none"

Goto(t, p) == pc' = [pc EXCEPT ![t] = p]

Init == /\ lock \in IF Forked THEN {Free, Parent} ELSE {Free}
        /\ engine \in IF Forked THEN {None, "parents"} ELSE {None}
        /\ factory = engine
        /\ pc = [t \in Threads |-> IF t = Main THEN "hook" ELSE "idle"]
-----------------------------------------------------------------------------
\* reset_db_state replaces the lock ...
Relock == /\ Forked
          /\ pc[Main] = "hook"
          /\ lock' = Free
          /\ Goto(Main, "reset")
          /\ UNCHANGED <<engine, factory>>

\* ... and then drops the inherited engine and its factory under the new one.
Reset == /\ pc[Main] = "reset"
         /\ lock = Free
         /\ engine' = None
         /\ factory' = None
         /\ Goto(Main, "idle")
         /\ UNCHANGED lock

\* The other processes call init_db themselves.  Nothing is served before.
Startup == /\ ~Forked
           /\ pc[Main] = "hook"
           /\ Goto(Main, "init")
           /\ UNCHANGED <<lock, engine, factory>>

\* get_db_session: the test without the lock.
Call(t) == /\ pc[t] = "idle"
           /\ pc[Main] \notin {"hook", "reset", "init"}
           /\ Goto(t, IF factory = None THEN "want" ELSE "served")
           /\ UNCHANGED <<lock, engine, factory>>

\* ... and again with it.
Enter(t) == /\ pc[t] = "want"
            /\ lock = Free
            /\ IF factory = None
               THEN lock' = t /\ Goto(t, "nested")
               ELSE lock' = lock /\ Goto(t, "served")
            /\ UNCHANGED <<engine, factory>>

\* init_db takes the lock, also when get_db_session calls it and holds it already.
InitDb(t) == /\ pc[t] \in {"init", "nested"}
             /\ lock = Free
             /\ engine' = IF engine = None THEN "own" ELSE engine
             /\ factory' = IF engine = None THEN "own" ELSE factory
             /\ Goto(t, IF pc[t] = "init" THEN "idle" ELSE "served")
             /\ UNCHANGED lock

\* The session is closed.
Close(t) == /\ pc[t] = "served"
            /\ Goto(t, "idle")
            /\ UNCHANGED <<lock, engine, factory>>

Step(t) == Call(t) \/ Enter(t) \/ InitDb(t) \/ Close(t)

Next == Relock \/ Reset \/ Startup \/ \E t \in Threads : Step(t)

FairSpec == /\ Init /\ [][Next]_vars
            /\ WF_vars(Relock \/ Reset \/ Startup)
            /\ \A t \in Threads : WF_vars(Step(t))
-----------------------------------------------------------------------------
\* "the next ``get_db_session`` call re-inits against the same DATABASE_URL"
\* (database.py:73): a thread that finds no factory gets a session in the end.
SessionIsServed == \A t \in Threads : pc[t] = "want" ~> pc[t] = "served"
=============================================================================
