------------------------------ MODULE CoSpecific ------------------------------
(***************************************************************************)
(* What libco keeps once per coroutine instead of once per thread, composed *)
(* with the hooked calls: the environment variables named in               *)
(* co_set_env_list, and the buffer gethostbyname answers in (a             *)
(* CO_ROUTINE_SPECIFIC object), which is in use while the resolver waits.  *)
(***************************************************************************)
EXTENDS Hooks

CONSTANTS
    Names,     \* environment variables
    EnvValues, \* their values
    Hosts      \* host names

\* None is no coroutine's array of values.
ASSUME SpecificAssumption == None \notin [Names -> EnvValues \cup {None}]

VARIABLES
    g_co_sysenv,  \* the names kept per coroutine, None before co_set_env_list
    environ,      \* [Names -> the process's value or None]
    pvEnv,        \* [Cos -> a coroutine's own values, None before the first use]
    hostbuf,      \* [Cos -> the host whose address the buffer holds, or None]
    resolving,    \* [Cos -> the host being looked up, or None]
    \* history
    mine,         \* [Cos -> [Names -> the value co gave the variable last]]
    answer        \* [Cos -> the host co holds the answer for, or None]

envVars == <<g_co_sysenv, environ, pvEnv, hostbuf, resolving, mine, answer>>

NoValues == [n \in Names |-> None]

EnvInit ==
    /\ g_co_sysenv = None
    /\ environ = NoValues
    /\ pvEnv = [co \in Cos |-> None]
    /\ hostbuf = [co \in Cos |-> None] /\ resolving = [co \in Cos |-> None]
    /\ mine = [co \in Cos |-> NoValues] /\ answer = [co \in Cos |-> None]

-----------------------------------------------------------------------------
(* Where co_getspecific and pvEnv find a coroutine's data.                  *)

SpecificShared(co) == CHOOSE c \in Hooked : TRUE

Specific(co) == co

\* The coroutine's own array, with no value yet when it is first used.
dup_co_sysenv_arr(co) ==
    IF pvEnv[Specific(co)] = None THEN NoValues ELSE pvEnv[Specific(co)]

Free(co) == Runs(co) /\ resolving[co] = None

\* The names are sorted and duplicates dropped; a second call is ignored.
co_set_env_list(names) ==
    /\ g_co_sysenv = None
    /\ \A co \in Cos : mine[co] = NoValues
    /\ g_co_sysenv' = names
    /\ UNCHANGED <<environ, pvEnv, hostbuf, resolving, mine, answer>>

\* bsearch finds the name in the coroutine's array.
Private(co, n) == co \in Hooked /\ g_co_sysenv # None /\ n \in g_co_sysenv

Assigned(old, value, overwrite) == IF overwrite \/ old = None THEN value ELSE old

setenv(co, n, value, overwrite) ==
    /\ Free(co)
    /\ IF Private(co, n)
       THEN /\ pvEnv' = [pvEnv EXCEPT ![Specific(co)] =
                  [dup_co_sysenv_arr(co) EXCEPT ![n] = Assigned(@, value, overwrite)]]
            /\ mine' = [mine EXCEPT ![co][n] = Assigned(@, value, overwrite)]
            /\ UNCHANGED environ
       ELSE /\ environ' = [environ EXCEPT ![n] = Assigned(@, value, overwrite)]
            /\ UNCHANGED <<pvEnv, mine>>
    /\ UNCHANGED <<g_co_sysenv, hostbuf, resolving, answer>>

unsetenv(co, n) ==
    /\ Free(co)
    /\ IF Private(co, n)
       THEN /\ pvEnv' = [pvEnv EXCEPT ![Specific(co)] =
                  [dup_co_sysenv_arr(co) EXCEPT ![n] = None]]
            /\ mine' = [mine EXCEPT ![co][n] = None]
            /\ UNCHANGED environ
       ELSE environ' = [environ EXCEPT ![n] = None] /\ UNCHANGED <<pvEnv, mine>>
    /\ UNCHANGED <<g_co_sysenv, hostbuf, resolving, answer>>

getenv(co, n) == IF Private(co, n) THEN dup_co_sysenv_arr(co)[n] ELSE environ[n]

\* A hooked lookup waits in poll(); without hooks the thread waits.
gethostbyname(co, name) ==
    /\ Free(co)
    /\ answer' = [answer EXCEPT ![co] = None]
    /\ resolving' = [resolving EXCEPT ![co] = name]
    /\ UNCHANGED <<g_co_sysenv, environ, pvEnv, hostbuf, mine>>

\* gethostbyname_r fills the buffer, grown until the answer fits.
co_gethostbyname(co) ==
    /\ resolving[co] # None
    /\ hostbuf' = [hostbuf EXCEPT ![Specific(co)] = resolving[co]]
    /\ answer' = [answer EXCEPT ![co] = resolving[co]]
    /\ resolving' = [resolving EXCEPT ![co] = None]
    /\ UNCHANGED <<g_co_sysenv, environ, pvEnv, mine>>

EnvNext ==
    \/ \E names \in SUBSET Names : co_set_env_list(names)
    \/ \E co \in Cos, n \in Names :
          \/ unsetenv(co, n)
          \/ \E value \in EnvValues, overwrite \in BOOLEAN : setenv(co, n, value, overwrite)
    \/ \E co \in Hooked : co_gethostbyname(co) \/ \E name \in Hosts : gethostbyname(co, name)

-----------------------------------------------------------------------------

LibcoCallsInit == Init /\ EnvInit
LibcoCallsNext == (Next /\ UNCHANGED envVars) \/ (EnvNext /\ UNCHANGED vars)

LibcoCallsSpec ==
    /\ LibcoCallsInit /\ [][LibcoCallsNext]_<<vars, envVars>>
    /\ \A co \in Cos : WF_vars(Polled(co) /\ UNCHANGED envVars)

\* A hooked coroutine reads back, for a name of the list, what it set itself:
\* nobody else's value and not the process's.
EnvIsOwn ==
    \A co \in Hooked, n \in Names : Private(co, n) => getenv(co, n) = mine[co][n]

\* The answer of gethostbyname stays what it was until the coroutine asks again,
\* although other coroutines look up other hosts in the meantime.
HostIsOwn ==
    \A co \in Hooked : answer[co] # None => hostbuf[Specific(co)] = answer[co]

\* What is kept once per coroutine is never that of another one.
SpecificIsOwn == EnvIsOwn /\ HostIsOwn
=============================================================================
