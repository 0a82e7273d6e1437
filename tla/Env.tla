-------------------------------- MODULE Env --------------------------------
(***************************************************************************)
(* The env module of lenv.c, called by the threads of one process: luvi    *)
(* makes every thread a Lua state of its own (main.c), but the environment *)
(* is the process's.  A call of the C library or of Windows is one step;   *)
(* between two calls another thread may write.  A value is its length.     *)
(***************************************************************************)
EXTENDS Integers, Sequences, FiniteSets

CONSTANTS
    Threads,
    Names,        \* names of variables, "=" stands for a hidden one of Windows
    MaxValue,     \* bound: the longest value
    MaxCalls      \* bound: calls of all threads

Values  == 0 .. MaxValue
Unset   == -1     \* Lua's nil
Garbage == -2     \* whatever the buffer held

ASSUME EnvAssumption == MaxValue \in Nat /\ MaxCalls \in Nat /\ "=" \in Names

VARIABLES
    platform,     \* "posix" or "windows"
    environ,      \* the process environment, in its order
    calls,        \* calls begun
    at,           \* where a thread is, or how its last call ended
    arg,          \* the name it asks for, or the argument of keys
    size,         \* keys: variables counted; get: characters the buffer holds
    keys,         \* the list keys builds
    value,        \* get: what its pointer points to, or what it returned
    seen,         \* history: the environments there were during the call
    written       \* history: the variables others wrote during the call

envVars == <<platform, environ, calls, at, arg, size, keys, value, seen, written>>

Ended == {"idle", "listed", "got", "raised"}
NoFault == \A t \in Threads : at[t] # "fault"

Valid == Names \ {"="}

EnvInit ==
    /\ platform \in {"posix", "windows"}
    /\ environ \in [1 .. 2 -> [name : Names, value : {0}]]
    /\ environ[1].name # environ[2].name
    /\ platform = "posix" => \A i \in 1 .. 2 : environ[i].name \in Valid
    /\ calls = 0
    /\ at = [t \in Threads |-> "idle"]
    /\ arg = [t \in Threads |-> ""]
    /\ size = [t \in Threads |-> 0]
    /\ keys = [t \in Threads |-> <<>>]
    /\ value = [t \in Threads |-> Unset]
    /\ seen = [t \in Threads |-> {}]
    /\ written = [t \in Threads |-> {}]

Position(e, name) == CHOOSE i \in DOMAIN e : e[i].name = name

ValueIn(e, name) ==
    IF \E i \in DOMAIN e : e[i].name = name THEN e[Position(e, name)].value ELSE Unset

\* Thread t begins a call, with locals of its own, and gets as far as step.
CallsWith(t, step, name, n, list, v) ==
    /\ NoFault
    /\ at[t] \in Ended
    /\ calls < MaxCalls
    /\ calls' = calls + 1
    /\ at' = [at EXCEPT ![t] = step]
    /\ arg' = [arg EXCEPT ![t] = name]
    /\ size' = [size EXCEPT ![t] = n]
    /\ keys' = [keys EXCEPT ![t] = list]
    /\ value' = [value EXCEPT ![t] = v]
    /\ UNCHANGED platform

Reads(t) ==
    /\ seen' = [seen EXCEPT ![t] = {environ}]
    /\ written' = [written EXCEPT ![t] = {}]
    /\ UNCHANGED environ

Calls(t, step) == CallsWith(t, step, "", 0, <<>>, Unset)

Goes(t, from, to) ==
    /\ NoFault
    /\ at[t] = from
    /\ at' = [at EXCEPT ![t] = to]
    /\ UNCHANGED <<platform, environ, calls, arg, written>>

\* A call that writes a variable is one step, which the calls under way have seen.
Writes(t, name, e) ==
    LET Now(old, new) == [u \in Threads |-> IF u = t THEN {}
                                            ELSE IF at[u] \in Ended THEN old[u]
                                            ELSE old[u] \cup {new}]
    IN  /\ Calls(t, "idle")
        /\ environ' = e
        /\ seen' = Now(seen, e)
        /\ written' = Now(written, name)

\* A call raises, or returns nothing, before it changed anything: a name is
\* invalid, or memory is short.
Raises(t) == Calls(t, "raised") /\ Reads(t)

\* setenv replaces a value in place and puts a new variable last.
With(e, name, v) ==
    IF ValueIn(e, name) = Unset THEN Append(e, [name |-> name, value |-> v])
    ELSE [e EXCEPT ![Position(e, name)] = [name |-> name, value |-> v]]

\* unsetenv moves what follows the variable down.
Without(e, name) ==
    IF ValueIn(e, name) = Unset THEN e
    ELSE [i \in 1 .. Len(e) - 1 |-> IF i < Position(e, name) THEN e[i] ELSE e[i + 1]]

lenv_set(t, name, v) ==
    /\ platform = "posix" => name \in Valid
    /\ Writes(t, name, With(environ, name, v))

lenv_unset(t, name) ==
    /\ platform = "posix" => name \in Valid
    /\ Writes(t, name, Without(environ, name))

\* get begins with getenv on POSIX, which points into the environment, and on
\* Windows with a call for the size, which counts the terminator. No variable is nil.
lenv_get(t, name) ==
    LET v == ValueIn(environ, name) IN
    /\ \/ v = Unset /\ CallsWith(t, "got", name, 0, <<>>, Unset)
       \/ v # Unset /\ platform = "posix" /\ CallsWith(t, "pointed", name, 0, <<>>, v)
       \/ v # Unset /\ platform = "windows" /\ CallsWith(t, "sized", name, v + 1, <<>>, Unset)
    /\ Reads(t)

\* What is at the pointer after another thread wrote the variable is up to the C
\* library: the string as it was, that of the new value, or memory freed or in use
\* for something else.
AtPointer(t) ==
    IF arg[t] \in written[t]
    THEN {value[t], Garbage} \cup ({ValueIn(environ, arg[t])} \ {Unset})
    ELSE {value[t]}

\* On POSIX lua_pushstring copies the string at the pointer ...
CopiesValue(t) ==
    /\ \/ /\ Goes(t, "pointed", "got")
          /\ \E v \in AtPointer(t) : value' = [value EXCEPT ![t] = v]
       \/ Goes(t, "pointed", "raised") /\ UNCHANGED value
    /\ UNCHANGED <<size, keys, seen>>

FitsShort(v, n) == v + 1 < n            \* mutant: the terminator counted twice
Fits(v, n) == v + 1 <= n

\* ... and on Windows a second call gets the value. Its result is not looked at: a
\* value that has grown, or a variable that is gone, leaves the buffer as malloc
\* gave it.
GetsValue(t) ==
    LET v == ValueIn(environ, arg[t]) IN
    /\ \/ /\ Goes(t, "sized", "got")
          /\ value' = [value EXCEPT ![t] =
                        IF v # Unset /\ Fits(v, size[t]) THEN v ELSE Garbage]
       \/ Goes(t, "sized", "raised") /\ UNCHANGED value
    /\ UNCHANGED <<size, keys, seen>>

Shown(entry, show) == show \/ entry.name # "="

Adds(list, entry, show) == IF Shown(entry, show) THEN Append(list, entry.name) ELSE list

\* The list after each entry that the loop of keys goes through.
Listing(e, show) ==
    LET list[n \in 0 .. Len(e)] ==
          IF n = 0 THEN <<>> ELSE Adds(list[n - 1], e[n], show)
    IN  list

\* keys on Windows lists a copy of the environment ...
KeysOfCopy(t, show) ==
    /\ platform = "windows"
    /\ CallsWith(t, "listed", IF show THEN "show_hidden" ELSE "", 0,
                 Listing(environ, show)[Len(environ)], Unset)
    /\ Reads(t)

\* ... and on POSIX counts the entries of environ ...
CountsKeys(t) ==
    /\ platform = "posix"
    /\ CallsWith(t, "reading", "show_hidden", Len(environ), <<>>, Unset)
    /\ Reads(t)

ReadAllButOne(t) == Len(keys[t]) + 1 >= size[t]     \* mutant: i < size - 1
ReadAll(t) == Len(keys[t]) >= size[t]

\* ... then reads as many, one by one; past the end it meets the NULL.
ReadsKey(t) ==
    LET i == Len(keys[t]) + 1 IN
    /\ IF ReadAll(t) THEN Goes(t, "reading", "listed") /\ UNCHANGED keys
       ELSE IF i > Len(environ) THEN Goes(t, "reading", "fault") /\ UNCHANGED keys
       ELSE /\ Goes(t, "reading", "reading")
            /\ keys' = [keys EXCEPT ![t] = Append(@, environ[i].name)]
    /\ UNCHANGED <<size, value, seen>>

EnvStep(t) ==
    \/ Raises(t)
    \/ \E name \in Names :
        \/ \E v \in Values : lenv_set(t, name, v)
        \/ lenv_unset(t, name)
        \/ lenv_get(t, name)
    \/ \E show \in BOOLEAN : KeysOfCopy(t, show)
    \/ CopiesValue(t) \/ GetsValue(t) \/ CountsKeys(t) \/ ReadsKey(t)

\* A list has the names of an environment in its order, but for hidden ones.
Lists(names, e, hidden) ==
    LET listed   == {i \in 1 .. Len(e) : e[i].name \notin hidden}
        Place(i) == Cardinality(listed \cap 1 .. i)
    IN  /\ Len(names) = Cardinality(listed)
        /\ \A i \in listed : names[Place(i)] = e[i].name

Hidden(asked) == IF asked = "show_hidden" THEN {} ELSE {"="}

\* Nobody wrote during the call.
Undisturbed(t) == \A e, f \in seen[t] : e = f

\* What keys returns is the list of the variables there were, hidden ones only
\* if asked: on Windows always, on POSIX if nobody wrote meanwhile; it reads
\* past the end only after an unset during the call (lenv.c:26-90).
KeysTrue ==
    \A t \in Threads :
        /\ at[t] = "listed" /\ (platform = "windows" \/ Undisturbed(t)) =>
            \E e \in seen[t] : Lists(keys[t], e, Hidden(arg[t]))
        /\ at[t] = "fault" => \E e \in seen[t] : Len(e) < size[t]

\* What get returns is a value the variable had during the call, unless another
\* thread wrote that variable between its two steps: on POSIX in any way, on Windows
\* only if it unset it or made its value longer (lenv.c:100-151).
GetTrue ==
    \A t \in Threads : at[t] = "got" =>
        LET had == {ValueIn(e, arg[t]) : e \in seen[t]}
        IN  \/ value[t] \in had
            \/ /\ value[t] = Garbage /\ platform = "posix" /\ arg[t] \in written[t]
            \/ /\ value[t] = Garbage /\ platform = "windows"
               /\ \E v \in had \ {Unset} : \E w \in had : w = Unset \/ w > v
=============================================================================
