------------------------------ MODULE Streams ------------------------------
(* The compression of lminiz.c: deflator and inflator objects, which carry *)
(* a miniz stream from call to call, and uncompress, which looks for a     *)
(* buffer that is large enough.  Lua makes one call at a time.             *)
(*                                                                         *)
(* The bytes a stream puts out are numbered from 1.  miniz, which is not   *)
(* part of the repository, decompresses into a window of its own, whose    *)
(* end it stops at, and serves a call's turns from there.  The luaL_Buffer *)
(* is that of LuaJIT and Lua 5.1: a C array, and its earlier contents as   *)
(* strings on the Lua stack.                                               *)
EXTENDS Integers, SequencesExt

CONSTANTS Streams,      \* the objects Lua has
          BufferSize,   \* LUAL_BUFFERSIZE
          LIMIT,        \* strings that luaL_Buffer leaves on the stack
          Window,       \* bytes in an inflator's window
          INT_MAX,
          MaxCalls,     \* calls made
          MaxDue,       \* bytes that the input of one call brings
          Nil, Message  \* Lua's nil, a message of mz_error

ASSUME StreamsAssumption ==
    /\ Nil \notin Streams /\ Nil \notin Seq(Nat)      \* nil is no string of bytes
    /\ BufferSize \in Nat \ {0} /\ INT_MAX \in Nat \ {0}
    /\ LIMIT \in Nat \ {0} /\ Window \in Nat \ {0}
    /\ MaxCalls \in Nat /\ MaxDue \in Nat

flush_types == {"no", "partial", "sync", "full", "finish", "block"}

VARIABLES stream,       \* a stream's mode and what miniz keeps of it
          got,          \* the bytes its successful calls have returned
          calls,        \* how many calls were made
          call,         \* the call of a stream under way
          buf,          \* its luaL_Buffer: array p, strings on the stack, how many
          result,       \* what the last call of a stream returned
          unz           \* the last call of uncompress

vars == <<stream, got, calls, call, buf, result, unz>>

Bytes(from, to) == [i \in 1 .. to - from |-> from + i]

NoStream == [mode |-> "none", used |-> FALSE, broken |-> FALSE, data |-> "open",
             spills |-> FALSE, owed |-> 0, kept |-> 0, total_out |-> 0]
NoCall == [of |-> Nil, flush |-> "no", corrupt |-> FALSE, begun |-> FALSE]
NoBuffer == [p |-> <<>>, stack |-> <<>>, lvl |-> 0]
NoResult == [failed |-> FALSE, values |-> <<>>]
NoUnz == [at |-> "idle", first |-> 1, out_len |-> 1, size |-> 0, corrupt |-> FALSE, ret |-> "none",
          held |-> 0]

Init == /\ stream = [s \in Streams |-> NoStream]
        /\ got = [s \in Streams |-> <<>>]
        /\ calls = 0 /\ call = NoCall /\ buf = NoBuffer /\ result = NoResult
        /\ unz = NoUnz

Idle == call = NoCall /\ unz.at # "loop"

Calls == Idle /\ calls < MaxCalls /\ calls' = calls + 1

(* new_deflator and new_inflator; a stream no longer used goes with the    *)
(* garbage.                                                                *)
New(s, mode) ==
    /\ Calls
    /\ stream' = [stream EXCEPT ![s] = [NoStream EXCEPT !.mode = mode]]
    /\ got' = [got EXCEPT ![s] = <<>>]
    /\ UNCHANGED <<call, buf, result, unz>>

-----------------------------------------------------------------------------
(* miniz answers these with MZ_STREAM_ERROR; once told to finish, an       *)
(* inflator takes no other flush.                                          *)
Refuses(s, flush) ==
    \/ flush = "block"
    \/ /\ stream[s].mode = "inflate"
       /\ flush = "full" \/ (stream[s].data = "finished" /\ flush # "finish")

(* A deflator's data end where it is told to finish.  An inflator's end    *)
(* with some call, and told to finish before, it takes them for corrupt.   *)
Ends(st, flush, last, corrupt) ==
    /\ corrupt => st.mode = "inflate" /\ st.data = "open" /\ ~last
    /\ st.data # "open" => last
    /\ st.data = "open" /\ st.mode = "deflate" => (last <=> flush = "finish")
    /\ st.mode = "inflate" /\ flush = "finish" => last \/ corrupt

(* An inflator that miniz does not serve whole: told to finish, after      *)
(* earlier calls, with more due than a buffer; or with data that go on     *)
(* past the window's end, unless they end, and in step with the buffer.    *)
Spills(st, flush, last, all) ==
    /\ st.mode = "inflate"
    /\ \/ flush = "finish" /\ st.used /\ all > BufferSize
       \/ /\ (st.total_out % Window) + all > Window
          /\ ~last \/ (st.total_out % BufferSize) # 0 \/ flush = "finish"

(* inflate or deflate is called with a string: bytes become due, and the   *)
(* data end, or are corrupt after these, or go on.  A deflator may keep    *)
(* bytes until it is told to flush.                                        *)
Starts(s, flush) ==
    /\ Calls /\ stream[s].mode # "none"
    /\ \E last, corrupt \in BOOLEAN :
         /\ Ends(stream[s], flush, last, corrupt)
         /\ call' = [of |-> s, flush |-> flush, corrupt |-> corrupt, begun |-> FALSE]
         /\ IF Refuses(s, flush) THEN UNCHANGED stream
            ELSE \E due \in 0 .. MaxDue, kept \in 0 .. MaxDue * MaxCalls :
                   LET st  == stream[s]
                       all == st.owed + st.kept + due
                   IN  /\ kept <= all /\ (st.data # "open" => due = 0)
                       /\ kept > 0 => st.mode = "deflate" /\ flush = "no"
                       /\ stream' = [stream EXCEPT ![s].owed = all - kept, ![s].kept = kept,
                               ![s].data = IF flush = "finish" THEN "finished"
                                           ELSE IF last /\ @ = "open" THEN "ended" ELSE @,
                               ![s].spills = @ \/ Spills(st, flush, last, all)]
    /\ buf' = NoBuffer
    /\ UNCHANGED <<got, result, unz>>

emptybuffer(b) ==
    IF b.p = <<>> THEN b
    ELSE [p |-> <<>>, stack |-> Append(b.stack, b.p), lvl |-> b.lvl + 1]

(* luaL_prepbuffer's adjuststack: the top strings are joined while there   *)
(* are many, or while they are longer than the one below them.             *)
Top(b, n) == SubSeq(b.stack, Len(b.stack) - n + 1, Len(b.stack))

Joins(b, n) ==
    /\ n < b.lvl
    /\ \/ b.lvl - n + 1 >= LIMIT
       \/ Len(FlattenSeq(Top(b, n))) > Len(b.stack[Len(b.stack) - n])

toget(b) == Min({n \in 1 .. b.lvl : ~Joins(b, n)})

adjuststack(b) ==
    IF b.lvl <= 1 THEN b
    ELSE [b EXCEPT !.stack = Append(SubSeq(@, 1, Len(@) - toget(b)), FlattenSeq(Top(b, toget(b)))),
                   !.lvl = @ - toget(b) + 1]

luaL_prepbuffer(b) == IF b.p = <<>> THEN b ELSE adjuststack(emptybuffer(b))

LuaError == <<>>

luaL_pushresult(b) ==
    LET e     == emptybuffer(b)
        below == Len(e.stack) - e.lvl
    IN  CASE e.lvl = 0 -> Append(e.stack, <<>>)
          [] e.lvl = 1 -> e.stack
          [] e.lvl > 1 /\ Contains(Top(e, e.lvl), Nil) -> LuaError
          [] OTHER -> Append(SubSeq(e.stack, 1, below), FlattenSeq(Top(e, e.lvl)))

LastThree(s) == SubSeq(s, Len(s) - 2, Len(s))

Returns(outcome) == call' = NoCall /\ buf' = NoBuffer /\ result' = outcome

(* What miniz puts out in one turn, at most a buffer full.                 *)
Puts == LET owed == stream[call.of].owed
        IN  IF owed < BufferSize THEN owed ELSE BufferSize

Advance(n, left, broken) ==
    stream' = [stream EXCEPT ![call.of].owed = left, ![call.of].total_out = @ + n,
                             ![call.of].used = TRUE, ![call.of].broken = broken]

AddsTotal(before, total_out) == Bytes(0, total_out)

Adds(before, total_out) == Bytes(before, total_out)

LoopsOnce(avail_out) == FALSE

Loops(avail_out) == avail_out = 0

(* The end of a turn: another one if the buffer is full, or the result.    *)
EndsTurn(n, p) ==
    LET filled == [luaL_prepbuffer(buf) EXCEPT !.p = p]
        values == luaL_pushresult(filled)
    IN  IF Loops(BufferSize - n)
        THEN buf' = filled /\ call' = [call EXCEPT !.begun = TRUE] /\ UNCHANGED <<got, result>>
        ELSE /\ Returns([failed |-> FALSE, values |-> values])
             /\ got' = [got EXCEPT ![call.of] = @ \o values[1]]

Refused == Refuses(call.of, call.flush)

Inflates == stream[call.of].mode = "inflate"

(* The first turn of an inflator told to finish goes past the window, into *)
(* a buffer that should have room for all there is.                        *)
Expects == Inflates /\ call.flush = "finish" /\ ~stream[call.of].used

(* How far the window's end is; and whether more is decompressed into the  *)
(* window in this turn.                                                    *)
Room == Window - (stream[call.of].total_out % Window)

Runs == Inflates /\ (~call.begun \/ Room = Window)

Meets == /\ call.corrupt /\ Runs
         /\ stream[call.of].owed <= IF Expects THEN BufferSize ELSE Room

Turn == /\ call # NoCall /\ ~Refused /\ ~stream[call.of].broken /\ ~Meets
        /\ UNCHANGED <<calls, unz>>

LacksRoom == Expects /\ stream[call.of].owed > BufferSize

(* Told to finish, with more decompressed than the buffer takes.           *)
TooMuch == /\ stream[call.of].spills /\ Runs
           /\ call.flush = "finish" /\ stream[call.of].owed > BufferSize

(* No input is left for a window that was begun anew.                      *)
Starves == stream[call.of].spills /\ Runs /\ call.begun /\ call.flush # "finish"

MeetsEdge == stream[call.of].spills /\ Inflates /\ Puts > Room

Adding(n) == LET before == stream[call.of].total_out IN Adds(before, before + n)

(* MZ_OK or MZ_STREAM_END; or MZ_BUF_ERROR when there was nothing to do.   *)
Fills ==
    /\ Turn /\ ~LacksRoom /\ ~TooMuch /\ ~(MeetsEdge /\ call.begun)
    /\ Advance(Puts, stream[call.of].owed - Puts, FALSE)
    /\ EndsTurn(Puts, Adding(Puts))

(* MZ_BUF_ERROR: what was put out is not added.  An inflator that lacked   *)
(* room in its first turn is of no use any more.                           *)
Drops ==
    /\ Turn /\ (LacksRoom \/ TooMuch \/ Starves)
    /\ Advance(Puts, stream[call.of].owed - Puts, LacksRoom)
    /\ EndsTurn(Puts, <<>>)

(* MZ_OK at the window's end with room left in the buffer: the call ends,  *)
(* and input that was not taken is lost.                                   *)
FallsShort ==
    /\ Turn /\ ~LacksRoom /\ ~TooMuch /\ MeetsEdge
    /\ \E left \in 0 .. stream[call.of].owed - Room : Advance(Room, left, FALSE)
    /\ EndsTurn(Room, Adding(Room))

(* Any other status: nil, the message, and what the buffer holds.          *)
Fails ==
    /\ call # NoCall /\ (Refused \/ stream[call.of].broken \/ Meets)
    /\ IF Refused THEN UNCHANGED stream ELSE Advance(0, stream[call.of].owed, TRUE)
    /\ LET e      == luaL_prepbuffer(buf)
           values == luaL_pushresult([e EXCEPT !.stack = @ \o <<Nil, Message>>])
       IN  Returns([failed |-> TRUE,
                    values |-> IF values = LuaError THEN LuaError ELSE LastThree(values)])
    /\ UNCHANGED <<got, calls, unz>>

-----------------------------------------------------------------------------
(* uncompress is called with a first size of the buffer, for data that is  *)
(* corrupt or has some size uncompressed.                                  *)
Uncompress(out_len) ==
    /\ Calls /\ out_len \in 1 .. INT_MAX
    /\ \E size \in 0 .. INT_MAX, corrupt \in BOOLEAN :
         unz' = [at |-> "loop", first |-> out_len, out_len |-> out_len,
                 size |-> size, corrupt |-> corrupt, ret |-> "none", held |-> 0]
    /\ UNCHANGED <<stream, got, call, buf, result>>

Frees(held) == held - 1

HalfWay(out_len) == out_len > 1 /\ 2 * out_len < INT_MAX

TriesAgain(out_len) == out_len > 1 /\ out_len < INT_MAX

(* One turn: malloc and mz_uncompress; and after the last, the result and  *)
(* the free after the loop.  On the way out at INT_MAX the buffer that the *)
(* turn freed is freed again.                                              *)
Tries ==
    /\ unz.at = "loop"
    /\ LET held  == unz.held + 1
           twice == 2 * unz.out_len
       IN  unz' =
             CASE unz.corrupt \/ unz.size <= unz.out_len ->
                    [unz EXCEPT !.at = "end", !.held = held - 1,
                                !.ret = IF unz.corrupt THEN "data_error" ELSE "ok"]
               [] ~unz.corrupt /\ unz.size > unz.out_len /\ TriesAgain(twice) ->
                    [unz EXCEPT !.out_len = twice, !.held = Frees(held)]
               [] OTHER ->
                    [unz EXCEPT !.out_len = twice, !.held = Frees(held) - 1,
                                !.at = "end", !.ret = "buf_error"]
    /\ UNCHANGED <<stream, got, calls, call, buf, result>>

Next == \/ \E s \in Streams :
             \/ \E mode \in {"deflate", "inflate"} : New(s, mode)
             \/ \E flush \in flush_types : Starts(s, flush)
        \/ Fills \/ Drops \/ FallsShort \/ Fails
        \/ \E out_len \in 0 .. INT_MAX + 1 : Uncompress(out_len)
        \/ Tries

Spec == Init /\ [][Next]_vars

-----------------------------------------------------------------------------
(* A stream that has not failed has given its callers, in order, all the   *)
(* bytes it has put out, none twice, whatever the buffer's boundaries and  *)
(* the strings' joining did to them; the rest is in the buffer of the call *)
(* under way.  The inflators of Spills are left out: the code loses bytes  *)
(* of theirs (lminiz.c:315).                                               *)
OutputWhole ==
    \A s \in Streams :
        stream[s].mode # "none" /\ ~stream[s].broken /\ ~stream[s].spills =>
            LET inHand == IF call.of = s THEN FlattenSeq(Append(buf.stack, buf.p)) ELSE <<>>
            IN  got[s] \o inHand = Bytes(0, stream[s].total_out)

(* main.lua:197-208 of the test application takes what a call returns for  *)
(* all that its part of the data gives: nothing that is due waits for      *)
(* another call, also when it fills the buffer to the last byte.  The      *)
(* inflators of Spills, again, are left out.                               *)
FlushedWhole ==
    call = NoCall =>
        \A s \in Streams : ~stream[s].broken /\ ~stream[s].spills => stream[s].owed = 0

(* main.lua:182-184 of the test application: a call that fails returns nil *)
(* and a message.                                                          *)
FailureIsNil ==
    result.failed => /\ Len(result.values) = 3
                     /\ result.values[1] = Nil /\ result.values[2] = Message

(* The sizes that doubling makes of a first one.                           *)
Sizes(first, doublings) ==
    LET size[k \in 0 .. doublings] == IF k = 0 THEN first ELSE 2 * size[k - 1]
    IN  size

(* uncompress finds a buffer exactly if one of the sizes it tries is large *)
(* enough, the first or a doubled one below INT_MAX, and frees those it    *)
(* made, each once (lminiz.c:418-444).  The exit with the size run up to   *)
(* INT_MAX is left out of the last part: line 442 frees again what line    *)
(* 426 has freed.                                                          *)
UncompressExact ==
    unz.at = "end" =>
        /\ ~unz.corrupt =>
            (unz.ret = "ok"
               <=> \E k \in 0 .. unz.size :
                     LET size == Sizes(unz.first, unz.size)[k]
                     IN  unz.size <= size /\ (k > 0 => size < INT_MAX))
        /\ unz.ret # "buf_error" => unz.held = 0
=============================================================================
