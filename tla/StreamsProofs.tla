---------------------------- MODULE StreamsProofs ----------------------------
(* What is due leaves a stream with the call that made it due, for any     *)
(* number of streams and calls and every size of the buffer.               *)
EXTENDS Streams, SequenceFacts

Stream == [mode : {"none", "deflate", "inflate"}, used : BOOLEAN, broken : BOOLEAN,
           data : {"open", "ended", "finished"}, spills : BOOLEAN,
           owed : Nat, kept : Nat, total_out : Nat]

Call == [of : Streams, flush : flush_types, corrupt : BOOLEAN, begun : BOOLEAN]

TypeOK ==
    /\ stream \in [Streams -> Stream]
    /\ call = NoCall \/ call \in Call

(* Only the stream of the call under way may owe bytes, and not even that  *)
(* one if miniz refuses the call; but for an inflator that spills.         *)
OwedInv ==
    \A s \in Streams :
        ~stream[s].broken /\ ~stream[s].spills /\ (call = NoCall \/ s # call.of \/ Refused) => stream[s].owed = 0

StreamInv == TypeOK /\ OwedInv

USE StreamsAssumption

LEMMA StreamInitially == Init => StreamInv
BY DEF Init, StreamInv, TypeOK, OwedInv, Stream, NoStream

LEMMA StartedIsCall == \A c \in Call : c # NoCall
BY DEF Call, NoCall

(* One turn takes what fits in a buffer.                                   *)
LEMMA PutsBounded ==
    ASSUME TypeOK, call # NoCall
    PROVE  /\ call \in Call /\ call.of \in Streams /\ stream[call.of] \in Stream
           /\ Puts \in Nat /\ Puts <= stream[call.of].owed
           /\ Puts # BufferSize => Puts = stream[call.of].owed
<1>1. call \in Call /\ call.of \in Streams
    BY DEF TypeOK, Call
<1>2. stream[call.of] \in Stream
    BY <1>1 DEF TypeOK
<1>3. stream[call.of].owed \in Nat
    BY <1>2 DEF Stream
<1>. QED
    BY <1>1, <1>2, <1>3 DEF Puts

LEMMA AdvanceType ==
    ASSUME TypeOK, call # NoCall, NEW n \in Nat, NEW left \in Nat,
           NEW broken \in BOOLEAN, Advance(n, left, broken)
    PROVE  /\ stream' \in [Streams -> Stream]
           /\ stream'[call.of].broken = broken
           /\ stream'[call.of].owed = left
           /\ stream'[call.of].total_out = stream[call.of].total_out + n
           /\ stream'[call.of].mode = stream[call.of].mode
           /\ stream'[call.of].data = stream[call.of].data
           /\ stream'[call.of].spills = stream[call.of].spills
           /\ \A s \in Streams : s # call.of => stream'[s] = stream[s]
<1> DEFINE st == stream[call.of]
           new == [st EXCEPT !.owed = left, !.total_out = @ + n, !.used = TRUE,
                             !.broken = broken]
<1>1. call.of \in Streams /\ st \in Stream
    BY PutsBounded
<1>2. st.total_out \in Nat /\ st.total_out + n \in Nat
    BY <1>1 DEF Stream
<1>3. /\ new \in Stream /\ new.broken = broken /\ new.owed = left
      /\ new.total_out = st.total_out + n /\ new.mode = st.mode
      /\ new.data = st.data /\ new.spills = st.spills
    BY <1>1, <1>2 DEF Stream
<1>4. stream' = [stream EXCEPT ![call.of] = new]
    BY <1>1 DEF Advance, TypeOK
<1>. QED
    BY <1>1, <1>3, <1>4 DEF TypeOK

(* The end of a turn keeps the call, or ends it after a turn that has left *)
(* room.                                                                   *)
LEMMA TurnCalls ==
    ASSUME TypeOK, call # NoCall, NEW n \in Nat, NEW p, EndsTurn(n, p)
    PROVE  /\ \/ /\ call' \in Call /\ call' # NoCall
                 /\ call'.of = call.of /\ call'.flush = call.flush
              \/ call' = NoCall /\ n # BufferSize
<1>1. call \in Call /\ call # NoCall
    BY DEF TypeOK
<1>2. CASE Loops(BufferSize - n)
    <2>1. call' = [call EXCEPT !.begun = TRUE]
        BY <1>2 DEF EndsTurn
    <2>2. call' \in Call /\ call'.of = call.of /\ call'.flush = call.flush
        BY <1>1, <2>1 DEF Call
    <2>. QED
        BY <2>2, StartedIsCall
<1>3. CASE ~Loops(BufferSize - n)
    BY <1>3 DEF EndsTurn, Returns, Loops
<1>. QED
    BY <1>2, <1>3

LEMMA RoomBounded ==
    ASSUME TypeOK, call # NoCall
    PROVE  Room \in Nat
<1>1. stream[call.of].total_out \in Nat
    BY PutsBounded DEF Stream
<1>2. \A n \in Nat : n % Window \in Nat /\ n % Window < Window
    OBVIOUS
<1>. QED
    BY <1>1, <1>2 DEF Room

(* What a call that miniz takes makes of its stream.                       *)
Started(s, owed, kept, data, spills) ==
    stream' = [stream EXCEPT ![s].owed = owed, ![s].kept = kept, ![s].data = data,
                             ![s].spills = spills]

LEMMA StartsIs ==
    ASSUME TypeOK, NEW s \in Streams, NEW flush \in flush_types, Starts(s, flush),
           ~Refuses(s, flush)
    PROVE  \E owed \in Nat, kept \in Nat, data \in {"open", "ended", "finished"},
              spills \in BOOLEAN :
             /\ Started(s, owed, kept, data, spills)
             /\ stream[s].spills => spills
             /\ data = "finished" => stream[s].data = "finished" \/ flush = "finish"
<1> DEFINE st == stream[s]
           Owed(due) == st.owed + st.kept + due
           Data(last) == IF flush = "finish" THEN "finished"
                         ELSE IF last /\ st.data = "open" THEN "ended" ELSE st.data
           Spilled(last, due) == st.spills \/ Spills(st, flush, last, Owed(due))
<1>1. PICK last \in BOOLEAN :
        \E due \in 0 .. MaxDue, kept \in 0 .. MaxDue * MaxCalls :
          /\ kept <= Owed(due)
          /\ stream' = [stream EXCEPT ![s].owed = Owed(due) - kept, ![s].kept = kept,
                            ![s].data = IF flush = "finish" THEN "finished"
                                        ELSE IF last /\ @ = "open" THEN "ended" ELSE @,
                            ![s].spills = @ \/ Spills(st, flush, last, Owed(due))]
    <2>1. PICK last \in BOOLEAN, corrupt \in BOOLEAN :
            IF Refuses(s, flush) THEN UNCHANGED stream
            ELSE \E due \in 0 .. MaxDue, kept \in 0 .. MaxDue * MaxCalls :
                   LET all == st.owed + st.kept + due
                   IN  /\ kept <= all /\ (st.data # "open" => due = 0)
                       /\ kept > 0 => st.mode = "deflate" /\ flush = "no"
                       /\ stream' = [stream EXCEPT ![s].owed = all - kept, ![s].kept = kept,
                               ![s].data = IF flush = "finish" THEN "finished"
                                           ELSE IF last /\ @ = "open" THEN "ended" ELSE @,
                               ![s].spills = @ \/ Spills(st, flush, last, all)]
        BY ZenonT(60) DEF Starts
    <2>. QED
        BY <2>1, ZenonT(60)
<1>2. PICK due \in 0 .. MaxDue, kept \in 0 .. MaxDue * MaxCalls :
        /\ kept <= Owed(due)
        /\ stream' = [stream EXCEPT ![s].owed = Owed(due) - kept, ![s].kept = kept,
                          ![s].data = IF flush = "finish" THEN "finished"
                                      ELSE IF last /\ @ = "open" THEN "ended" ELSE @,
                          ![s].spills = @ \/ Spills(st, flush, last, Owed(due))]
    <2> HIDE DEF Owed
    <2>. QED
        BY <1>1
<1>3. /\ st.owed \in Nat /\ st.kept \in Nat /\ st.spills \in BOOLEAN
      /\ st.data \in {"open", "ended", "finished"}
    BY DEF TypeOK, Stream
<1>4. kept \in Nat /\ Owed(due) \in Nat
    BY <1>3
<1>5. /\ Owed(due) - kept \in Nat /\ Data(last) \in {"open", "ended", "finished"}
      /\ Data(last) = "finished" => st.data = "finished" \/ flush = "finish"
    <2> HIDE DEF Owed
    <2>. QED
        BY <1>2, <1>3, <1>4
<1>6. Spilled(last, due) \in BOOLEAN /\ (st.spills => Spilled(last, due))
    BY <1>3 DEF Spills
<1>7. stream' = [stream EXCEPT ![s].owed = Owed(due) - kept, ![s].kept = kept,
                               ![s].data = Data(last), ![s].spills = Spilled(last, due)]
    <2> HIDE DEF Owed
    <2>. QED
        BY <1>2 DEF TypeOK
<1> HIDE DEF Owed, Data, Spilled
<1>8. Started(s, Owed(due) - kept, kept, Data(last), Spilled(last, due))
    BY <1>7 DEF Started
<1>. QED
    BY <1>4, <1>5, <1>6, <1>8

LEMMA StreamStep == StreamInv /\ [Next]_vars => StreamInv'
<1> SUFFICES ASSUME StreamInv, [Next]_vars PROVE StreamInv'
    OBVIOUS
<1>1. TypeOK /\ OwedInv
    BY DEF StreamInv
<1>2. ASSUME NEW s \in Streams, NEW mode \in {"deflate", "inflate"}, New(s, mode)
      PROVE  StreamInv'
    <2>1. call = NoCall /\ call' = NoCall
          /\ stream' = [stream EXCEPT ![s] = [NoStream EXCEPT !.mode = mode]]
        BY <1>2 DEF New, Calls, Idle
    <2>2. [NoStream EXCEPT !.mode = mode] \in Stream /\ [NoStream EXCEPT !.mode = mode].owed = 0
        BY DEF NoStream, Stream
    <2>3. TypeOK'
        BY <1>1, <2>1, <2>2 DEF TypeOK
    <2>4. OwedInv'
        BY <1>1, <2>1, <2>2 DEF TypeOK, OwedInv
    <2>. QED
        BY <2>3, <2>4 DEF StreamInv
<1>3. ASSUME NEW s \in Streams, NEW flush \in flush_types, Starts(s, flush)
      PROVE  StreamInv'
    <2>1. call = NoCall
        BY <1>3 DEF Starts, Calls, Idle
    <2>2. call' \in Call /\ call'.of = s /\ call'.flush = flush
        <3>1. PICK corrupt \in BOOLEAN :
                call' = [of |-> s, flush |-> flush, corrupt |-> corrupt, begun |-> FALSE]
            BY <1>3 DEF Starts
        <3>. QED
            BY <3>1 DEF Call
    <2>3. CASE Refuses(s, flush)
        <3>1. stream' = stream
            BY <1>3, <2>3 DEF Starts
        <3>. QED
            BY <1>1, <2>1, <2>2, <3>1 DEF StreamInv, TypeOK, OwedInv
    <2>4. CASE ~Refuses(s, flush)
        <3>1. PICK owed \in Nat, kept \in Nat, data \in {"open", "ended", "finished"},
                   spills \in BOOLEAN :
                /\ Started(s, owed, kept, data, spills)
                /\ data = "finished" => stream[s].data = "finished" \/ flush = "finish"
            BY <1>1, <1>3, <2>4, StartsIs
        <3> DEFINE new == [stream[s] EXCEPT !.owed = owed, !.kept = kept, !.data = data,
                                            !.spills = spills]
        <3>2. stream[s] \in Stream
            BY <1>1 DEF TypeOK
        <3>4. new \in Stream /\ new.mode = stream[s].mode /\ new.data = data
            BY <3>2 DEF Stream
        <3>5. stream' = [stream EXCEPT ![s] = new]
            BY <1>1, <3>1, <3>2 DEF TypeOK, Started
        <3>6. /\ stream'[s].mode = stream[s].mode /\ stream'[s].data = data
              /\ \A t \in Streams : t # s => stream'[t] = stream[t]
            BY <1>1, <3>4, <3>5 DEF TypeOK
        <3>7. TypeOK'
            BY <1>1, <2>2, <3>4, <3>5 DEF TypeOK
        <3>8. ~Refused'
            <4>1. stream'[s].data = "finished" => stream[s].data = "finished" \/ flush = "finish"
                BY <3>1, <3>6
            <4>. QED
                BY <2>2, <2>4, <3>6, <4>1 DEF Refused, Refuses
        <3>9. OwedInv'
            BY <1>1, <2>1, <2>2, <3>6, <3>8, StartedIsCall DEF OwedInv
        <3>. QED
            BY <3>7, <3>9 DEF StreamInv
    <2>. QED
        BY <2>3, <2>4
<1>4. ASSUME NEW n \in Nat, NEW left \in Nat, NEW broken \in BOOLEAN, NEW p,
             call # NoCall, ~Refused, Advance(n, left, broken), EndsTurn(n, p),
             broken \/ stream[call.of].spills \/ n = BufferSize \/ left = 0
      PROVE  StreamInv'
    <2>1. \/ call' \in Call /\ call'.of = call.of /\ call'.flush = call.flush
          \/ call' = NoCall /\ n # BufferSize
        BY <1>1, <1>4, TurnCalls
    <2>2. /\ stream' \in [Streams -> Stream] /\ call.of \in Streams
          /\ stream'[call.of].broken = broken /\ stream'[call.of].owed = left
          /\ stream'[call.of].mode = stream[call.of].mode
          /\ stream'[call.of].data = stream[call.of].data
          /\ stream'[call.of].spills = stream[call.of].spills
          /\ \A s \in Streams : s # call.of => stream'[s] = stream[s]
        BY <1>1, <1>4, PutsBounded, AdvanceType
    <2>3. call' # NoCall => ~Refused'
        BY <1>4, <2>1, <2>2 DEF Refused, Refuses
    <2>4. TypeOK'
        BY <2>1, <2>2 DEF TypeOK
    <2>5. OwedInv'
        <3> SUFFICES ASSUME NEW s \in Streams, ~stream'[s].broken, ~stream'[s].spills,
                            call' = NoCall \/ s # call'.of \/ Refused'
                     PROVE  stream'[s].owed = 0
            BY DEF OwedInv
        <3>1. CASE s # call.of
            BY <1>1, <2>2, <3>1 DEF OwedInv
        <3>2. CASE s = call.of
            <4>1. call' = NoCall /\ n # BufferSize
                BY <2>1, <2>3, <3>2, StartedIsCall
            <4>. QED
                BY <1>4, <2>2, <3>2, <4>1
        <3>. QED
            BY <3>1, <3>2
    <2>. QED
        BY <2>4, <2>5 DEF StreamInv
<1>5. CASE Fills \/ Drops \/ FallsShort
    <2> DEFINE owed == stream[call.of].owed
    <2>1. call # NoCall /\ ~Refused
        BY <1>5 DEF Fills, Drops, FallsShort, Turn
    <2>2. /\ Puts \in Nat /\ owed \in Nat /\ owed - Puts \in Nat /\ Room \in Nat
          /\ Puts = BufferSize \/ owed - Puts = 0
        BY <1>1, <2>1, PutsBounded, RoomBounded DEF Stream
    <2>3. CASE Fills
        BY <1>4, <2>1, <2>2, <2>3 DEF Fills
    <2>4. CASE Drops
        <3>1. LacksRoom \in BOOLEAN
            BY DEF LacksRoom, Expects, Inflates
        <3>. QED
            BY <1>4, <2>1, <2>2, <2>4, <3>1 DEF Drops
    <2>5. CASE FallsShort
        <3>1. PICK left \in 0 .. owed - Room : Advance(Room, left, FALSE)
            BY <2>5 DEF FallsShort
        <3>2. left \in Nat /\ stream[call.of].spills
            BY <2>5, <3>1 DEF FallsShort, MeetsEdge
        <3>. QED
            BY <1>4, <2>1, <2>2, <2>5, <3>1, <3>2 DEF FallsShort
    <2>. QED
        BY <1>5, <2>3, <2>4, <2>5
<1>6. CASE Fails
    <2>1. call # NoCall /\ call' = NoCall
        BY <1>6 DEF Fails, Returns
    <2>2. CASE Refused
        <3>1. stream' = stream
            BY <1>6, <2>2 DEF Fails
        <3>. QED
            BY <1>1, <2>1, <2>2, <3>1 DEF StreamInv, TypeOK, OwedInv
    <2>3. CASE ~Refused
        <3>1. Advance(0, stream[call.of].owed, TRUE)
            BY <1>6, <2>3 DEF Fails
        <3>2. stream[call.of].owed \in Nat
            BY <1>1, <2>1, PutsBounded DEF Stream
        <3>3. /\ stream' \in [Streams -> Stream] /\ stream'[call.of].broken
              /\ \A s \in Streams : s # call.of => stream'[s] = stream[s]
            BY <1>1, <2>1, <3>1, <3>2, AdvanceType
        <3>. QED
            BY <1>1, <2>1, <3>3 DEF StreamInv, TypeOK, OwedInv
    <2>. QED
        BY <2>2, <2>3
<1>7. CASE (\E out_len \in 0 .. INT_MAX + 1 : Uncompress(out_len)) \/ Tries \/ UNCHANGED vars
    <2>1. UNCHANGED <<stream, call>>
        BY <1>7 DEF Uncompress, Tries, vars
    <2>. QED
        BY <1>1, <2>1 DEF StreamInv, TypeOK, OwedInv, Refused, Refuses
<1>. QED
    BY <1>2, <1>3, <1>5, <1>6, <1>7 DEF Next

(* Between two calls nothing that is due is left in a stream that has not  *)
(* failed, however its output falls on the buffer's boundaries             *)
(* (lminiz.c:290-326).                                                     *)
THEOREM NothingLeftDue == Spec => []FlushedWhole
<1>1. StreamInv => FlushedWhole
    BY DEF StreamInv, OwedInv, FlushedWhole
<1>. QED
    BY <1>1, StreamInitially, StreamStep, PTL DEF Spec

-----------------------------------------------------------------------------
(* What a stream has put out.                                              *)

Buffer == [p : Seq(Nat), stack : Seq(Seq(Nat)), lvl : Nat]

(* Nothing is above the strings of the buffer on the stack, and a call     *)
(* that miniz refuses has put nothing into it.                             *)
BufferOK ==
    /\ buf \in Buffer /\ buf.lvl = Len(buf.stack)
    /\ call # NoCall /\ Refused => buf = NoBuffer

OutputInv ==
    /\ got \in [Streams -> Seq(Nat)]
    /\ BufferOK
    /\ OutputWhole

LEMMA BytesType ==
    ASSUME NEW from \in Nat, NEW to \in Nat, from <= to
    PROVE  Bytes(from, to) \in Seq(Nat) /\ Len(Bytes(from, to)) = to - from
<1>1. to - from \in Nat /\ Bytes(from, to) \in [1 .. to - from -> Nat]
    BY DEF Bytes
<1>. QED
    BY <1>1, FunctionIsSeq

LEMMA BytesNone == ASSUME NEW n \in Nat PROVE Bytes(n, n) = <<>>
<1>1. Bytes(n, n) \in Seq(Nat) /\ Len(Bytes(n, n)) = 0
    BY BytesType
<1>. QED
    BY <1>1, EmptySeq

LEMMA BytesJoin ==
    ASSUME NEW a \in Nat, NEW n \in Nat
    PROVE  Bytes(0, a) \o Bytes(a, a + n) = Bytes(0, a + n)
<1>1. /\ Bytes(0, a) \in Seq(Nat) /\ Len(Bytes(0, a)) = a
      /\ Bytes(a, a + n) \in Seq(Nat) /\ Len(Bytes(a, a + n)) = n
      /\ Bytes(0, a + n) \in Seq(Nat) /\ Len(Bytes(0, a + n)) = a + n
    <2>1. /\ 0 \in Nat /\ a + n \in Nat /\ 0 <= a /\ a <= a + n /\ 0 <= a + n
          /\ a - 0 = a /\ a + n - a = n /\ a + n - 0 = a + n
        OBVIOUS
    <2>2. Bytes(0, a) \in Seq(Nat) /\ Len(Bytes(0, a)) = a - 0
        BY <2>1, BytesType
    <2>3. Bytes(a, a + n) \in Seq(Nat) /\ Len(Bytes(a, a + n)) = a + n - a
        BY <2>1, BytesType
    <2>4. Bytes(0, a + n) \in Seq(Nat) /\ Len(Bytes(0, a + n)) = a + n - 0
        BY <2>1, BytesType
    <2>. QED
        BY <2>1, <2>2, <2>3, <2>4
<1> DEFINE both == Bytes(0, a) \o Bytes(a, a + n)
<1>2. /\ both \in Seq(Nat) /\ Len(both) = a + n
      /\ \A i \in 1 .. a + n :
           both[i] = IF i <= a THEN Bytes(0, a)[i] ELSE Bytes(a, a + n)[i - a]
    <2> DEFINE l == Bytes(0, a)
               r == Bytes(a, a + n)
    <2> HIDE DEF l, r
    <2>1. l \in Seq(Nat) /\ Len(l) = a /\ r \in Seq(Nat) /\ Len(r) = n
        BY <1>1 DEF l, r
    <2>2. /\ l \o r \in Seq(Nat) /\ Len(l \o r) = a + n
          /\ \A i \in 1 .. a + n : (l \o r)[i] = IF i <= a THEN l[i] ELSE r[i - a]
        BY <2>1, ConcatProperties, ZenonT(60)
    <2>. QED
        BY <2>2 DEF l, r
<1>3. ASSUME NEW i \in 1 .. a + n PROVE both[i] = Bytes(0, a + n)[i]
    <2>1. CASE i <= a
        <3>1. both[i] = Bytes(0, a)[i]
            BY <1>2, <2>1
        <3>2. Bytes(0, a)[i] = i /\ Bytes(0, a + n)[i] = i
            BY <2>1 DEF Bytes
        <3>. QED
            BY <3>1, <3>2
    <2>2. CASE ~(i <= a)
        <3>1. both[i] = Bytes(a, a + n)[i - a]
            BY <1>2, <2>2
        <3>2. i - a \in 1 .. a + n - a
            BY <2>2
        <3>3. Bytes(a, a + n)[i - a] = a + (i - a) /\ Bytes(0, a + n)[i] = 0 + i
            BY <3>2 DEF Bytes
        <3>4. a + (i - a) = 0 + i
            OBVIOUS
        <3>. QED
            BY <3>1, <3>3, <3>4
    <2>. QED
        BY <2>1, <2>2
<1> HIDE DEF both
<1>4. both = Bytes(0, a + n)
    BY <1>1, <1>2, <1>3, SeqEqual
<1>. QED
    BY <1>4 DEF both

LEMMA BytesAssociative == \A a, b, c \in Seq(Nat) : (a \o b) \o c = a \o (b \o c)
<1>1. SUFFICES ASSUME NEW a \in Seq(Nat), NEW b \in Seq(Nat), NEW c \in Seq(Nat)
               PROVE  (a \o b) \o c = a \o (b \o c)
    OBVIOUS
<1>. QED
    BY ConcatAssociative, SMTT(60)

(* adjuststack joins strings, and loses none.                              *)
LEMMA AdjustKeeps ==
    ASSUME NEW b \in Buffer, b.lvl = Len(b.stack)
    PROVE  LET a == adjuststack(b)
           IN  /\ a \in Buffer /\ a.lvl = Len(a.stack) /\ a.p = b.p
               /\ FlattenSeq(a.stack) = FlattenSeq(b.stack)
<1>1. b.p \in Seq(Nat) /\ b.stack \in Seq(Seq(Nat)) /\ b.lvl \in Nat
    BY DEF Buffer
<1>2. CASE b.lvl <= 1
    BY <1>2 DEF adjuststack
<1>3. CASE ~(b.lvl <= 1)
    <2> DEFINE st == b.stack
               n  == toget(b)
               below == SubSeq(st, 1, Len(st) - n)
               top   == SubSeq(st, Len(st) - n + 1, Len(st))
               joined == Append(below, FlattenSeq(top))
    <2>1. n \in 1 .. b.lvl
        <3> DEFINE S == {k \in 1 .. b.lvl : ~Joins(b, k)}
        <3>1. b.lvl \in S /\ S \in SUBSET Nat
            BY <1>1, <1>3 DEF Joins
        <3> HIDE DEF S
        <3>2. Min(S) \in S
            BY <3>1, MinIs
        <3>. QED
            BY <3>2 DEF S, toget
    <2>2. adjuststack(b) = [b EXCEPT !.stack = joined, !.lvl = @ - n + 1]
        BY <1>3 DEF adjuststack, Top
    <2> HIDE DEF n
    <2>3. below \in Seq(Seq(Nat)) /\ top \in Seq(Seq(Nat)) /\ Len(below) = b.lvl - n
        <3>1. Len(st) - n \in Int /\ \A i \in 1 .. Len(st) : st[i] \in Seq(Nat)
            BY <1>1, <2>1, ElementOfSeq
        <3>2. 1 .. Len(st) - n \subseteq 1 .. Len(st) /\ Len(st) - n + 1 .. Len(st) \subseteq 1 .. Len(st)
            BY <1>1, <2>1
        <3>3. below \in Seq(Seq(Nat)) /\ Len(below) = IF 1 <= Len(st) - n THEN Len(st) - n - 1 + 1 ELSE 0
            BY <3>1, <3>2, SubSeqProperties
        <3>4. top \in Seq(Seq(Nat))
            BY <1>1, <3>1, <3>2, SubSeqProperties
        <3>. QED
            BY <1>1, <2>1, <3>3, <3>4
    <2>4. below \o top = st
        <3>1. /\ 1 \in 1 .. Len(st) + 1 /\ Len(st) - n \in 1 - 1 .. Len(st)
              /\ Len(st) \in Len(st) - n .. Len(st)
            BY <1>1, <1>3, <2>1
        <3>2. below \o top = SubSeq(st, 1, Len(st))
            BY <1>1, <3>1, ConcatAdjacentSubSeq
        <3>. QED
            BY <1>1, <3>2, SubSeqFull
    <2> HIDE DEF below, top
    <2>5. FlattenSeq(top) \in Seq(Nat) /\ FlattenSeq(st) = FlattenSeq(below) \o FlattenSeq(top)
        BY <2>3, <2>4, FlattenType, FlattenConcat
    <2>6. /\ joined \in Seq(Seq(Nat)) /\ Len(joined) = b.lvl - n + 1
          /\ FlattenSeq(joined) = FlattenSeq(st)
        <3>1. joined \in Seq(Seq(Nat)) /\ Len(joined) = Len(below) + 1
            BY <2>3, <2>5, AppendProperties
        <3>2. FlattenSeq(joined) = FlattenSeq(below) \o FlattenSeq(top)
            BY <2>3, <2>5, FlattenLonger
        <3>. QED
            BY <2>3, <2>5, <3>1, <3>2
    <2> HIDE DEF joined
    <2>7. b.lvl - n + 1 \in Nat
        BY <1>1, <2>1
    <2>8. /\ adjuststack(b) \in Buffer /\ adjuststack(b).lvl = b.lvl - n + 1
          /\ adjuststack(b).stack = joined /\ adjuststack(b).p = b.p
        BY <2>2, <2>6, <2>7 DEF Buffer
    <2>. QED
        BY <2>6, <2>8
<1>. QED
    BY <1>2, <1>3

LEMMA PrepKeeps ==
    ASSUME NEW b \in Buffer, b.lvl = Len(b.stack)
    PROVE  LET a == luaL_prepbuffer(b)
           IN  /\ a \in Buffer /\ a.lvl = Len(a.stack) /\ a.p = <<>>
               /\ FlattenSeq(a.stack) = FlattenSeq(Append(b.stack, b.p))
<1>1. b.p \in Seq(Nat) /\ b.stack \in Seq(Seq(Nat)) /\ b.lvl \in Nat
    BY DEF Buffer
<1>2. FlattenSeq(b.stack) \in Seq(Nat) /\ FlattenSeq(Append(b.stack, b.p)) = FlattenSeq(b.stack) \o b.p
    BY <1>1, FlattenLonger
<1>3. CASE b.p = <<>>
    <2>1. FlattenSeq(b.stack) \o <<>> = FlattenSeq(b.stack)
        BY <1>2, ConcatEmptySeq
    <2>. QED
        BY <1>2, <1>3, <2>1 DEF luaL_prepbuffer
<1>4. CASE b.p # <<>>
    <2> DEFINE e == emptybuffer(b)
    <2>1. e = [p |-> <<>>, stack |-> Append(b.stack, b.p), lvl |-> b.lvl + 1]
        BY <1>4 DEF emptybuffer
    <2>2. Append(b.stack, b.p) \in Seq(Seq(Nat)) /\ Len(Append(b.stack, b.p)) = b.lvl + 1
        BY <1>1, AppendProperties
    <2>3. /\ e \in Buffer /\ e.lvl = Len(e.stack) /\ e.p = <<>>
          /\ e.stack = Append(b.stack, b.p)
        BY <1>1, <2>1, <2>2, EmptySeq DEF Buffer
    <2>4. luaL_prepbuffer(b) = adjuststack(e)
        BY <1>4 DEF luaL_prepbuffer
    <2> HIDE DEF e
    <2>. QED
        BY <2>3, <2>4, AdjustKeeps
<1>. QED
    BY <1>3, <1>4

(* Adding to the buffer and making its result keep what is in it.          *)
LEMMA AddKeeps ==
    ASSUME NEW b \in Buffer, b.lvl = Len(b.stack), NEW p \in Seq(Nat)
    PROVE  LET filled == [luaL_prepbuffer(b) EXCEPT !.p = p]
               all    == FlattenSeq(Append(b.stack, b.p)) \o p
           IN  /\ filled \in Buffer /\ filled.lvl = Len(filled.stack)
               /\ FlattenSeq(Append(filled.stack, filled.p)) = all
               /\ luaL_pushresult(filled)[1] = all
               /\ all \in Seq(Nat) /\ FlattenSeq(Append(b.stack, b.p)) \in Seq(Nat)
<1> DEFINE held   == FlattenSeq(Append(b.stack, b.p))
           filled == [luaL_prepbuffer(b) EXCEPT !.p = p]
<1>1. b.p \in Seq(Nat) /\ b.stack \in Seq(Seq(Nat)) /\ b.lvl \in Nat
    BY DEF Buffer
<1>2. held = FlattenSeq(b.stack) \o b.p /\ held \in Seq(Nat)
    <2>1. FlattenSeq(b.stack) \in Seq(Nat) /\ held = FlattenSeq(b.stack) \o b.p
        BY <1>1, FlattenLonger
    <2>. QED
        BY <1>1, <2>1, ConcatProperties
<1>3. /\ filled \in Buffer /\ filled.p = p /\ filled.lvl = Len(filled.stack)
      /\ FlattenSeq(filled.stack) = held
    <2> DEFINE e == luaL_prepbuffer(b)
    <2>1. e \in Buffer /\ e.lvl = Len(e.stack) /\ FlattenSeq(e.stack) = held
        BY PrepKeeps
    <2> HIDE DEF e, held
    <2>2. /\ [e EXCEPT !.p = p] \in Buffer /\ [e EXCEPT !.p = p].p = p
          /\ [e EXCEPT !.p = p].stack = e.stack /\ [e EXCEPT !.p = p].lvl = e.lvl
        BY <2>1 DEF Buffer
    <2>. QED
        BY <2>1, <2>2 DEF e
<1> HIDE DEF filled, held
<1>4. FlattenSeq(Append(filled.stack, filled.p)) = held \o p /\ held \o p \in Seq(Nat)
    <2>1. filled.stack \in Seq(Seq(Nat))
        BY <1>3 DEF Buffer
    <2>2. FlattenSeq(Append(filled.stack, p)) = FlattenSeq(filled.stack) \o p
        BY <2>1, FlattenLonger
    <2>3. held \o p \in Seq(Nat)
        BY <1>2, ConcatProperties
    <2>. QED
        BY <1>3, <2>2, <2>3
<1>5. luaL_pushresult(filled)[1] = held \o p
    <2> DEFINE e == emptybuffer(filled)
               top == SubSeq(e.stack, Len(e.stack) - e.lvl + 1, Len(e.stack))
    <2>1. /\ e.stack \in Seq(Seq(Nat)) /\ e.lvl = Len(e.stack) /\ e.lvl \in Nat
          /\ FlattenSeq(e.stack) = held \o p
        <3>1. CASE p = <<>>
            <4>1. e = filled
                BY <1>3, <3>1 DEF emptybuffer
            <4>2. held \o p = held
                BY <1>2, <3>1, ConcatEmptySeq
            <4>. QED
                BY <1>3, <4>1, <4>2 DEF Buffer
        <3>2. CASE p # <<>>
            <4>1. e = [p |-> <<>>, stack |-> Append(filled.stack, p), lvl |-> filled.lvl + 1]
                BY <1>3, <3>2 DEF emptybuffer
            <4>2. filled.stack \in Seq(Seq(Nat)) /\ filled.lvl \in Nat
                BY <1>3 DEF Buffer
            <4>3. /\ Append(filled.stack, p) \in Seq(Seq(Nat))
                  /\ Len(Append(filled.stack, p)) = filled.lvl + 1
                BY <1>3, <4>2, AppendProperties
            <4>. QED
                BY <1>3, <1>4, <4>1, <4>2, <4>3
        <3>. QED
            BY <3>1, <3>2
    <2> HIDE DEF e
    <2>2. top = e.stack /\ Len(e.stack) - e.lvl = 0
        <3>1. Len(e.stack) - e.lvl + 1 = 1 /\ Len(e.stack) - e.lvl = 0
            BY <2>1
        <3>. QED
            BY <2>1, <3>1, SubSeqFull
    <2>3. ~Contains(top, Nil)
        <3>1. \A i \in 1 .. Len(e.stack) : e.stack[i] \in Seq(Nat)
            BY <2>1, ElementOfSeq
        <3>2. \A i \in 1 .. Len(e.stack) : e.stack[i] # Nil
            BY <3>1
        <3>. QED
            BY <2>2, <3>2 DEF Contains
    <2>4. CASE e.lvl = 0
        <3>1. e.stack = <<>>
            BY <2>1, <2>4, EmptySeq
        <3>2. luaL_pushresult(filled) = Append(e.stack, <<>>)
            BY <2>4 DEF luaL_pushresult, e
        <3>3. luaL_pushresult(filled)[1] = <<>>
            BY <3>1, <3>2
        <3>. QED
            BY <2>1, <3>1, <3>3, FlattenNothing
    <2>5. CASE e.lvl = 1
        <3>1. luaL_pushresult(filled) = e.stack
            BY <2>5 DEF luaL_pushresult, e
        <3>2. e.stack = <<e.stack[1]>> /\ e.stack[1] \in Seq(Nat)
            <4> DEFINE t == e.stack
            <4>1. t \in Seq(Seq(Nat)) /\ Len(t) = 1 /\ 1 \in 1 .. Len(t)
                BY <2>1, <2>5
            <4> HIDE DEF t
            <4>2. t[1] \in Seq(Nat)
                BY <4>1, ElementOfSeq
            <4>3. <<t[1]>> \in Seq(Seq(Nat)) /\ Len(<<t[1]>>) = 1 /\ <<t[1]>>[1] = t[1]
                BY <4>2
            <4>4. t = <<t[1]>>
                BY <4>1, <4>3, SeqEqual
            <4>. QED
                BY <4>2, <4>4 DEF t
        <3>3. FlattenSeq(<<e.stack[1]>>) = e.stack[1]
            BY <3>2, FlattenOne
        <3>. QED
            BY <2>1, <3>1, <3>2, <3>3
    <2>6. CASE e.lvl \in Nat /\ e.lvl # 0 /\ e.lvl # 1
        <3>1. luaL_pushresult(filled)
                = Append(SubSeq(e.stack, 1, Len(e.stack) - e.lvl), FlattenSeq(top))
            <4> DEFINE below == Len(e.stack) - e.lvl
            <4>1. luaL_pushresult(filled)
                    = CASE e.lvl = 0 -> Append(e.stack, <<>>)
                        [] e.lvl = 1 -> e.stack
                        [] e.lvl > 1 /\ Contains(top, Nil) -> LuaError
                        [] OTHER -> Append(SubSeq(e.stack, 1, below), FlattenSeq(top))
                BY DEF luaL_pushresult, Top, e
            <4>2. e.lvl # 0 /\ e.lvl # 1
                BY <2>6
            <4>3. e.lvl > 1 => ~(e.lvl > 1 /\ Contains(top, Nil))
                BY <2>3
            <4> HIDE DEF top
            <4>. QED
                BY <2>3, <4>1, <4>2
        <3>2. SubSeq(e.stack, 1, Len(e.stack) - e.lvl) = <<>>
            BY <2>1, <2>2, SubSeqEmpty
        <3>3. luaL_pushresult(filled) = <<FlattenSeq(e.stack)>>
            <4> HIDE DEF top
            <4>. QED
                <5>1. Append(<<>>, FlattenSeq(top)) = <<FlattenSeq(top)>>
                    OBVIOUS
                <5>. QED
                    BY <2>2, <3>1, <3>2, <5>1, Zenon
        <3>. QED
            BY <2>1, <3>3
    <2>. QED
        BY <2>1, <2>4, <2>5, <2>6
<1>. QED
    BY <1>2, <1>3, <1>4, <1>5 DEF filled, held

Held == FlattenSeq(Append(buf.stack, buf.p))

InHand(s) == IF call.of = s THEN Held ELSE <<>>

Whole(s) == stream[s].mode # "none" /\ ~stream[s].broken /\ ~stream[s].spills
              => got[s] \o InHand(s) = Bytes(0, stream[s].total_out)

LEMMA OutputWholeIs == OutputWhole <=> \A s \in Streams : Whole(s)
BY DEF OutputWhole, Whole, InHand, Held

LEMMA NoBufferOK == NoBuffer \in Buffer /\ NoBuffer.lvl = Len(NoBuffer.stack)
BY DEF NoBuffer, Buffer

LEMMA NoBufferHeld == FlattenSeq(Append(NoBuffer.stack, NoBuffer.p)) = <<>>
<1>1. Append(NoBuffer.stack, NoBuffer.p) = <<<<>>>>
    BY DEF NoBuffer
<1>2. FlattenSeq(<<<<>>>>) = <<>>
    BY EmptySeq, FlattenOne
<1>. QED
    BY <1>1, <1>2

LEMMA OutputInitially == Init => OutputInv
<1> SUFFICES ASSUME Init PROVE OutputInv
    OBVIOUS
<1>1. got \in [Streams -> Seq(Nat)]
    BY EmptySeq DEF Init
<1>2. BufferOK
    BY NoBufferOK DEF Init, BufferOK
<1>3. OutputWhole
    BY OutputWholeIs DEF Init, NoStream, Whole
<1>. QED
    BY <1>1, <1>2, <1>3 DEF OutputInv

LEMMA TotalType ==
    ASSUME TypeOK, NEW s \in Streams
    PROVE  stream[s].total_out \in Nat
BY DEF TypeOK, Stream

LEMMA OutputStep == StreamInv /\ StreamInv' /\ OutputInv /\ [Next]_vars => OutputInv'
<1> SUFFICES ASSUME StreamInv, StreamInv', OutputInv, [Next]_vars PROVE OutputInv'
    OBVIOUS
<1>1. TypeOK /\ TypeOK' /\ BufferOK /\ got \in [Streams -> Seq(Nat)] /\ \A s \in Streams : Whole(s)
    BY OutputWholeIs DEF StreamInv, OutputInv
<1>2. (call = NoCall => \A s \in Streams : InHand(s) = <<>>)
        /\ (call' = NoCall => \A s \in Streams : InHand(s)' = <<>>)
    BY DEF NoCall, InHand
<1>3. \A s \in Streams : got[s] \in Seq(Nat) /\ got[s] \o <<>> = got[s]
    BY <1>1, ConcatEmptySeq
<1> SUFFICES /\ got' \in [Streams -> Seq(Nat)]
             /\ BufferOK'
             /\ \A s \in Streams : Whole(s)'
    <2>1. OutputWhole' <=> \A s \in Streams : Whole(s)'
        BY DEF OutputWhole, Whole, InHand, Held
    <2>. QED
        BY <2>1 DEF OutputInv
<1>4. ASSUME NEW s \in Streams, NEW mode \in {"deflate", "inflate"}, New(s, mode)
      PROVE  /\ got' \in [Streams -> Seq(Nat)]
             /\ BufferOK'
             /\ \A t \in Streams : Whole(t)'
    <2>1. /\ call = NoCall /\ call' = NoCall /\ buf' = buf
          /\ stream' = [stream EXCEPT ![s] = [NoStream EXCEPT !.mode = mode]]
          /\ got' = [got EXCEPT ![s] = <<>>]
        BY <1>4 DEF New, Calls, Idle
    <2>2. got' \in [Streams -> Seq(Nat)]
        BY <1>1, <2>1, EmptySeq
    <2>3. BufferOK'
        BY <1>1, <2>1 DEF BufferOK
    <2>4. ASSUME NEW t \in Streams PROVE Whole(t)'
        <3>1. InHand(t) = <<>> /\ InHand(t)' = <<>>
            BY <1>2, <2>1
        <3>2. CASE t = s
            <4>1. got'[t] = <<>> /\ stream'[t].total_out = 0
                BY <1>1, <2>1, <3>2 DEF TypeOK, NoStream
            <4>2. <<>> \o <<>> = <<>> /\ Bytes(0, 0) = <<>>
                BY BytesNone, ConcatEmptySeq, EmptySeq
            <4>. QED
                BY <3>1, <4>1, <4>2 DEF Whole
        <3>3. CASE t # s
            <4>1. got'[t] = got[t] /\ stream'[t] = stream[t]
                BY <1>1, <2>1, <3>3 DEF TypeOK
            <4>. QED
                BY <1>1, <3>1, <4>1 DEF Whole
        <3>. QED
            BY <3>2, <3>3
    <2>. QED
        BY <2>2, <2>3, <2>4
<1>5. ASSUME NEW s \in Streams, NEW flush \in flush_types, Starts(s, flush)
      PROVE  /\ got' \in [Streams -> Seq(Nat)]
             /\ BufferOK'
             /\ \A t \in Streams : Whole(t)'
    <2>1. call = NoCall /\ buf' = NoBuffer /\ got' = got /\ stream[s].mode # "none"
        BY <1>5 DEF Starts, Calls, Idle
    <2>2. BufferOK'
        BY <2>1, NoBufferOK DEF BufferOK
    <2>3. ASSUME NEW t \in Streams
          PROVE  /\ stream'[t].mode = stream[t].mode /\ stream'[t].broken = stream[t].broken
                 /\ stream'[t].total_out = stream[t].total_out
                 /\ stream[t].spills => stream'[t].spills
        <3>1. CASE stream' = stream
            BY <3>1
        <3>2. CASE ~Refuses(s, flush)
            <4>1. PICK o \in Nat, k \in Nat, d \in {"open", "ended", "finished"}, x \in BOOLEAN :
                    Started(s, o, k, d, x) /\ (stream[s].spills => x)
                BY <1>1, <1>5, <3>2, StartsIs
            <4>2. stream'[t] = IF t = s THEN [stream[t] EXCEPT !.owed = o, !.kept = k, !.data = d,
                                                               !.spills = x]
                                        ELSE stream[t]
                BY <1>1, <4>1 DEF TypeOK, Started
            <4>3. stream[t] \in Stream
                BY <1>1 DEF TypeOK
            <4>. QED
                BY <4>1, <4>2, <4>3 DEF Stream
        <3>3. stream' = stream \/ ~Refuses(s, flush)
            BY <1>5 DEF Starts
        <3>. QED
            BY <3>1, <3>2, <3>3
    <2>4. \A t \in Streams : InHand(t) = <<>> /\ InHand(t)' = <<>>
        BY <1>2, <2>1, NoBufferHeld DEF InHand, Held
    <2>5. \A t \in Streams : Whole(t)'
        <3>1. SUFFICES ASSUME NEW t \in Streams, stream'[t].mode # "none", ~stream'[t].broken,
                              ~stream'[t].spills
                       PROVE  got'[t] \o InHand(t)' = Bytes(0, stream'[t].total_out)
            BY DEF Whole
        <3>2. got[t] \o InHand(t) = Bytes(0, stream[t].total_out)
            BY <1>1, <2>3, <3>1 DEF Whole
        <3>. QED
            BY <2>1, <2>3, <2>4, <3>2
    <2>. QED
        BY <1>1, <2>1, <2>2, <2>5
<1>6. ASSUME NEW p \in Seq(Nat), NEW n \in Nat, NEW left \in Nat, NEW broken \in BOOLEAN,
             call # NoCall, ~Refused, Advance(n, left, broken), EndsTurn(n, p),
             ~broken /\ ~stream[call.of].spills =>
                 /\ ~stream[call.of].broken
                 /\ p = Bytes(stream[call.of].total_out, stream[call.of].total_out + n)
      PROVE  /\ got' \in [Streams -> Seq(Nat)]
             /\ BufferOK'
             /\ \A s \in Streams : Whole(s)'
    <2> DEFINE c      == call.of
               filled == [luaL_prepbuffer(buf) EXCEPT !.p = p]
               before == stream[c].total_out
    <2>1. c \in Streams /\ before \in Nat /\ stream[c] \in Stream
        BY <1>1, <1>6, PutsBounded, TotalType
    <2>2. /\ stream'[c].broken = broken /\ stream'[c].total_out = before + n
          /\ stream'[c].mode = stream[c].mode /\ stream'[c].data = stream[c].data
          /\ stream'[c].spills = stream[c].spills
          /\ \A s \in Streams : s # c => stream'[s] = stream[s]
        BY <1>1, <1>6, <2>1, AdvanceType
    <2>3. buf \in Buffer /\ buf.lvl = Len(buf.stack)
        BY <1>1 DEF BufferOK
    <2>4. /\ filled \in Buffer /\ filled.lvl = Len(filled.stack)
          /\ FlattenSeq(Append(filled.stack, filled.p)) = Held \o p
          /\ luaL_pushresult(filled)[1] = Held \o p
          /\ Held \o p \in Seq(Nat) /\ Held \in Seq(Nat)
        BY <2>3, AddKeeps DEF Held
    <2>5. \/ /\ call' = [call EXCEPT !.begun = TRUE] /\ buf' = filled /\ got' = got
          \/ /\ call' = NoCall /\ buf' = NoBuffer
             /\ got' = [got EXCEPT ![c] = @ \o luaL_pushresult(filled)[1]]
        BY <1>6 DEF EndsTurn, Returns
    <2>6. call' = NoCall \/ (call'.of = c /\ call' # NoCall /\ ~Refused')
        <3>1. CASE call' = [call EXCEPT !.begun = TRUE]
            <4>1. call'.of = call.of /\ call'.flush = call.flush /\ call' \in Call
                BY <1>1, <1>6, <3>1, PutsBounded DEF Call
            <4>. QED
                BY <1>6, <2>2, <4>1, StartedIsCall DEF Refused, Refuses
        <3>. QED
            BY <2>5, <3>1
    <2>7. got[c] \in Seq(Nat) /\ got[c] \o (Held \o p) \in Seq(Nat)
          /\ (got[c] \o Held) \o p = got[c] \o (Held \o p)
        <3>1. got[c] \in Seq(Nat)
            BY <1>1, <2>1
        <3>2. got[c] \o (Held \o p) \in Seq(Nat)
            BY <2>4, <3>1, ConcatProperties
        <3>3. (got[c] \o Held) \o p = got[c] \o (Held \o p)
            <4>1. Held \in Seq(Nat)
                BY <2>4
            <4>. QED
                BY <1>6, <3>1, <4>1, BytesAssociative
        <3>. QED
            BY <3>1, <3>2, <3>3
    <2> HIDE DEF filled, c, before
    <2>8. got' \in [Streams -> Seq(Nat)]
        BY <1>1, <2>1, <2>4, <2>5, <2>7
    <2>9. BufferOK'
        BY <2>4, <2>5, <2>6, NoBufferOK DEF BufferOK
    <2>10. ASSUME NEW s \in Streams, s # c PROVE Whole(s)'
        <3>1. InHand(s) = <<>> /\ InHand(s)' = <<>>
            <4>1. InHand(s) = <<>>
                BY <2>10 DEF InHand, c
            <4>2. InHand(s)' = <<>>
                BY <1>2, <2>6, <2>10 DEF InHand
            <4>. QED
                BY <4>1, <4>2
        <3>2. got'[s] = got[s] /\ stream'[s] = stream[s]
            BY <1>1, <2>2, <2>5, <2>10
        <3>. QED
            BY <1>1, <3>1, <3>2 DEF Whole
    <2>11. ASSUME NEW s \in Streams, s = c PROVE Whole(s)'
        <3> SUFFICES ASSUME stream'[s].mode # "none", ~stream'[s].broken, ~stream'[s].spills
                     PROVE  got'[s] \o InHand(s)' = Bytes(0, stream'[s].total_out)
            BY DEF Whole
        <3>1. InHand(s) = Held /\ Whole(s)
            BY <1>1, <2>11 DEF InHand, c
        <3>2. /\ ~stream[s].broken /\ ~stream[s].spills /\ stream[s].mode # "none"
              /\ p = Bytes(before, before + n)
            BY <1>6, <2>2, <2>11 DEF c, before
        <3>3. got[s] \o Held = Bytes(0, before)
            BY <2>11, <3>1, <3>2 DEF Whole, before
        <3>4. got[s] \o (Held \o p) = Bytes(0, stream'[s].total_out)
            <4>1. got[s] \o (Held \o p) = Bytes(0, before) \o Bytes(before, before + n)
                BY <2>7, <2>11, <3>2, <3>3
            <4>2. Bytes(0, before) \o Bytes(before, before + n) = Bytes(0, before + n)
                BY <2>1, BytesJoin
            <4>. QED
                BY <2>2, <2>11, <4>1, <4>2
        <3>5. CASE call' = [call EXCEPT !.begun = TRUE] /\ buf' = filled /\ got' = got
            <4>1. call'.of = s
                BY <1>1, <1>6, <2>11, <3>5, PutsBounded DEF Call, c
            <4>2. InHand(s)' = Held'
                BY <4>1 DEF InHand
            <4>3. InHand(s)' = Held \o p
                BY <2>4, <3>5, <4>2 DEF Held
            <4>. QED
                BY <3>4, <3>5, <4>3
        <3>6. CASE /\ call' = NoCall
                   /\ got' = [got EXCEPT ![c] = @ \o luaL_pushresult(filled)[1]]
            <4>1. InHand(s)' = <<>>
                BY <1>2, <3>6
            <4>2. got'[s] = got[s] \o (Held \o p)
                BY <1>1, <2>4, <2>11, <3>6
            <4>3. got'[s] \o <<>> = got'[s]
                BY <2>7, <2>11, <4>2, ConcatEmptySeq
            <4>. QED
                BY <3>4, <4>1, <4>2, <4>3
        <3>. QED
            BY <2>5, <3>5, <3>6
    <2>. QED
        BY <2>8, <2>9, <2>10, <2>11
<1>7. CASE Fills \/ FallsShort
    <2> DEFINE owed == stream[call.of].owed
    <2>1. call # NoCall /\ ~Refused /\ ~stream[call.of].broken
        BY <1>7 DEF Fills, FallsShort, Turn
    <2>2. Puts \in Nat /\ owed - Puts \in Nat /\ Room \in Nat /\ stream[call.of].total_out \in Nat
        BY <1>1, <2>1, PutsBounded, RoomBounded DEF Stream
    <2>3. PICK n \in Nat, left \in Nat : Advance(n, left, FALSE) /\ EndsTurn(n, Adding(n))
        <3>1. CASE Fills
            BY <2>2, <3>1 DEF Fills
        <3>2. CASE FallsShort
            <4>1. PICK left \in 0 .. owed - Room : Advance(Room, left, FALSE)
                BY <3>2 DEF FallsShort
            <4>2. left \in Nat
                OBVIOUS
            <4>. QED
                BY <2>2, <3>2, <4>1, <4>2 DEF FallsShort
        <3>. QED
            BY <1>7, <3>1, <3>2
    <2>4. Adding(n) = Bytes(stream[call.of].total_out, stream[call.of].total_out + n)
        BY DEF Adding, Adds
    <2>5. Bytes(stream[call.of].total_out, stream[call.of].total_out + n) \in Seq(Nat)
        <3>1. /\ stream[call.of].total_out + n \in Nat
              /\ stream[call.of].total_out <= stream[call.of].total_out + n
            BY <2>2
        <3>. QED
            BY <2>2, <3>1, BytesType
    <2>. QED
        BY <1>6, <2>1, <2>3, <2>4, <2>5
<1>8. CASE Drops
    <2>1. /\ call # NoCall /\ ~Refused /\ EndsTurn(Puts, <<>>)
          /\ Advance(Puts, stream[call.of].owed - Puts, LacksRoom)
          /\ LacksRoom \/ stream[call.of].spills
        BY <1>8 DEF Drops, Turn, TooMuch, Starves
    <2>2. Puts \in Nat /\ stream[call.of].owed - Puts \in Nat /\ LacksRoom \in BOOLEAN
        BY <1>1, <2>1, PutsBounded DEF Stream, LacksRoom, Expects, Inflates
    <2>. QED
        BY <1>6, <2>1, <2>2, EmptySeq
<1>9. CASE Fails
    <2>1. /\ call # NoCall /\ call' = NoCall /\ buf' = NoBuffer /\ got' = got
        BY <1>9 DEF Fails, Returns
    <2>2. BufferOK'
        BY <2>1, NoBufferOK DEF BufferOK
    <2>3. \A s \in Streams : InHand(s)' = <<>>
        BY <1>2, <2>1
    <2>4. CASE Refused
        <3>1. stream' = stream
            BY <1>9, <2>4 DEF Fails
        <3>2. \A s \in Streams : InHand(s) = <<>>
            BY <1>1, <2>1, <2>4, NoBufferHeld DEF BufferOK, InHand, Held
        <3>. QED
            BY <1>1, <2>1, <2>2, <2>3, <3>1, <3>2 DEF Whole
    <2>5. CASE ~Refused
        <3>1. Advance(0, stream[call.of].owed, TRUE)
            BY <1>9, <2>5 DEF Fails
        <3>2. stream[call.of].owed \in Nat /\ call.of \in Streams
            BY <1>1, <2>1, PutsBounded DEF Stream
        <3>4. /\ stream'[call.of].broken
              /\ \A s \in Streams : s # call.of => stream'[s] = stream[s]
            BY <1>1, <2>1, <3>1, <3>2, AdvanceType
        <3>5. \A s \in Streams : s # call.of => InHand(s) = <<>>
            BY DEF InHand
        <3>. QED
            BY <1>1, <2>1, <2>2, <2>3, <3>4, <3>5 DEF Whole
    <2>. QED
        BY <2>4, <2>5
<1>10. CASE (\E out_len \in 0 .. INT_MAX + 1 : Uncompress(out_len)) \/ Tries \/ UNCHANGED vars
    <2>1. UNCHANGED <<stream, got, call, buf>>
        BY <1>10 DEF Uncompress, Tries, vars
    <2>2. BufferOK'
        BY <1>1, <2>1 DEF BufferOK, Refused, Refuses
    <2>3. \A s \in Streams : Whole(s)'
        BY <1>1, <2>1 DEF Whole, InHand, Held
    <2>. QED
        BY <1>1, <2>1, <2>2, <2>3
<1>. QED
    BY <1>4, <1>5, <1>7, <1>8, <1>9, <1>10 DEF Next

(* A stream that has not failed has given its callers every byte it put    *)
(* out, in order and once, wherever the boundaries of the luaL_Buffer and  *)
(* of the calls fall (lminiz.c:290-326).                                   *)
THEOREM OutputStaysWhole == Spec => []OutputWhole
<1>1. Init => StreamInv /\ OutputInv
    BY StreamInitially, OutputInitially
<1>2. StreamInv /\ OutputInv /\ [Next]_vars => (StreamInv /\ OutputInv)'
    BY StreamStep, OutputStep
<1>3. OutputInv => OutputWhole
    BY DEF OutputInv
<1>. QED
    BY <1>1, <1>2, <1>3, PTL DEF Spec

-----------------------------------------------------------------------------
(* The sizes uncompress tries.                                             *)

LEMMA SizesDef ==
    ASSUME NEW first \in Nat, NEW n \in Nat
    PROVE  Sizes(first, n) = [k \in 0 .. n |-> IF k = 0 THEN first
                                               ELSE 2 * Sizes(first, n)[k - 1]]
<1> DEFINE D(m, f) == f = [k \in 0 .. m |-> IF k = 0 THEN first ELSE 2 * f[k - 1]]
           S == {m \in Nat : \E f : D(m, f)}
<1>1. D(0, [k \in 0 .. 0 |-> first])
    OBVIOUS
<1>2. ASSUME NEW m \in Nat, NEW f, D(m, f) PROVE \E g : D(m + 1, g)
    <2> DEFINE g == [k \in 0 .. m + 1 |-> IF k = m + 1 THEN 2 * f[m] ELSE f[k]]
    <2>1. D(m + 1, g)
        BY <1>2
    <2>. QED
        BY <2>1
<1>3. Nat \subseteq S
    <2>1. 0 \in S
        BY <1>1
    <2>2. ASSUME NEW m \in Nat, m \in S PROVE m + 1 \in S
        <3>1. PICK f : D(m, f)
            BY <2>2
        <3>2. \E g : D(m + 1, g)
            BY <1>2, <3>1
        <3> HIDE DEF D
        <3>. QED
            BY <3>2
    <2> HIDE DEF S
    <2>. QED
        BY <2>1, <2>2, NatSetInduction
<1>4. \E f : D(n, f)
    <2> HIDE DEF D
    <2>. QED
        BY <1>3
<1>. QED
    BY <1>4 DEF Sizes

LEMMA SizesGrow ==
    ASSUME NEW first \in Nat \ {0}, NEW n \in Nat
    PROVE  /\ Sizes(first, n)[0] = first
           /\ \A k \in 0 .. n : Sizes(first, n)[k] \in Nat /\ Sizes(first, n)[k] > k
           /\ \A k \in 1 .. n : Sizes(first, n)[k] = 2 * Sizes(first, n)[k - 1]
           /\ \A k \in 0 .. n : \A j \in 0 .. k : Sizes(first, n)[j] <= Sizes(first, n)[k]
<1> DEFINE f == Sizes(first, n)
<1>1. f = [k \in 0 .. n |-> IF k = 0 THEN first ELSE 2 * f[k - 1]]
    BY SizesDef
<1> HIDE DEF f
<1>2. f[0] = first /\ \A k \in 1 .. n : f[k] = 2 * f[k - 1]
    BY <1>1
<1> DEFINE S == {k \in Nat : k <= n => f[k] \in Nat /\ f[k] > k /\ \A j \in 0 .. k : f[j] \in Nat /\ f[j] <= f[k]}
<1>3. 0 \in S
    BY <1>2
<1>4. ASSUME NEW k \in Nat, k \in S PROVE k + 1 \in S
    <2> SUFFICES ASSUME k + 1 <= n
                 PROVE  /\ f[k + 1] \in Nat /\ f[k + 1] > k + 1
                        /\ \A j \in 0 .. k + 1 : f[j] \in Nat /\ f[j] <= f[k + 1]
        OBVIOUS
    <2>1. f[k] \in Nat /\ f[k] > k /\ \A j \in 0 .. k : f[j] \in Nat /\ f[j] <= f[k]
        BY <1>4
    <2>2. PICK i \in 1 .. n : i = k + 1 /\ i - 1 = k
        OBVIOUS
    <2>3. f[i] = 2 * f[k]
        BY <1>2, <2>2
    <2>4. f[i] \in Nat /\ f[i] > k + 1 /\ f[k] <= f[i]
        BY <2>1, <2>3
    <2>5. ASSUME NEW j \in 0 .. k + 1 PROVE f[j] \in Nat /\ f[j] <= f[i]
        <3>1. CASE j = k + 1
            BY <2>2, <2>4, <3>1
        <3>2. CASE j # k + 1
            <4>1. j \in 0 .. k
                BY <3>2
            <4>2. f[j] \in Nat /\ f[j] <= f[k]
                BY <2>1, <4>1
            <4>. QED
                BY <2>1, <2>4, <4>2
        <3>. QED
            BY <3>1, <3>2
    <2>. QED
        BY <2>2, <2>4, <2>5
<1>5. \A k \in 0 .. n : k \in S
    <2> HIDE DEF S
    <2>1. Nat \subseteq S
        BY <1>3, <1>4, NatSetInduction
    <2>. QED
        BY <2>1
<1>. QED
    BY <1>2, <1>5 DEF f

Unz == [at : {"idle", "loop", "end"}, first : Nat, out_len : Nat, size : Nat, corrupt : BOOLEAN,
        ret : {"none", "ok", "data_error", "buf_error"}, held : Int]

(* The turn under way has one of the sizes, and those before were too      *)
(* small.                                                                  *)
TriedInVain ==
    LET size == Sizes(unz.first, unz.size)
    IN  \E k \in 0 .. unz.size : /\ unz.out_len = size[k]
                                 /\ k > 0 => unz.out_len < INT_MAX
                                 /\ \A j \in 0 .. k : j < k => unz.size > size[j]

UncompressInv ==
    /\ unz \in Unz
    /\ unz.at = "loop" => unz.first # 0 /\ unz.held = 0 /\ TriedInVain
    /\ UncompressExact

LEMMA UncompressInitially == Init => UncompressInv
BY DEF Init, UncompressInv, Unz, NoUnz, UncompressExact

LEMMA TriesStep == UncompressInv /\ Tries => UncompressInv'
<1> SUFFICES ASSUME UncompressInv, Tries PROVE UncompressInv'
    OBVIOUS
<1> DEFINE u     == unz
           size  == Sizes(unz.first, unz.size)
           twice == 2 * unz.out_len
<1>1. u \in Unz /\ u.at = "loop" /\ u.first # 0 /\ u.held = 0 /\ TriedInVain
    BY DEF UncompressInv, Tries
<1>2. /\ u.first \in Nat \ {0} /\ u.size \in Nat /\ u.out_len \in Nat /\ u.corrupt \in BOOLEAN
      /\ twice \in Nat /\ u.held + 1 - 1 = 0 /\ u.held + 1 - 1 \in Int
    BY <1>1 DEF Unz
<1>3. PICK k \in 0 .. u.size : /\ u.out_len = size[k]
                               /\ k > 0 => u.out_len < INT_MAX
                               /\ \A j \in 0 .. k : j < k => u.size > size[j]
    BY <1>1 DEF TriedInVain
<1>4. /\ size[0] = u.first
      /\ \A i \in 0 .. u.size : size[i] \in Nat /\ size[i] > i
      /\ \A i \in 1 .. u.size : size[i] = 2 * size[i - 1]
      /\ \A i \in 0 .. u.size : \A j \in 0 .. i : size[j] <= size[i]
    BY <1>2, SizesGrow
<1> HIDE DEF size
<1>5. CASE u.corrupt \/ u.size <= u.out_len
    <2>1. unz' = [u EXCEPT !.at = "end", !.held = u.held + 1 - 1,
                           !.ret = IF u.corrupt THEN "data_error" ELSE "ok"]
        BY <1>1, <1>2, <1>5 DEF Tries
    <2>2. /\ unz' \in Unz /\ unz'.at = "end" /\ unz'.held = 0
          /\ unz'.first = u.first /\ unz'.size = u.size /\ unz'.corrupt = u.corrupt
          /\ ~u.corrupt => unz'.ret = "ok"
        BY <1>1, <1>2, <2>1 DEF Unz
    <2>3. ~u.corrupt => u.size <= size[k] /\ (k > 0 => size[k] < INT_MAX)
        BY <1>3, <1>5
    <2>. QED
        BY <2>2, <2>3 DEF UncompressInv, UncompressExact, size
<1>6. CASE ~u.corrupt /\ u.size > u.out_len /\ TriesAgain(twice)
    <2>1. unz' = [u EXCEPT !.out_len = twice, !.held = Frees(u.held + 1)]
        BY <1>2, <1>6 DEF Tries
    <2>2. /\ unz' \in Unz /\ unz'.at = "loop" /\ unz'.held = 0 /\ unz'.out_len = twice
          /\ unz'.first = u.first /\ unz'.size = u.size
        <3>1. Frees(u.held + 1) = 0
            BY <1>1, <1>2 DEF Frees
        <3>2. unz' = [u EXCEPT !.out_len = twice, !.held = 0]
            BY <2>1, <3>1
        <3>. QED
            BY <1>1, <1>2, <3>2 DEF Unz
    <2>3. twice < INT_MAX
        BY <1>6 DEF TriesAgain
    <2>4. PICK i \in 1 .. u.size : i = k + 1 /\ i - 1 = k /\ i > 0 /\ i \in 0 .. u.size
        BY <1>2, <1>3, <1>4, <1>6
    <2>5. size[i] = twice
        BY <1>3, <1>4, <2>4
    <2>6. ASSUME NEW j \in 0 .. i, j < i PROVE u.size > size[j]
        <3>1. j = k \/ (j \in 0 .. k /\ j < k)
            BY <2>4, <2>6
        <3>. QED
            BY <1>3, <1>6, <3>1
    <2>7. TriedInVain'
        BY <2>2, <2>3, <2>4, <2>5, <2>6 DEF TriedInVain, size
    <2>. QED
        BY <1>2, <2>2, <2>7 DEF UncompressInv, UncompressExact
<1>7. CASE ~u.corrupt /\ u.size > u.out_len /\ ~TriesAgain(twice)
    <2>1. unz' = [u EXCEPT !.out_len = twice, !.held = Frees(u.held + 1) - 1,
                           !.at = "end", !.ret = "buf_error"]
        BY <1>2, <1>7 DEF Tries
    <2>2. /\ unz' \in Unz /\ unz'.at = "end" /\ unz'.ret = "buf_error"
          /\ unz'.first = u.first /\ unz'.size = u.size
        <3>1. Frees(u.held + 1) - 1 \in Int
            BY <1>1, <1>2 DEF Frees
        <3>. QED
            BY <1>1, <1>2, <2>1, <3>1 DEF Unz
    <2>3. u.out_len >= 1
        BY <1>3, <1>4
    <2>4. INT_MAX <= twice
        BY <1>2, <1>7, <2>3 DEF TriesAgain
    <2>5. ASSUME NEW i \in 0 .. u.size, u.size <= size[i], i > 0 => size[i] < INT_MAX
          PROVE  FALSE
        <3>1. size[i] \in Nat /\ size[k] \in Nat
            BY <1>4
        <3>2. CASE i <= k
            <4>1. size[i] <= size[k]
                BY <1>4, <3>2
            <4>. QED
                BY <1>2, <1>3, <1>7, <2>5, <3>1, <4>1
        <3>3. CASE i > k
            <4>1. PICK m \in 1 .. u.size : m = k + 1 /\ m - 1 = k /\ m \in 0 .. i
                BY <1>2, <3>3
            <4>2. size[m] = twice /\ size[m] <= size[i]
                BY <1>3, <1>4, <4>1
            <4>. QED
                BY <1>2, <2>4, <2>5, <3>1, <3>3, <4>2
        <3>. QED
            BY <3>2, <3>3
    <2>. QED
        BY <2>2, <2>5 DEF UncompressInv, UncompressExact, size
<1>. QED
    BY <1>2, <1>5, <1>6, <1>7

LEMMA UncompressStep == UncompressInv /\ [Next]_vars => UncompressInv'
<1> SUFFICES ASSUME UncompressInv, [Next]_vars PROVE UncompressInv'
    OBVIOUS
<1>1. CASE unz' = unz
    BY <1>1 DEF UncompressInv, UncompressExact, TriedInVain
<1>2. ASSUME NEW out_len \in 0 .. INT_MAX + 1, Uncompress(out_len) PROVE UncompressInv'
    <2>1. PICK size \in 0 .. INT_MAX, corrupt \in BOOLEAN :
            unz' = [at |-> "loop", first |-> out_len, out_len |-> out_len,
                    size |-> size, corrupt |-> corrupt, ret |-> "none", held |-> 0]
        BY <1>2 DEF Uncompress
    <2>2. out_len \in Nat \ {0} /\ size \in Nat
        BY <1>2 DEF Uncompress
    <2>3. /\ unz' \in Unz /\ unz'.at = "loop" /\ unz'.first = out_len /\ unz'.out_len = out_len
          /\ unz'.size = size /\ unz'.held = 0
        BY <2>1, <2>2 DEF Unz
    <2>4. Sizes(out_len, size)[0] = out_len
        BY <2>2, SizesGrow
    <2>5. TriedInVain'
        BY <2>2, <2>3, <2>4 DEF TriedInVain
    <2>. QED
        BY <2>2, <2>3, <2>5 DEF UncompressInv, UncompressExact
<1>3. \/ unz' = unz \/ Tries \/ \E out_len \in 0 .. INT_MAX + 1 : Uncompress(out_len)
    BY DEF Next, vars, New, Starts, Fills, Drops, FallsShort, Turn, Fails
<1>. QED
    BY <1>1, <1>2, <1>3, TriesStep

(* uncompress succeeds exactly if one of the sizes it tries is large       *)
(* enough, for every INT_MAX, first size and size of the data, and frees   *)
(* each of its buffers once unless it ran up to INT_MAX (lminiz.c:418-444).*)
THEOREM UncompressTriesAll == Spec => []UncompressExact
<1>1. UncompressInv => UncompressExact
    BY DEF UncompressInv
<1>. QED
    BY <1>1, UncompressInitially, UncompressStep, PTL DEF Spec
=============================================================================
