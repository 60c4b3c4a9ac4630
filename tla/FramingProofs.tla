------------------------------- MODULE FramingProofs -------------------------------
(***************************************************************************)
(* Proofs about Framing, for any lengths, any buffer and any number of     *)
(* records and crashes.  What is written stays a row of frames (WireInv),  *)
(* the reader stands where a frame begins (ReadInv), and so it hands on    *)
(* the records in order (OrderInv) and ends behind the last one (DoneInv). *)
(***************************************************************************)
EXTENDS Framing, SequenceTheorems, TLAPS

Size(r) == 4 + length[r]
At(r, q) == [rec |-> r, place |-> q]

--------------------------------------------------------------------------------
(* The inductive invariant, in parts.                                      *)

\* Every byte has its place in its record; the last place of a torn one is missing.
Places == \A i \in DOMAIN bytes :
    /\ bytes[i].rec \in Start .. Len(length)
    /\ bytes[i].place \in 1 .. Size(bytes[i].rec)
    /\ bytes[i].rec \in torn => bytes[i].place < Size(bytes[i].rec)

\* Around a byte stand all the others of its record; of a torn one, those before it.
Together == \A i \in DOMAIN bytes : \A q \in 1 .. Size(bytes[i].rec) :
    bytes[i].rec \notin torn \/ q <= bytes[i].place =>
        /\ i - bytes[i].place + q \in DOMAIN bytes
        /\ bytes[i - bytes[i].place + q] = At(bytes[i].rec, q)

\* Records follow in the order in which they were written.
Follows == \A i \in DOMAIN bytes :
    i > 1 /\ bytes[i].place = 1 => bytes[i].rec = bytes[i - 1].rec + 1

\* From the first one that is expected to the last one that was written.
Ends ==
    IF bytes = <<>> THEN Len(length) = Start - 1
    ELSE bytes[1] = At(Start, 1) /\ bytes[Len(bytes)].rec = Len(length)

\* Records of earlier lives, never of a socket.
TornOld == (\A t \in torn : t < first) /\ (kind = "socket" => torn = {})

\* What is written are frames, one record after the other.
WireInv == Places /\ Together /\ Follows /\ Ends /\ TornOld

\* The buffer holds bytes of records, and no more than it has room for.
BufInv ==
    /\ \A i \in DOMAIN buf : buf[i].rec \in Records
    /\ kind = "file" => Len(buf) <= Capacity
    /\ kind = "socket" => left = 0
    /\ pc = "fill" => pos = 0

\* The first c bytes are the records handed on, and the next record starts there.
Boundary(c) ==
    /\ c \in 0 .. Len(bytes)
    /\ IF c < Len(bytes) THEN bytes[c + 1] = At(Start + Len(loaded), 1)
       ELSE Len(length) = Start + Len(loaded) - 1

\* The buffer holds the last bytes that were read.
Window ==
    /\ Len(buf) <= off
    /\ \A i \in DOMAIN buf : buf[i] = bytes[off - Len(buf) + i]

\* Waiting for the rest of the record at the front of the buffer.
Partial ==
    /\ left = 0 /\ Window /\ Boundary(off - Len(buf))
    /\ kind = "file" => Len(buf) + room = Capacity
    /\ buf # <<>> /\ Start + Len(loaded) \notin torn => Len(buf) < Size(Start + Len(loaded))

\* About to read over the last bytes, or stuck in a full buffer that ended with a record.
ReadOver ==
    /\ kind = "file" /\ room = left /\ Boundary(off - left)
    /\ left = 0 /\ ~aligned => Len(loaded) >= first - 1

ReadInv == ~slipped =>
    /\ pc = "fill" => Partial \/ ReadOver
    /\ pc = "cut" => Window /\ Boundary(off - Len(buf) + pos)

\* The records handed on are consecutive, and none of them is torn.
OrderInv == ~slipped =>
    /\ \A i \in DOMAIN loaded : loaded[i] = Start + i - 1
    /\ \A t \in torn : t >= Start + Len(loaded)

\* NothingMissed for a long log, by the number of records handed on.
DoneInv ==
    /\ kind = "file" /\ pc = "done" /\ ~slipped /\ ~aligned
    /\ \A r \in Records : 4 + length[r] <= Capacity
    /\ torn \subseteq {first - 1}
    => \A r \in (1 .. first - 1) \ torn : r <= Len(loaded)

\* A reader fails at a torn record only.
FailInv == pc = "failed" /\ ~slipped => Start + Len(loaded) \in torn

\* A decoder reads nothing over.
SocketInv == kind = "socket" => ~slipped

\* A log that is whole and fits in the buffer is read at one go: to the end of a record
\* that is no older than the last one of earlier lives.
SmallInv == kind = "file" /\ torn = {} /\ Len(bytes) <= Capacity =>
    /\ ~slipped /\ pc # "failed"
    /\ pc = "fill" => \/ off = 0 /\ room = Capacity /\ left = 0
                      \/ room = 0 /\ left = 0 /\ Len(loaded) >= first - 1
    /\ pc = "cut" => /\ off > 0 /\ bytes[off].place = Size(bytes[off].rec)
                     /\ bytes[off].rec >= first - 1
    /\ pc = "done" => Len(loaded) >= first - 1

--------------------------------------------------------------------------------
(* Sequences of bytes.                                                     *)

\* A frame is a sequence of bytes, numbered from one.
LEMMA FrameSeq ==
    ASSUME NEW r \in 1 .. MaxRecords, NEW n \in Nat
    PROVE  /\ Frame(r, n) \in Seq(Byte) /\ Len(Frame(r, n)) = 4 + n
           /\ \A i \in 1 .. 4 + n : Frame(r, n)[i] = At(r, i)
<1>. DEFINE f == Frame(r, n)
<1>1. f \in [1 .. 4 + n -> Byte]
  BY DEF Frame, Byte
<1>2. f \in Seq(Byte)
  BY <1>1, SeqDef
<1>3. DOMAIN f = 1 .. 4 + n /\ \A i \in 1 .. 4 + n : f[i] = At(r, i)
  BY DEF Frame, At
<1>. HIDE DEF f
<1>4. 1 .. Len(f) = 1 .. 4 + n /\ Len(f) \in Nat
  BY <1>2, <1>3, LenProperties
<1>5. Len(f) = 4 + n
  BY <1>4
<1>. QED
  BY <1>2, <1>3, <1>5 DEF f

\* A part of a sequence.
LEMMA Part ==
    ASSUME NEW S, NEW s \in Seq(S), NEW m \in 1 .. Len(s) + 1, NEW n \in Int, n <= Len(s)
    PROVE  /\ SubSeq(s, m, n) \in Seq(S)
           /\ Len(SubSeq(s, m, n)) = IF m <= n THEN n - m + 1 ELSE 0
           /\ \A i \in 1 .. n - m + 1 : SubSeq(s, m, n)[i] = s[m + i - 1]
<1>1. \A i \in m .. n : s[i] \in S
  BY ElementOfSeq
<1>. QED
  BY <1>1, SubSeqProperties

\* What writing a record does to the bytes.
LEMMA WriteBytes ==
    ASSUME TypeOK, NEW n \in Lengths, Write(n)
    PROVE  /\ bytes' \in Seq(Byte) /\ Len(bytes') = Len(bytes) + 4 + n
           /\ \A i \in 1 .. Len(bytes) : bytes'[i] = bytes[i]
           /\ \A q \in 1 .. 4 + n : bytes'[Len(bytes) + q] = At(Len(length) + 1, q)
           /\ n \in Nat \ {0} /\ Len(length') = Len(length) + 1
           /\ \A r \in Records : length'[r] = length[r]
           /\ length'[Len(length) + 1] = n
<1>. DEFINE f == Frame(Len(length) + 1, n)
<1>1. /\ length \in Seq(Lengths) /\ Len(length) \in Nat /\ length' = Append(length, n)
      /\ Len(length) + 1 \in 1 .. MaxRecords /\ n \in Nat \ {0} /\ n \in Lengths
  BY FramingAssumption DEF Write, TypeOK
<1>2. /\ Len(length') = Len(length) + 1 /\ length'[Len(length) + 1] = n
      /\ \A r \in Records : length'[r] = length[r]
  BY <1>1, AppendProperties DEF Records
<1>3. /\ f \in Seq(Byte) /\ Len(f) = 4 + n
      /\ \A i \in 1 .. 4 + n : f[i] = At(Len(length) + 1, i)
  BY <1>1, FrameSeq
<1>4. bytes' = bytes \o f /\ bytes \in Seq(Byte) /\ Len(bytes) \in Nat
  BY <1>2 DEF Write, TypeOK
<1>. HIDE DEF f
<1>5. /\ bytes' \in Seq(Byte) /\ Len(bytes') = Len(bytes) + Len(f)
      /\ \A i \in 1 .. Len(bytes) + Len(f) :
            bytes'[i] = IF i <= Len(bytes) THEN bytes[i] ELSE f[i - Len(bytes)]
  BY <1>3, <1>4, ConcatProperties
<1>6. \A q \in 1 .. 4 + n : bytes'[Len(bytes) + q] = f[q]
  BY <1>1, <1>3, <1>4, <1>5
<1>7. \A i \in 1 .. Len(bytes) : bytes'[i] = bytes[i]
  BY <1>1, <1>3, <1>4, <1>5
<1>8. Len(bytes') = Len(bytes) + 4 + n
  BY <1>1, <1>3, <1>4, <1>5
<1>. QED
  BY <1>1, <1>2, <1>3, <1>5, <1>6, <1>7, <1>8

\* Who reads leaves what was written alone.
LEMMA ReadQuiet == Read => UNCHANGED <<kind, length, bytes, crashes, first, torn>>
BY DEF Read, Arrive, ReadFile, ReadNothing, CutRecord, CutGarbage, CutIncomplete, CutEnd, Take

--------------------------------------------------------------------------------
\* The initial states have the types.
LEMMA TypeInit == Init => TypeOK
<1>. SUFFICES ASSUME Init PROVE TypeOK
  OBVIOUS
<1>1. /\ length \in Seq(Lengths) /\ bytes \in Seq(Byte) /\ buf \in Seq(Byte)
      /\ loaded \in Seq(Records) /\ Len(length) = 0 /\ Len(bytes) = 0 /\ Len(buf) = 0
  BY DEF Init
<1>2. /\ off = 0 /\ pos = 0 /\ room = Capacity /\ crashes = 0 /\ first = 1 /\ torn = {}
      /\ left = 0 /\ slipped = FALSE /\ aligned = FALSE
      /\ kind \in {"socket", "file"} /\ pc \in {"fill", "done"}
  BY DEF Init
<1>3. /\ crashes \in 0 .. MaxCrashes /\ first \in 1 .. Len(length) + 1 /\ left \in 0 .. 4
      /\ Len(length) <= MaxRecords /\ off \in 0 .. Len(bytes) /\ pos \in 0 .. Len(buf)
      /\ room \in Nat /\ Len(buf) + room <= Capacity
  BY <1>1, <1>2, FramingAssumption
<1>. QED
  BY <1>1, <1>2, <1>3 DEF TypeOK

\* Filling the buffer keeps the types.
LEMMA TakeType ==
    ASSUME TypeOK, NEW n \in 1 .. Rest, Take(n)
    PROVE  /\ TypeOK'
           /\ Len(buf') = Len(buf) + n
           /\ \A i \in DOMAIN buf' :
                 buf'[i] = IF i <= Len(buf) THEN buf[i] ELSE bytes[off + i - Len(buf)]
<1>. DEFINE more == SubSeq(bytes, off + 1, off + n)
<1>1. /\ off \in Nat /\ off + n <= Len(bytes) /\ bytes \in Seq(Byte) /\ buf \in Seq(Byte)
      /\ Len(bytes) \in Nat /\ Len(buf) \in Nat /\ n \in Nat /\ n >= 1
  BY DEF TypeOK, Rest
<1>2. /\ more \in Seq(Byte) /\ Len(more) = n
      /\ \A i \in 1 .. n : more[i] = bytes[off + i]
  BY <1>1, Part
<1>3. buf' = buf \o more /\ off' = off + n /\ pos' = 0 /\ pc' = "cut"
  BY DEF Take
<1>. HIDE DEF more
<1>4. /\ buf' \in Seq(Byte) /\ Len(buf') = Len(buf) + n
      /\ \A i \in 1 .. Len(buf) + n :
            buf'[i] = IF i <= Len(buf) THEN buf[i] ELSE more[i - Len(buf)]
  BY <1>1, <1>2, <1>3, ConcatProperties
<1>5. \A i \in DOMAIN buf' :
         buf'[i] = IF i <= Len(buf) THEN buf[i] ELSE bytes[off + i - Len(buf)]
  BY <1>1, <1>2, <1>4
<1>6. TypeOK'
  <2>1. /\ UNCHANGED <<kind, length, bytes, room, loaded, crashes, first, torn, left, aligned>>
        /\ slipped' \in BOOLEAN
    BY DEF Take, TypeOK
  <2>. QED
    BY <1>1, <1>3, <1>4, <2>1 DEF TypeOK, Records
<1>. QED
  BY <1>4, <1>5, <1>6

\* Taking a part of the buffer keeps the types.
LEMMA BufPart ==
    ASSUME TypeOK
    PROVE  /\ Compacted \in Seq(Byte) /\ Len(Compacted) = Len(buf) - pos
           /\ \A i \in 1 .. Len(buf) - pos : Compacted[i] = buf[pos + i]
           /\ SubSeq(buf, 1, pos) \in Seq(Byte) /\ Len(SubSeq(buf, 1, pos)) = pos
           /\ \A i \in 1 .. pos : SubSeq(buf, 1, pos)[i] = buf[i]
<1>1. buf \in Seq(Byte) /\ Len(buf) \in Nat /\ pos \in 0 .. Len(buf)
  BY DEF TypeOK
<1>2. /\ SubSeq(buf, pos + 1, Len(buf)) \in Seq(Byte)
      /\ Len(SubSeq(buf, pos + 1, Len(buf))) = Len(buf) - pos
      /\ \A i \in 1 .. Len(buf) - pos : SubSeq(buf, pos + 1, Len(buf))[i] = buf[pos + i]
  BY <1>1, Part
<1>3. /\ SubSeq(buf, 1, pos) \in Seq(Byte) /\ Len(SubSeq(buf, 1, pos)) = pos
      /\ \A i \in 1 .. pos : SubSeq(buf, 1, pos)[i] = buf[i]
  BY <1>1, Part
<1>. QED
  BY <1>2, <1>3 DEF Compacted

\* Every step keeps the types.  That a full buffer cannot overflow rests on BufInv.
LEMMA TypeNext == TypeOK /\ BufInv /\ [Next]_vars => TypeOK'
<1>. SUFFICES ASSUME TypeOK, BufInv, [Next]_vars PROVE TypeOK'
  OBVIOUS
<1>0. /\ Len(length) \in Nat /\ Len(bytes) \in Nat /\ Len(buf) \in Nat /\ MaxRecords \in Nat
      /\ Capacity \in Nat
  BY FramingAssumption DEF TypeOK
<1>1. ASSUME NEW n \in Lengths, Write(n) PROVE TypeOK'
  <2>1. /\ length' \in Seq(Lengths) /\ Len(length') = Len(length) + 1
        /\ Len(length') \in 1 .. MaxRecords /\ n \in Nat
    BY <1>0, <1>1, FramingAssumption DEF Write, TypeOK
  <2>2. bytes' \in Seq(Byte) /\ Len(bytes') = Len(bytes) + 4 + n
    BY <1>0, <1>1, <2>1, WriteBytes DEF TypeOK
  <2>3. Records \subseteq Records'
    BY <1>0, <2>1 DEF Records
  <2>4. loaded' \in Seq(Records') /\ torn' \subseteq Records'
    BY <1>1, <2>3, SeqMonotonic DEF Write, TypeOK
  <2>5. UNCHANGED <<kind, off, buf, pos, room, pc, crashes, first, left, slipped, aligned>>
    BY <1>1 DEF Write
  <2>. QED
    BY <1>0, <2>1, <2>2, <2>4, <2>5 DEF TypeOK
<1>2. CASE Restart
  <2>1. PICK cut \in Cuts : /\ bytes' = SubSeq(bytes, 1, Len(bytes) - cut)
                            /\ torn' = IF cut = 0 THEN torn ELSE torn \cup {Len(length)}
    BY <1>2 DEF Restart
  <2>2. cut \in Nat /\ (cut # 0 => Len(length) \in Records)
    <3>1. CASE first > Len(length)
      BY <2>1, <3>1 DEF Cuts
    <3>2. CASE ~ (first > Len(length))
      <4>1. Len(length) \in 1 .. Len(length)
        BY <1>0, <3>2 DEF TypeOK
      <4>2. length[Len(length)] \in Nat
        BY <4>1, ElementOfSeq, FramingAssumption DEF TypeOK
      <4>. QED
        BY <2>1, <3>2, <4>1, <4>2 DEF Cuts, Records
    <3>. QED
      BY <3>1, <3>2
  <2>3. bytes' \in Seq(Byte)
    BY <1>0, <2>1, <2>2, Part DEF TypeOK
  <2>4. torn' \subseteq Records
    BY <2>1, <2>2 DEF TypeOK
  <2>5. /\ first' = Len(length) + 1 /\ off' = 0 /\ buf' = <<>> /\ pos' = 0
        /\ room' = Capacity /\ pc' = "fill" /\ loaded' = <<>>
        /\ left' = 0 /\ slipped' = FALSE /\ aligned' = FALSE /\ kind' = kind /\ length' = length
        /\ crashes' \in 0 .. MaxCrashes
    BY <1>2, FramingAssumption DEF Restart, TypeOK
  <2>6. buf' \in Seq(Byte) /\ Len(buf') = 0 /\ loaded' \in Seq(Records') /\ Len(bytes') \in Nat
    BY <2>3, <2>5
  <2>7. off' \in 0 .. Len(bytes') /\ pos' \in 0 .. Len(buf') /\ first' \in 1 .. Len(length') + 1
    BY <1>0, <2>5, <2>6
  <2>8. /\ kind' \in {"socket", "file"} /\ length' \in Seq(Lengths) /\ Len(length') <= MaxRecords
        /\ torn' \subseteq Records'
    BY <2>4, <2>5 DEF TypeOK, Records
  <2>9. room' \in Nat /\ Len(buf') + room' <= Capacity /\ left' \in 0 .. 4
    BY <1>0, <2>5, <2>6
  <2>. QED
    BY <2>3, <2>5, <2>6, <2>7, <2>8, <2>9 DEF TypeOK
<1>3. CASE Reconnect
  <2>1. /\ first' = Len(length) + 1 /\ bytes' = <<>> /\ off' = 0 /\ buf' = <<>> /\ pos' = 0
        /\ pc' = "fill" /\ loaded' = <<>> /\ kind = "socket"
        /\ UNCHANGED <<kind, length, room, torn, left, slipped, aligned>>
        /\ crashes' \in 0 .. MaxCrashes
    BY <1>3, FramingAssumption DEF Reconnect, TypeOK
  <2>2. /\ buf' \in Seq(Byte) /\ Len(buf') = 0 /\ loaded' \in Seq(Records')
        /\ bytes' \in Seq(Byte) /\ Len(bytes') = 0
    BY <2>1
  <2>. QED
    BY <1>0, <2>1, <2>2 DEF TypeOK, Records
<1>4. CASE Arrive
  BY <1>4, TakeType DEF Arrive
<1>5. CASE ReadFile
  <2>1. PICK n \in 1 .. Rest : Take(n)
    BY <1>0, <1>5 DEF ReadFile, Rest, TypeOK
  <2>. QED
    BY <2>1, TakeType
<1>6. CASE ReadNothing \/ CutGarbage
  BY <1>6 DEF ReadNothing, CutGarbage, TypeOK, Records
<1>7. CASE CutRecord
  <2>1. pos + 1 \in DOMAIN buf /\ buf[pos + 1].rec \in Records
    BY <1>0, <1>7 DEF CutRecord, LengthThere, Remaining, TypeOK, BufInv
  <2>2. loaded' \in Seq(Records)
    BY <1>7, <2>1 DEF CutRecord, TypeOK
  <2>3. PICK size \in SizeRead : Remaining - 4 >= size /\ pos' = pos + 4 + size
    BY <1>7 DEF CutRecord
  <2>4. size \in Nat
    <3>1. length[buf[pos + 1].rec] \in Nat
      BY <2>1, ElementOfSeq, FramingAssumption DEF TypeOK, Records
    <3>. QED
      BY <1>0, <3>1 DEF SizeRead
  <2>5. pos' \in 0 .. Len(buf)
    BY <1>0, <2>3, <2>4 DEF Remaining, TypeOK
  <2>. QED
    BY <1>7, <2>2, <2>5 DEF CutRecord, TypeOK, Records
<1>8. CASE CutIncomplete
  <2>1. /\ buf' = Compacted /\ pos' = 0 /\ pc' = "fill" /\ left' = 0
        /\ room' = IF kind = "file" THEN Capacity - Len(buf') ELSE room
        /\ UNCHANGED <<kind, length, bytes, off, loaded, crashes, first, torn, slipped, aligned>>
    BY <1>8 DEF CutIncomplete, BehindKept
  <2>2. buf' \in Seq(Byte) /\ Len(buf') = Len(buf) - pos /\ Len(buf') \in Nat
    BY <1>0, <2>1, BufPart DEF TypeOK
  <2>3. kind = "file" => room' \in Nat /\ Len(buf') + room' <= Capacity
    BY <1>0, <2>1, <2>2 DEF BufInv, TypeOK
  <2>. QED
    BY <1>0, <2>1, <2>2, <2>3 DEF TypeOK, Records
<1>9. CASE CutEnd
  <2>1. /\ buf' = LeftOver /\ pos' = 0 /\ pc' = "fill"
        /\ room' = IF kind = "file" THEN Remaining ELSE room
        /\ left' = IF kind = "file" THEN Remaining ELSE 0
        /\ aligned' \in BOOLEAN
        /\ UNCHANGED <<kind, length, bytes, off, loaded, crashes, first, torn, slipped>>
    BY <1>9 DEF CutEnd, TypeOK
  <2>2. Remaining \in 0 .. 4
    BY <1>0, <1>9 DEF CutEnd, LengthThere, Remaining, TypeOK
  <2>3. /\ buf' \in Seq(Byte) /\ Len(buf') \in Nat
        /\ kind = "file" => Len(buf') = pos
    BY <1>0, <2>1, BufPart DEF TypeOK, LeftOver
  <2>4. kind = "file" => Len(buf') + room' <= Capacity
    BY <1>0, <2>1, <2>3 DEF BufInv, TypeOK, Remaining
  <2>. QED
    BY <1>0, <2>1, <2>2, <2>3, <2>4 DEF TypeOK, Records
<1>10. CASE UNCHANGED vars
  BY <1>10 DEF vars, TypeOK, Records
<1>. QED
  BY <1>1, <1>2, <1>3, <1>4, <1>5, <1>6, <1>7, <1>8, <1>9, <1>10 DEF Next, Read

--------------------------------------------------------------------------------
\* Whatever is in the buffer was written.
LEMMA BufNext == TypeOK /\ WireInv /\ BufInv /\ [Next]_vars => BufInv'
<1>. SUFFICES ASSUME TypeOK, WireInv, BufInv, [Next]_vars PROVE BufInv'
  OBVIOUS
<1>0. /\ Len(length) \in Nat /\ Len(bytes) \in Nat /\ Len(buf) \in Nat
      /\ buf \in Seq(Byte) /\ pos \in 0 .. Len(buf)
  BY DEF TypeOK
<1>1. ASSUME NEW n \in Lengths, Write(n) PROVE BufInv'
  <2>1. Records \subseteq Records'
    BY <1>0, <1>1, WriteBytes DEF Records
  <2>2. UNCHANGED <<kind, buf, pos, pc, left>>
    BY <1>1 DEF Write
  <2>. QED
    BY <2>1, <2>2 DEF BufInv
<1>2. CASE Restart \/ Reconnect
  <2>1. buf' = <<>> /\ Len(buf') = 0 /\ pos' = 0 /\ (kind' = "socket" => left' = 0)
    BY <1>2 DEF Restart, Reconnect, BufInv
  <2>. QED
    BY <2>1, FramingAssumption DEF BufInv
<1>3. ASSUME NEW n \in 1 .. Rest, Take(n), kind = "file" => Len(buf) + n <= Capacity
      PROVE  BufInv'
  <2>1. \A i \in DOMAIN bytes : bytes[i].rec \in Records
    BY <1>0 DEF WireInv, Places, Start, Records, TypeOK
  <2>2. ASSUME NEW i \in DOMAIN buf' PROVE buf'[i].rec \in Records
    <3>1. /\ i \in 1 .. Len(buf) + n
          /\ buf'[i] = IF i <= Len(buf) THEN buf[i] ELSE bytes[off + i - Len(buf)]
      <4>1. buf' \in Seq(Byte) /\ Len(buf') = Len(buf) + n
        BY <1>3, TakeType DEF TypeOK
      <4>2. DOMAIN buf' = 1 .. Len(buf) + n
        BY <4>1, LenProperties
      <4>. QED
        BY <1>3, <4>2, TakeType
    <3>0. off \in Nat /\ off + n <= Len(bytes)
      BY <1>0 DEF TypeOK, Rest
    <3>2. CASE i <= Len(buf)
      BY <1>0, <3>1, <3>2 DEF BufInv
    <3>3. CASE ~ (i <= Len(buf))
      <4>1. off + i - Len(buf) \in DOMAIN bytes
        BY <1>0, <3>0, <3>1, <3>3
      <4>. QED
        BY <2>1, <3>1, <3>3, <4>1
    <3>. QED
      BY <3>2, <3>3
  <2>3. UNCHANGED <<kind, length, left>> /\ pc' = "cut" /\ Len(buf') = Len(buf) + n
    BY <1>3, TakeType DEF Take
  <2>. QED
    BY <1>3, <2>2, <2>3 DEF BufInv, Records
<1>4. CASE Arrive
  BY <1>3, <1>4 DEF Arrive
<1>5. CASE ReadFile
  <2>1. PICK n \in 1 .. Rest : Take(n) /\ n <= room
    BY <1>0, <1>5 DEF ReadFile, Rest, TypeOK
  <2>2. Len(buf) + n <= Capacity
    BY <1>0, <1>5, <2>1, FramingAssumption DEF ReadFile, TypeOK, Rest
  <2>. QED
    BY <1>3, <2>1, <2>2
<1>6. CASE ReadNothing \/ CutGarbage \/ CutRecord
  <2>1. UNCHANGED <<kind, length, buf, left>> /\ pc' # "fill"
    BY <1>6 DEF ReadNothing, CutGarbage, CutRecord
  <2>. QED
    BY <2>1 DEF BufInv, Records
<1>7. CASE CutIncomplete \/ CutEnd
  <2>1. /\ buf' = Compacted \/ buf' = SubSeq(buf, 1, pos)
        /\ UNCHANGED <<kind, length>> /\ pos' = 0 /\ (kind = "socket" => left' = 0)
    BY <1>7 DEF CutIncomplete, CutEnd, LeftOver
  <2>2. /\ DOMAIN Compacted = 1 .. Len(buf) - pos
        /\ DOMAIN SubSeq(buf, 1, pos) = 1 .. pos
    BY BufPart, LenProperties
  <2>3. /\ \A i \in DOMAIN Compacted : Compacted[i].rec \in Records
        /\ \A i \in DOMAIN SubSeq(buf, 1, pos) : SubSeq(buf, 1, pos)[i].rec \in Records
    <3>1. \A i \in 1 .. Len(buf) : buf[i].rec \in Records
      BY <1>0 DEF BufInv
    <3>2. \A i \in 1 .. Len(buf) - pos : pos + i \in 1 .. Len(buf)
      BY <1>0
    <3>3. \A i \in 1 .. pos : i \in 1 .. Len(buf)
      BY <1>0
    <3>4. \A i \in 1 .. Len(buf) - pos : Compacted[i].rec \in Records
      BY <3>1, <3>2, BufPart
    <3>5. \A i \in 1 .. pos : SubSeq(buf, 1, pos)[i].rec \in Records
      BY <3>1, <3>3, BufPart
    <3>. QED
      BY <2>2, <3>4, <3>5
  <2>4. kind = "file" => Len(buf') <= Capacity
    <3>1. Len(buf') \in Nat /\ Len(buf') <= Len(buf)
      BY <1>0, <2>1, BufPart
    <3>. QED
      BY <1>0, <3>1, FramingAssumption DEF BufInv
  <2>. QED
    BY <2>1, <2>3, <2>4 DEF BufInv, Records
<1>8. CASE UNCHANGED vars
  BY <1>8 DEF vars, BufInv, Records
<1>. QED
  BY <1>1, <1>2, <1>4, <1>5, <1>6, <1>7, <1>8 DEF Next, Read

--------------------------------------------------------------------------------
(* What was written, for one byte or one record.                           *)

\* A byte belongs to a record that was written, and has one of its places.
LEMMA ByteAt ==
    ASSUME TypeOK, WireInv, NEW i \in 1 .. Len(bytes)
    PROVE  /\ bytes[i].rec \in Start .. Len(length) /\ bytes[i].rec \in Records
           /\ Size(bytes[i].rec) \in Nat /\ Size(bytes[i].rec) > 4
           /\ bytes[i].place \in 1 .. Size(bytes[i].rec)
           /\ bytes[i] = At(bytes[i].rec, bytes[i].place)
<1>1. Len(length) \in Nat /\ first \in Nat \ {0} /\ Start \in Nat \ {0} /\ bytes[i] \in Byte
  BY ElementOfSeq DEF TypeOK, Start
<1>2. bytes[i].rec \in Start .. Len(length) /\ bytes[i].place \in 1 .. Size(bytes[i].rec)
  BY DEF WireInv, Places, TypeOK
<1>3. bytes[i].rec \in Records
  BY <1>1, <1>2 DEF Records
<1>4. length[bytes[i].rec] \in Nat \ {0}
  BY <1>3, ElementOfSeq, FramingAssumption DEF TypeOK, Records
<1>. QED
  BY <1>1, <1>2, <1>3, <1>4 DEF Size, At, Byte

\* The bytes of a record stand together.
LEMMA Around ==
    ASSUME TypeOK, WireInv, NEW i \in 1 .. Len(bytes), NEW q \in 1 .. Size(bytes[i].rec),
           bytes[i].rec \notin torn \/ q <= bytes[i].place
    PROVE  /\ i - bytes[i].place + q \in 1 .. Len(bytes)
           /\ bytes[i - bytes[i].place + q] = At(bytes[i].rec, q)
<1>1. DOMAIN bytes = 1 .. Len(bytes)
  BY LenProperties DEF TypeOK
<1>2. i \in DOMAIN bytes
  BY <1>1
<1>3. \A j \in DOMAIN bytes : \A p \in 1 .. Size(bytes[j].rec) :
         bytes[j].rec \notin torn \/ p <= bytes[j].place =>
             /\ j - bytes[j].place + p \in DOMAIN bytes
             /\ bytes[j - bytes[j].place + p] = At(bytes[j].rec, p)
  BY DEF WireInv, Together
<1>4. /\ i - bytes[i].place + q \in DOMAIN bytes
      /\ bytes[i - bytes[i].place + q] = At(bytes[i].rec, q)
  BY <1>2, <1>3, Zenon
<1>. QED
  BY <1>1, <1>4

\* A record whose first byte is there is all there, unless a crash tore it.
LEMMA FrameThere ==
    ASSUME TypeOK, WireInv, NEW c \in Nat, c < Len(bytes), NEW r, bytes[c + 1] = At(r, 1),
           r \notin torn
    PROVE  /\ c + Size(r) <= Len(bytes)
           /\ \A q \in 1 .. Size(r) : bytes[c + q] = At(r, q)
<1>. DEFINE i == c + 1
<1>1. i \in 1 .. Len(bytes) /\ Len(bytes) \in Nat
  BY DEF TypeOK
<1>2. bytes[i].rec = r /\ bytes[i].place = 1
  BY DEF At
<1>3. Size(r) \in Nat /\ Size(r) > 4
  BY <1>1, <1>2, ByteAt
<1>4. ASSUME NEW q \in 1 .. Size(r) PROVE i - 1 + q \in 1 .. Len(bytes) /\ bytes[i - 1 + q] = At(r, q)
  <2>. HIDE DEF i
  <2>. QED
    BY <1>1, <1>2, Around
<1>5. ASSUME NEW q \in 1 .. Size(r) PROVE c + q \in 1 .. Len(bytes) /\ bytes[c + q] = At(r, q)
  <2>1. i - 1 + q = c + q
    BY <1>3
  <2>. QED
    BY <1>4, <2>1
<1>6. c + Size(r) \in 1 .. Len(bytes)
  <2>1. Size(r) \in 1 .. Size(r)
    BY <1>3
  <2>. QED
    BY <1>5, <2>1
<1>. QED
  BY <1>1, <1>3, <1>5, <1>6

\* The byte behind the last one of a record is the first one of the next record.
LEMMA NextRecord ==
    ASSUME TypeOK, WireInv, NEW d \in 1 .. Len(bytes), NEW r, bytes[d] = At(r, Size(r))
    PROVE  IF d < Len(bytes) THEN bytes[d + 1] = At(r + 1, 1) ELSE r = Len(length)
<1>1. /\ Len(bytes) \in Nat /\ DOMAIN bytes = 1 .. Len(bytes)
      /\ bytes[d].rec = r /\ bytes[d].place = Size(r)
  BY LenProperties DEF TypeOK, At
<1>2. CASE d < Len(bytes)
  <2>. DEFINE i == d + 1
              b == bytes[i]
  <2>1. i \in 1 .. Len(bytes) /\ i \in DOMAIN bytes /\ i > 1 /\ i - 1 = d
    BY <1>1, <1>2
  <2>2. /\ Size(b.rec) \in Nat /\ b.place \in 1 .. Size(b.rec) /\ b = At(b.rec, b.place)
    BY <2>1, ByteAt
  <2>3. CASE b.place = 1
    <3>1. b.rec = bytes[i - 1].rec + 1
      <4>1. \A j \in DOMAIN bytes :
               j > 1 /\ bytes[j].place = 1 => bytes[j].rec = bytes[j - 1].rec + 1
        BY DEF WireInv, Follows
      <4>. HIDE DEF i
      <4>. QED
        BY <2>1, <2>3, <4>1
    <3>2. b.rec = r + 1
      BY <1>1, <2>1, <3>1
    <3>. QED
      BY <1>2, <2>2, <2>3, <3>2
  <2>4. CASE b.place # 1
    <3>. DEFINE q == b.place - 1
    <3>1. q \in 1 .. Size(b.rec) /\ q <= b.place
      BY <2>2, <2>4
    <3>2. bytes[i - b.place + q] = At(b.rec, q)
      <4>. HIDE DEF i, q
      <4>. QED
        BY <2>1, <3>1, Around
    <3>3. i - b.place + q = d
      BY <2>2
    <3>4. bytes[d] = At(b.rec, q)
      BY <3>2, <3>3
    <3>5. r = b.rec /\ Size(r) = q
      BY <1>1, <3>4 DEF At
    <3>6. Size(b.rec) = b.place - 1
      BY <3>5
    <3>. QED
      BY <2>2, <3>6
  <2>. QED
    BY <2>3, <2>4
<1>3. CASE ~ (d < Len(bytes))
  <2>0. Len(bytes) \in Nat
    BY <1>1
  <2>1. d = Len(bytes)
    BY <1>3, <2>0
  <2>2. bytes # <<>>
    BY <1>1, EmptySeq
  <2>3. bytes[Len(bytes)].rec = Len(length)
    BY <2>2 DEF WireInv, Ends
  <2>. QED
    BY <1>1, <1>3, <2>1, <2>3
<1>. QED
  BY <1>2, <1>3

\* The last record, if it is of this life: all its bytes stand at the end of the file.
LEMMA LastRecord ==
    ASSUME TypeOK, WireInv, kind = "file", first <= Len(length)
    PROVE  /\ Size(Len(length)) \in Nat /\ Size(Len(length)) <= Len(bytes)
           /\ \A k \in 0 .. Size(Len(length)) - 1 :
                 bytes[Len(bytes) - k] = At(Len(length), Size(Len(length)) - k)
<1>. DEFINE N == Len(length)
            L == Len(bytes)
            z == Size(N)
            p == bytes[L].place
<1>1. N \in Nat /\ L \in Nat /\ bytes \in Seq(Byte) /\ first \in Nat \ {0}
  BY DEF TypeOK
<1>2. bytes # <<>> /\ L \in 1 .. L
  <2>1. bytes # <<>>
    BY <1>1 DEF WireInv, Ends, Start
  <2>. QED
    BY <1>1, <2>1, EmptySeq
<1>3. bytes[L].rec = N /\ N \notin torn
  BY <1>1, <1>2 DEF WireInv, Ends, TornOld
<1>4. z \in Nat /\ z > 4 /\ p \in 1 .. z
  BY <1>2, <1>3, ByteAt
<1>5. \A q \in 1 .. z : L - p + q \in 1 .. L /\ bytes[L - p + q] = At(N, q)
  BY <1>2, <1>3, Around
<1>6. p = z
  <2>1. z \in 1 .. z
    BY <1>4
  <2>2. L - p + z \in 1 .. L
    BY <1>5, <2>1
  <2>. QED
    BY <1>1, <1>4, <2>2
<1>7. z <= L
  <2>1. 1 \in 1 .. z
    BY <1>4
  <2>2. L - p + 1 \in 1 .. L
    BY <1>5, <2>1
  <2>. QED
    BY <1>1, <1>4, <1>6, <2>2
<1>8. ASSUME NEW k \in 0 .. z - 1 PROVE bytes[L - k] = At(N, z - k)
  <2>1. z - k \in 1 .. z /\ L - p + (z - k) = L - k
    BY <1>1, <1>4, <1>6
  <2>2. bytes[L - p + (z - k)] = At(N, z - k)
    BY <1>5, <2>1
  <2>. QED
    BY <2>1, <2>2
<1>. QED
  BY <1>4, <1>7, <1>8

\* Writing a record keeps the order of what is written.
LEMMA WireWrite ==
    ASSUME TypeOK, WireInv, NEW n \in Lengths, Write(n)
    PROVE  WireInv'
<1>. DEFINE N == Len(length)
            L == Len(bytes)
<1>1. N \in Nat /\ L \in Nat /\ bytes \in Seq(Byte) /\ first \in 1 .. N + 1 /\ Start \in 1 .. N + 1
  BY DEF TypeOK, Start
<1>2. /\ bytes' \in Seq(Byte) /\ Len(bytes') = L + 4 + n /\ n \in Nat \ {0}
      /\ \A i \in 1 .. L : bytes'[i] = bytes[i]
      /\ \A q \in 1 .. 4 + n : bytes'[L + q] = At(N + 1, q)
      /\ Len(length') = N + 1 /\ \A r \in 1 .. N : length'[r] = length[r]
      /\ length'[N + 1] = n
  BY WriteBytes DEF Records
<1>3. /\ kind' = kind /\ first' = first /\ torn' = torn /\ Start' = Start
      /\ N + 1 \notin torn
  BY <1>1 DEF Write, Start, WireInv, TornOld
<1>4. DOMAIN bytes' = 1 .. L + 4 + n /\ DOMAIN bytes = 1 .. L
  BY <1>1, <1>2, LenProperties
\* A byte that was there, or one of the new record.
<1>5. ASSUME NEW i \in DOMAIN bytes'
      PROVE  \/ /\ i \in 1 .. L /\ bytes'[i] = bytes[i] /\ bytes[i].rec \in Start .. N
                /\ Size(bytes[i].rec) \in Nat /\ bytes[i].place \in 1 .. Size(bytes[i].rec)
                /\ 4 + length'[bytes[i].rec] = Size(bytes[i].rec)
             \/ i - L \in 1 .. 4 + n /\ bytes'[i] = At(N + 1, i - L) /\ 4 + length'[N + 1] = 4 + n
  <2>1. CASE i \in 1 .. L
    <3>1. /\ bytes'[i] = bytes[i] /\ bytes[i].rec \in Start .. N /\ bytes[i].rec \in 1 .. N
          /\ Size(bytes[i].rec) \in Nat /\ bytes[i].place \in 1 .. Size(bytes[i].rec)
      BY <1>2, <2>1, ByteAt DEF Records
    <3>2. length'[bytes[i].rec] = length[bytes[i].rec]
      BY <1>2, <3>1
    <3>. QED
      BY <2>1, <3>1, <3>2 DEF Size
  <2>2. CASE i \notin 1 .. L
    <3>1. i - L \in 1 .. 4 + n /\ L + (i - L) = i
      BY <1>1, <1>2, <1>4, <2>2
    <3>2. bytes'[L + (i - L)] = At(N + 1, i - L)
      BY <1>2, <3>1
    <3>. QED
      BY <1>2, <3>1, <3>2
  <2>. QED
    BY <2>1, <2>2
<1>6. Places'
  <2>. SUFFICES ASSUME NEW i \in DOMAIN bytes'
                PROVE  /\ bytes'[i].rec \in Start .. N + 1
                       /\ bytes'[i].place \in 1 .. 4 + length'[bytes'[i].rec]
                       /\ bytes'[i].rec \in torn => bytes'[i].place < 4 + length'[bytes'[i].rec]
    BY <1>2, <1>3 DEF Places, Size
  <2>1. CASE i \in 1 .. L
    <3>0. ~ (i - L \in 1 .. 4 + n)
      BY <1>1, <2>1
    <3>1. /\ bytes'[i] = bytes[i] /\ bytes[i].rec \in Start .. N
          /\ bytes[i].place \in 1 .. Size(bytes[i].rec)
          /\ 4 + length'[bytes[i].rec] = Size(bytes[i].rec)
      BY <1>5, <3>0
    <3>2. bytes[i].rec \in torn => bytes[i].place < Size(bytes[i].rec)
      BY <1>4, <2>1 DEF WireInv, Places
    <3>. QED
      BY <1>1, <3>1, <3>2
  <2>2. CASE i \notin 1 .. L
    <3>1. i - L \in 1 .. 4 + n /\ bytes'[i] = At(N + 1, i - L) /\ 4 + length'[N + 1] = 4 + n
      BY <1>5, <2>2
    <3>. QED
      BY <1>1, <1>3, <3>1 DEF At
  <2>. QED
    BY <2>1, <2>2
<1>7. Together'
  <2>. SUFFICES ASSUME NEW i \in DOMAIN bytes', NEW q \in 1 .. 4 + length'[bytes'[i].rec],
                       bytes'[i].rec \notin torn \/ q <= bytes'[i].place
                PROVE  /\ i - bytes'[i].place + q \in DOMAIN bytes'
                       /\ bytes'[i - bytes'[i].place + q] = At(bytes'[i].rec, q)
    BY <1>2, <1>3 DEF Together, Size, At
  <2>1. CASE i \in 1 .. L
    <3>0. ~ (i - L \in 1 .. 4 + n)
      BY <1>1, <2>1
    <3>1. /\ bytes'[i] = bytes[i] /\ 4 + length'[bytes[i].rec] = Size(bytes[i].rec)
      BY <1>5, <3>0
    <3>2. q \in 1 .. Size(bytes[i].rec)
      BY <3>1
    <3>. DEFINE j == i - bytes[i].place + q
    <3>3. j \in 1 .. L /\ bytes[j] = At(bytes[i].rec, q)
      BY <2>1, <3>1, <3>2, Around
    <3>. HIDE DEF j
    <3>4. bytes'[j] = bytes[j] /\ j \in 1 .. L + 4 + n
      BY <1>1, <1>2, <3>3
    <3>. QED
      BY <1>4, <3>1, <3>3, <3>4 DEF j
  <2>2. CASE i \notin 1 .. L
    <3>1. i - L \in 1 .. 4 + n /\ bytes'[i] = At(N + 1, i - L) /\ 4 + length'[N + 1] = 4 + n
      BY <1>5, <2>2
    <3>2. bytes'[i].rec = N + 1 /\ bytes'[i].place = i - L
      BY <3>1 DEF At
    <3>3. q \in 1 .. 4 + n /\ i - (i - L) + q = L + q /\ L + q \in 1 .. L + 4 + n
      <4>1. q \in 1 .. 4 + n
        BY <3>1, <3>2
      <4>2. i \in Int /\ n \in Int /\ L \in Nat
        BY <1>1, <1>2, <1>4
      <4>. QED
        BY <4>1, <4>2
    <3>4. bytes'[L + q] = At(N + 1, q)
      BY <1>2, <3>3
    <3>. QED
      BY <1>4, <3>2, <3>3, <3>4
  <2>. QED
    BY <2>1, <2>2
<1>8. Follows'
  <2>. SUFFICES ASSUME NEW i \in DOMAIN bytes', i > 1, bytes'[i].place = 1
                PROVE  bytes'[i].rec = bytes'[i - 1].rec + 1
    BY DEF Follows
  <2>0. i \in Nat
    BY <1>1, <1>2, <1>4
  <2>1. CASE i \in 1 .. L
    <3>1. i \in DOMAIN bytes /\ i - 1 \in 1 .. L
      BY <1>1, <1>4, <2>1
    <3>2. bytes'[i] = bytes[i] /\ bytes'[i - 1] = bytes[i - 1]
      BY <1>2, <2>1, <3>1
    <3>. QED
      BY <3>1, <3>2 DEF WireInv, Follows
  <2>2. CASE i \notin 1 .. L
    <3>1. i - L \in 1 .. 4 + n /\ bytes'[i] = At(N + 1, i - L)
      BY <1>5, <2>2
    <3>2. i - L = 1 /\ bytes'[i].rec = N + 1
      BY <3>1 DEF At
    <3>3. i - 1 = L /\ L \in 1 .. L
      BY <1>1, <2>0, <3>2
    <3>4. bytes # <<>>
      BY <1>1, <3>3, EmptySeq
    <3>5. bytes[L].rec = N /\ bytes'[L] = bytes[L]
      BY <1>2, <3>3, <3>4 DEF WireInv, Ends
    <3>. QED
      BY <3>2, <3>3, <3>5
  <2>. QED
    BY <2>1, <2>2
<1>9. Ends'
  <2>1. bytes' # <<>>
    BY <1>1, <1>2, EmptySeq
  <2>2. bytes'[1] = At(Start, 1)
    <3>1. CASE bytes = <<>>
      <4>1. L = 0 /\ N = Start - 1
        BY <3>1, EmptySeq DEF WireInv, Ends
      <4>2. bytes'[L + 1] = At(N + 1, 1)
        BY <1>2
      <4>3. L + 1 = 1 /\ N + 1 = Start
        BY <1>1, <4>1
      <4>. QED
        BY <4>2, <4>3
    <3>2. CASE bytes # <<>>
      <4>1. 1 \in 1 .. L
        BY <1>1, <3>2, EmptySeq
      <4>. QED
        BY <1>2, <3>2, <4>1 DEF WireInv, Ends
    <3>. QED
      BY <3>1, <3>2
  <2>3. bytes'[Len(bytes')].rec = N + 1
    <3>1. 4 + n \in 1 .. 4 + n /\ L + (4 + n) = Len(bytes')
      BY <1>1, <1>2
    <3>2. bytes'[L + (4 + n)] = At(N + 1, 4 + n)
      BY <1>2, <3>1
    <3>. QED
      BY <3>1, <3>2 DEF At
  <2>. QED
    BY <1>2, <1>3, <2>1, <2>2, <2>3 DEF Ends, At
<1>10. TornOld'
  BY <1>3 DEF WireInv, TornOld
<1>. QED
  BY <1>6, <1>7, <1>8, <1>9, <1>10 DEF WireInv

\* A crash keeps all but a last part of the record under way.
LEMMA WireRestart ==
    ASSUME TypeOK, WireInv, Restart
    PROVE  WireInv'
<1>. DEFINE N == Len(length)
            L == Len(bytes)
<1>1. /\ N \in Nat /\ L \in Nat /\ bytes \in Seq(Byte) /\ first \in 1 .. N + 1
      /\ kind = "file" /\ Start = 1 /\ torn \subseteq 1 .. N
  BY DEF TypeOK, Start, Restart, Records
<1>2. PICK cut \in Cuts : /\ bytes' = SubSeq(bytes, 1, L - cut)
                          /\ torn' = IF cut = 0 THEN torn ELSE torn \cup {N}
  BY DEF Restart
<1>3. /\ cut \in Nat
      /\ cut > 0 => /\ first <= N /\ cut < Size(N) /\ Size(N) \in Nat /\ Size(N) <= L
                    /\ \A k \in 0 .. Size(N) - 1 : bytes[L - k] = At(N, Size(N) - k)
  <2>1. CASE first > N
    BY <1>1, <2>1 DEF Cuts
  <2>2. CASE ~ (first > N)
    <3>1. /\ first <= N /\ Size(N) \in Nat /\ Size(N) <= L
          /\ \A k \in 0 .. Size(N) - 1 : bytes[L - k] = At(N, Size(N) - k)
      BY <1>1, <2>2, LastRecord
    <3>2. N \in 1 .. N /\ length[N] \in Nat
      <4>1. N \in 1 .. N
        BY <1>1, <3>1
      <4>. QED
        BY <4>1, ElementOfSeq, FramingAssumption DEF TypeOK
    <3>3. cut \in 0 .. 3 + length[N]
      BY <2>2 DEF Cuts
    <3>. QED
      BY <3>1, <3>2, <3>3 DEF Size
  <2>. QED
    BY <2>1, <2>2
<1>4. L - cut \in 0 .. L /\ (cut > 0 => L - cut >= 1)
  BY <1>1, <1>3
<1>5. /\ bytes' \in Seq(Byte) /\ Len(bytes') = L - cut
      /\ \A i \in 1 .. L - cut : bytes'[i] = bytes[i]
  <2>1. /\ bytes' \in Seq(Byte)
        /\ Len(bytes') = IF 1 <= L - cut THEN L - cut - 1 + 1 ELSE 0
        /\ \A i \in 1 .. L - cut - 1 + 1 : bytes'[i] = bytes[1 + i - 1]
    BY <1>1, <1>2, <1>4, Part
  <2>2. ASSUME NEW i \in 1 .. L - cut PROVE bytes'[i] = bytes[i]
    <3>1. i \in 1 .. L - cut - 1 + 1 /\ 1 + i - 1 = i
      BY <1>1, <1>3
    <3>2. bytes'[i] = bytes[1 + i - 1]
      BY <2>1, <3>1
    <3>. QED
      BY <3>1, <3>2
  <2>. QED
    BY <1>4, <2>1, <2>2
<1>6. /\ kind' = kind /\ length' = length /\ first' = N + 1 /\ Start' = 1
  BY <1>1 DEF Restart, Start
<1>7. DOMAIN bytes' = 1 .. L - cut
  BY <1>5, LenProperties
<1>8. ASSUME NEW i \in DOMAIN bytes'
      PROVE  /\ i \in 1 .. L - cut /\ i \in 1 .. L /\ bytes'[i] = bytes[i]
             /\ bytes[i].rec \in 1 .. N
             /\ Size(bytes[i].rec) \in Nat /\ bytes[i].place \in 1 .. Size(bytes[i].rec)
  <2>1. i \in 1 .. L - cut /\ i \in 1 .. L
    BY <1>4, <1>7
  <2>. QED
    BY <1>1, <1>5, <2>1, ByteAt DEF Records
<1>9. Places'
  <2>. SUFFICES ASSUME NEW i \in DOMAIN bytes'
                PROVE  bytes[i].rec \in torn' => bytes[i].place < Size(bytes[i].rec)
    BY <1>6, <1>8 DEF Places, Size
  <2>1. CASE bytes[i].rec \in torn
    <3>1. i \in DOMAIN bytes
      BY <1>1, <1>8, LenProperties
    <3>. QED
      BY <2>1, <3>1 DEF WireInv, Places
  <2>2. CASE bytes[i].rec = N /\ cut > 0
    <3>1. SUFFICES ASSUME bytes[i].place = Size(N) PROVE FALSE
      BY <1>8, <2>2
    <3>2. i < L /\ bytes[i] = At(N, Size(N))
      <4>1. i < L
        BY <1>1, <1>3, <1>8, <2>2
      <4>. QED
        BY <1>8, <2>2, <3>1, <4>1, ByteAt
    <3>3. bytes[i + 1] = At(N + 1, 1)
      BY <1>8, <3>2, NextRecord
    <3>4. i + 1 \in 1 .. L
      BY <1>1, <1>8, <3>2
    <3>5. bytes[i + 1].rec \in 1 .. N
      BY <1>1, <3>4, ByteAt DEF Records
    <3>. QED
      BY <1>1, <3>3, <3>5 DEF At
  <2>. QED
    BY <1>2, <1>3, <2>1, <2>2
<1>10. Together'
  <2>. SUFFICES ASSUME NEW i \in DOMAIN bytes', NEW q \in 1 .. Size(bytes[i].rec),
                       bytes[i].rec \notin torn' \/ q <= bytes[i].place
                PROVE  /\ i - bytes[i].place + q \in DOMAIN bytes'
                       /\ bytes'[i - bytes[i].place + q] = At(bytes[i].rec, q)
    BY <1>6, <1>8 DEF Together, Size, At
  <2>. DEFINE j == i - bytes[i].place + q
              r == bytes[i].rec
  <2>1. j \in 1 .. L /\ bytes[j] = At(r, q)
    <3>1. r \notin torn \/ q <= bytes[i].place
      BY <1>2
    <3>. QED
      BY <1>8, <3>1, Around
  <2>2. j <= L - cut
    <3>1. CASE q <= bytes[i].place
      BY <1>1, <1>3, <1>8, <3>1
    <3>2. CASE cut = 0
      BY <1>1, <2>1, <3>2
    <3>3. CASE cut > 0 /\ r \notin torn'
      <4>1. r # N
        BY <1>2, <3>3
      <4>2. SUFFICES ASSUME j > L - cut PROVE FALSE
        BY <1>1, <1>3, <2>1
      <4>. DEFINE k == L - j
      <4>3. k \in 0 .. Size(N) - 1 /\ L - k = j
        BY <1>1, <1>3, <2>1, <3>3, <4>2
      <4>4. bytes[L - k] = At(N, Size(N) - k)
        BY <1>3, <3>3, <4>3
      <4>5. bytes[j] = At(N, Size(N) - k)
        BY <4>3, <4>4
      <4>. QED
        BY <2>1, <4>1, <4>5 DEF At
    <3>. QED
      BY <1>3, <3>1, <3>2, <3>3
  <2>3. j \in 1 .. L - cut
    BY <1>1, <1>3, <2>1, <2>2
  <2>. QED
    BY <1>5, <1>7, <2>1, <2>3
<1>11. Follows'
  <2>. SUFFICES ASSUME NEW i \in DOMAIN bytes', i > 1, bytes'[i].place = 1
                PROVE  bytes'[i].rec = bytes'[i - 1].rec + 1
    BY DEF Follows
  <2>1. i \in DOMAIN bytes /\ i \in 1 .. L - cut /\ i - 1 \in 1 .. L - cut
    BY <1>1, <1>3, <1>8, LenProperties
  <2>2. bytes'[i] = bytes[i] /\ bytes'[i - 1] = bytes[i - 1]
    BY <1>5, <2>1
  <2>. QED
    BY <2>1, <2>2 DEF WireInv, Follows
<1>12. Ends'
  <2>1. CASE L - cut = 0
    <3>1. L = 0
      BY <1>1, <1>3, <1>4, <2>1
    <3>2. bytes = <<>> /\ bytes' = <<>>
      BY <1>1, <1>5, <2>1, <3>1, EmptySeq
    <3>. QED
      BY <1>1, <1>6, <3>2 DEF WireInv, Ends
  <2>2. CASE L - cut # 0
    <3>1. L - cut \in 1 .. L - cut /\ 1 \in 1 .. L - cut /\ L # 0
      BY <1>1, <1>3, <1>4, <2>2
    <3>2. bytes # <<>> /\ bytes' # <<>>
      BY <1>1, <1>5, <3>1, EmptySeq
    <3>3. bytes'[1] = At(1, 1)
      BY <1>1, <1>5, <3>1, <3>2 DEF WireInv, Ends
    <3>4. bytes'[L - cut] = bytes[L - cut]
      BY <1>5, <3>1
    <3>5. bytes[L - cut].rec = N
      <4>1. CASE cut = 0
        <5>1. bytes[L].rec = N
          BY <3>2 DEF WireInv, Ends
        <5>. QED
          BY <1>1, <4>1, <5>1
      <4>2. CASE cut > 0
        <5>1. cut \in 0 .. Size(N) - 1
          BY <1>3, <4>2
        <5>2. bytes[L - cut] = At(N, Size(N) - cut)
          BY <1>3, <4>2, <5>1
        <5>. QED
          BY <5>2 DEF At
      <4>. QED
        BY <1>3, <4>1, <4>2
    <3>. QED
      BY <1>5, <1>6, <3>2, <3>3, <3>4, <3>5 DEF Ends, At
  <2>. QED
    BY <2>1, <2>2
<1>13. TornOld'
  <2>1. cut > 0 => N \in 1 .. N
    BY <1>1, <1>3
  <2>2. torn' \subseteq 1 .. N
    <3>1. cut = 0 \/ cut > 0
      BY <1>3
    <3>2. torn' = torn \/ (torn' = torn \cup {N} /\ N \in 1 .. N)
      BY <1>2, <2>1, <3>1
    <3>3. torn \subseteq 1 .. N
      BY <1>1
    <3>. QED
      BY <3>2, <3>3
  <2>. QED
    BY <1>1, <1>6, <2>2 DEF TornOld
<1>. QED
  BY <1>9, <1>10, <1>11, <1>12, <1>13 DEF WireInv

\* Every step keeps what is written in order: a writer that appends, a crash, a new socket.
LEMMA WireNext == TypeOK /\ WireInv /\ [Next]_vars => WireInv'
<1>. SUFFICES ASSUME TypeOK, WireInv, [Next]_vars PROVE WireInv'
  OBVIOUS
<1>1. ASSUME NEW n \in Lengths, Write(n) PROVE WireInv'
  BY <1>1, WireWrite
<1>2. CASE Restart
  BY <1>2, WireRestart
<1>3. CASE Reconnect
  <2>1. /\ bytes' = <<>> /\ torn' = torn /\ kind' = kind /\ length' = length
        /\ kind = "socket" /\ first' = Len(length) + 1
    BY <1>3 DEF Reconnect
  <2>2. DOMAIN bytes' = {} /\ Len(length) \in Nat
    BY <2>1 DEF TypeOK
  <2>3. Places' /\ Together' /\ Follows'
    BY <2>2 DEF Places, Together, Follows
  <2>4. Ends'
    BY <2>1, <2>2 DEF Ends, Start
  <2>5. TornOld'
    BY <2>1 DEF WireInv, TornOld
  <2>. QED
    BY <2>3, <2>4, <2>5 DEF WireInv
<1>4. CASE Read \/ UNCHANGED vars
  <2>1. UNCHANGED <<kind, length, bytes, first, torn>>
    BY <1>4, ReadQuiet DEF vars
  <2>. QED
    BY <2>1 DEF WireInv, Places, Together, Follows, Ends, TornOld, Start, Size, At
<1>. QED
  BY <1>1, <1>2, <1>3, <1>4 DEF Next

--------------------------------------------------------------------------------
(* What the reader knows of the bytes.                                     *)

\* The record that begins where the last one that was handed on ends.
LEMMA Front ==
    ASSUME TypeOK, WireInv, NEW c \in Nat, Boundary(c), c < Len(bytes),
           NEW r, r = Start + Len(loaded)
    PROVE  /\ bytes[c + 1] = At(r, 1) /\ r \in Records /\ r \in Nat
           /\ Size(r) \in Nat /\ Size(r) > 4
<1>1. bytes[c + 1] = At(r, 1)
  BY DEF Boundary
<1>2. c + 1 \in 1 .. Len(bytes) /\ bytes[c + 1].rec = r
  BY <1>1 DEF At, TypeOK
<1>3. r \in Records /\ Size(r) \in Nat /\ Size(r) > 4
  BY <1>2, ByteAt
<1>4. r \in Nat
  BY <1>3 DEF Records
<1>. QED
  BY <1>1, <1>3, <1>4

\* While records are cut, the bytes from the position on are those of the next record.
LEMMA Cutting ==
    ASSUME TypeOK, ReadInv, ~slipped, pc = "cut",
           NEW c, c = off - Len(buf) + pos
    PROVE  /\ c \in Nat /\ Boundary(c) /\ Remaining \in Nat /\ c + Remaining = off
           /\ off <= Len(bytes) /\ Len(bytes) \in Nat
           /\ \A i \in 1 .. Remaining : buf[pos + i] = bytes[c + i]
<1>1. /\ Len(buf) \in Nat /\ pos \in 0 .. Len(buf) /\ off \in 0 .. Len(bytes)
      /\ Len(bytes) \in Nat /\ buf \in Seq(Byte)
  BY DEF TypeOK
<1>2. Window /\ Boundary(c)
  BY DEF ReadInv
<1>3. c \in Nat /\ Remaining \in Nat /\ c + Remaining = off /\ off <= Len(bytes)
  BY <1>1, <1>2 DEF Window, Remaining
<1>4. ASSUME NEW i \in 1 .. Remaining PROVE buf[pos + i] = bytes[c + i]
  <2>. DEFINE j == pos + i
  <2>1. j \in DOMAIN buf
    BY <1>1, LenProperties DEF Remaining
  <2>2. off - Len(buf) + j = c + i
    BY <1>1
  <2>3. \A k \in DOMAIN buf : buf[k] = bytes[off - Len(buf) + k]
    BY <1>2 DEF Window
  <2>. HIDE DEF j
  <2>4. buf[j] = bytes[off - Len(buf) + j]
    BY <2>1, <2>3
  <2>. QED
    BY <2>2, <2>4 DEF j
<1>. QED
  BY <1>1, <1>2, <1>3, <1>4

\* A record that is handed on is the next one, and its last byte is there.
LEMMA Handed ==
    ASSUME TypeOK, WireInv, ReadInv, ~slipped, CutRecord,
           NEW r, r = Start + Len(loaded), NEW d, d = off - Len(buf) + pos'
    PROVE  /\ loaded' = Append(loaded, r) /\ r \in Records
           /\ d \in 1 .. Len(bytes) /\ bytes[d] = At(r, Size(r))
           /\ Size(r) \in Nat
<1>. DEFINE c == off - Len(buf) + pos
<1>1. /\ c \in Nat /\ Boundary(c) /\ Remaining \in Nat /\ c + Remaining = off
      /\ off <= Len(bytes) /\ Len(bytes) \in Nat
      /\ \A i \in 1 .. Remaining : buf[pos + i] = bytes[c + i]
  BY Cutting DEF CutRecord
<1>2. Remaining > 4 /\ c < Len(bytes) /\ 1 \in 1 .. Remaining
  BY <1>1 DEF CutRecord, LengthThere
<1>3. bytes[c + 1] = At(r, 1) /\ r \in Records /\ Size(r) \in Nat /\ Size(r) > 4
  BY <1>1, <1>2, Front
<1>4. buf[pos + 1].rec = r
  BY <1>1, <1>2, <1>3 DEF At
<1>5. PICK size \in SizeRead : Remaining - 4 >= size /\ IsBody(size) /\ pos' = pos + 4 + size
  BY DEF CutRecord
<1>6. /\ size = length[r] /\ \A i \in 1 .. 4 + size : buf[pos + i] = At(r, i)
  BY <1>4, <1>5 DEF IsBody, At
<1>7. 4 + size = Size(r) /\ Size(r) \in 1 .. Remaining /\ size \in Int
  <2>1. 4 + size = Size(r)
    BY <1>6 DEF Size
  <2>2. size \in Int
    <3>1. length[r] \in Nat
      BY <1>3, ElementOfSeq, FramingAssumption DEF TypeOK, Records
    <3>. QED
      BY <1>6, <3>1
  <2>3. Remaining \in Nat /\ Remaining - 4 >= size
    BY <1>1, <1>5
  <2>. QED
    BY <1>3, <2>1, <2>2, <2>3
<1>8. buf[pos + Size(r)] = At(r, Size(r)) /\ buf[pos + Size(r)] = bytes[c + Size(r)]
  <2>1. Size(r) \in 1 .. 4 + size
    BY <1>3, <1>7
  <2>. QED
    BY <1>1, <1>6, <1>7, <2>1
<1>9. d = c + Size(r) /\ d \in 1 .. Len(bytes)
  <2>1. Len(buf) \in Nat /\ pos \in Nat /\ off \in Nat
    BY DEF TypeOK
  <2>2. d = c + Size(r)
    BY <1>5, <1>7, <2>1
  <2>. QED
    BY <1>1, <1>3, <1>7, <2>2
<1>10. loaded' = Append(loaded, r)
  BY <1>4 DEF CutRecord
<1>. QED
  BY <1>3, <1>8, <1>9, <1>10

\* The bytes from the position on are those of one record, if it is not torn.
LEMMA Intact ==
    ASSUME TypeOK, WireInv, ReadInv, ~slipped, pc = "cut", LengthThere,
           NEW r, r = Start + Len(loaded), r \notin torn
    PROVE  /\ SizeRead = {length[r]} /\ length[r] \in Nat /\ buf[pos + 1].rec = r
           /\ \A i \in 1 .. Remaining : i <= Size(r) => buf[pos + i] = At(r, i)
<1>. DEFINE c == off - Len(buf) + pos
<1>1. /\ c \in Nat /\ Boundary(c) /\ Remaining \in Nat /\ c + Remaining = off
      /\ off <= Len(bytes) /\ Len(bytes) \in Nat
      /\ \A i \in 1 .. Remaining : buf[pos + i] = bytes[c + i]
  BY Cutting
<1>2. Remaining > 4 /\ c < Len(bytes)
  BY <1>1 DEF LengthThere
<1>3. bytes[c + 1] = At(r, 1) /\ Size(r) \in Nat /\ Size(r) > 4 /\ r \in Records
  BY <1>1, <1>2, Front
<1>4. \A q \in 1 .. Size(r) : bytes[c + q] = At(r, q)
  <2>. HIDE DEF c
  <2>. QED
    BY <1>1, <1>2, <1>3, FrameThere
<1>5. \A i \in 1 .. Remaining : i <= Size(r) => buf[pos + i] = At(r, i)
  <2>1. \A i \in 1 .. Remaining : i <= Size(r) => i \in 1 .. Size(r)
    BY <1>1, <1>3
  <2>. QED
    BY <1>1, <1>4, <2>1
<1>6. \A i \in 1 .. 4 : buf[pos + i] = At(r, i)
  <2>1. \A i \in 1 .. 4 : i \in 1 .. Remaining /\ i <= Size(r)
    BY <1>1, <1>2, <1>3
  <2>. QED
    BY <1>5, <2>1
<1>7. buf[pos + 1].rec = r
  BY <1>6 DEF At
<1>8. SizeRead = {length[r]}
  BY <1>6, <1>7 DEF SizeRead, At
<1>9. length[r] \in Nat
  BY <1>3, ElementOfSeq, FramingAssumption DEF TypeOK, Records
<1>. QED
  BY <1>5, <1>7, <1>8, <1>9

\* Keeping the bytes from the position on keeps them the last that were read.
LEMMA Kept ==
    ASSUME TypeOK, WireInv, ReadInv, ~slipped, pc = "cut", buf' = Compacted,
           UNCHANGED <<kind, length, bytes, off, loaded, first, torn>>
    PROVE  /\ Window' /\ Boundary(off - Len(buf))' /\ Len(buf') = Remaining
           /\ buf' # <<>> => /\ Size(Start + Len(loaded)) \in Nat
                             /\ Size(Start + Len(loaded)) > 4
<1>. DEFINE c == off - Len(buf) + pos
<1>1. /\ c \in Nat /\ Boundary(c) /\ Remaining \in Nat /\ c + Remaining = off
      /\ off <= Len(bytes) /\ Len(bytes) \in Nat
      /\ \A i \in 1 .. Remaining : buf[pos + i] = bytes[c + i]
  BY Cutting
<1>2. /\ buf' \in Seq(Byte) /\ Len(buf') = Remaining
      /\ \A i \in 1 .. Remaining : buf'[i] = buf[pos + i]
  BY BufPart DEF Remaining
<1>3. DOMAIN buf' = 1 .. Remaining
  BY <1>2, LenProperties
<1>4. off' - Len(buf') = c
  <2>. HIDE DEF c
  <2>. QED
    BY <1>1, <1>2
<1>5. Window'
  <2>1. Len(buf') <= off'
    BY <1>1, <1>2
  <2>2. \A i \in DOMAIN buf' : buf'[i] = bytes'[off' - Len(buf') + i]
    BY <1>1, <1>2, <1>3, <1>4
  <2>. QED
    BY <2>1, <2>2 DEF Window
<1>6. Boundary(off - Len(buf))'
  BY <1>1, <1>4 DEF Boundary, Start, At
<1>7. ASSUME buf' # <<>>
      PROVE  Size(Start + Len(loaded)) \in Nat /\ Size(Start + Len(loaded)) > 4
  <2>1. Remaining > 0
    BY <1>2, <1>7, EmptySeq
  <2>2. c < Len(bytes)
    BY <1>1, <2>1
  <2>. QED
    BY <1>1, <2>2, Front
<1>. QED
  BY <1>2, <1>5, <1>6, <1>7

--------------------------------------------------------------------------------
(* The reader always stands where a record begins.                         *)

\* A record that is appended begins where the last one ended, also for the reader.
LEMMA ReadWrite ==
    ASSUME TypeOK, WireInv, ReadInv, NEW n \in Lengths, Write(n)
    PROVE  ReadInv'
<1>. DEFINE N == Len(length)
            L == Len(bytes)
            r == Start + Len(loaded)
<1>1. /\ N \in Nat /\ L \in Nat /\ off \in 0 .. L /\ Len(buf) \in Nat /\ buf \in Seq(Byte)
      /\ Len(loaded) \in Nat /\ first \in 1 .. N + 1 /\ Start \in 1 .. N + 1 /\ left \in 0 .. 4
      /\ r \in Nat
  BY DEF TypeOK, Start
<1>2. /\ Len(bytes') = L + 4 + n /\ n \in Nat
      /\ \A i \in 1 .. L : bytes'[i] = bytes[i]
      /\ \A q \in 1 .. 4 + n : bytes'[L + q] = At(N + 1, q)
      /\ Len(length') = N + 1 /\ \A k \in 1 .. N : length'[k] = length[k]
  BY WriteBytes DEF Records
<1>3. /\ UNCHANGED <<kind, off, buf, pos, room, pc, loaded, first, torn, left, slipped, aligned>>
      /\ Start' = Start
  BY DEF Write, Start
<1>4. ASSUME NEW c, Boundary(c) PROVE Boundary(c)'
  <2>1. c \in 0 .. L /\ c \in 0 .. L + 4 + n /\ c < L + 4 + n
    BY <1>1, <1>2, <1>4 DEF Boundary
  <2>2. bytes'[c + 1] = At(r, 1)
    <3>1. CASE c < L
      <4>1. c + 1 \in 1 .. L /\ bytes[c + 1] = At(r, 1)
        BY <1>1, <1>4, <2>1, <3>1 DEF Boundary
      <4>. QED
        BY <1>2, <4>1
    <3>2. CASE ~ (c < L)
      <4>1. c = L /\ N = r - 1
        BY <1>1, <1>4, <2>1, <3>2 DEF Boundary
      <4>2. bytes'[L + 1] = At(N + 1, 1)
        BY <1>2
      <4>3. N + 1 = r
        BY <1>1, <4>1
      <4>. QED
        BY <4>1, <4>2, <4>3
    <3>. QED
      BY <3>1, <3>2
  <2>. QED
    BY <1>2, <1>3, <2>1, <2>2 DEF Boundary, At
<1>5. ASSUME Window PROVE Window'
  <2>1. DOMAIN buf = 1 .. Len(buf) /\ Len(buf) <= off
    BY <1>1, <1>5, LenProperties DEF Window
  <2>2. \A i \in 1 .. Len(buf) : buf[i] = bytes[off - Len(buf) + i]
    BY <1>5, <2>1 DEF Window
  <2>3. \A i \in 1 .. Len(buf) : off - Len(buf) + i \in 1 .. L
    BY <1>1, <2>1
  <2>4. \A i \in 1 .. Len(buf) : buf[i] = bytes'[off - Len(buf) + i]
    BY <1>2, <2>2, <2>3
  <2>. QED
    BY <1>3, <2>1, <2>4 DEF Window
<1>6. ASSUME Partial PROVE Partial'
  <2>1. left' = 0 /\ Window' /\ Boundary(off - Len(buf))'
    BY <1>3, <1>4, <1>5, <1>6 DEF Partial, Boundary
  <2>2. kind' = "file" => Len(buf') + room' = Capacity
    BY <1>3, <1>6 DEF Partial
  <2>3. ASSUME buf # <<>>, r \notin torn PROVE Len(buf) < 4 + length'[r]
    <3>1. Len(buf) > 0 /\ Len(buf) <= off /\ Len(buf) < Size(r)
      BY <1>1, <1>6, <2>3, EmptySeq DEF Partial, Window
    <3>2. off - Len(buf) \in Nat /\ off - Len(buf) < L
      BY <1>1, <3>1
    <3>3. r \in 1 .. N
      BY <1>6, <3>2, Front DEF Partial, Records
    <3>. QED
      BY <1>2, <3>1, <3>3 DEF Size
  <2>. QED
    BY <1>3, <2>1, <2>2, <2>3 DEF Partial, Size
<1>7. ASSUME ReadOver PROVE ReadOver'
  <2>1. Boundary(off - left)'
    BY <1>3, <1>4, <1>7 DEF ReadOver, Boundary
  <2>. QED
    BY <1>3, <1>7, <2>1 DEF ReadOver
<1>8. ASSUME Boundary(off - Len(buf) + pos) PROVE Boundary(off - Len(buf) + pos)'
  BY <1>3, <1>4, <1>8 DEF Boundary
<1>. QED
  BY <1>3, <1>5, <1>6, <1>7, <1>8 DEF ReadInv

\* A reader that starts stands at the first record.
LEMMA ReadStart ==
    ASSUME TypeOK, WireInv', TypeOK', BufInv, Restart \/ Reconnect
    PROVE  ReadInv'
<1>1. /\ pc' = "fill" /\ off' = 0 /\ buf' = <<>> /\ loaded' = <<>> /\ left' = 0
      /\ kind' = "file" => room' = Capacity
  BY DEF Restart, Reconnect, BufInv
<1>2. Len(buf') = 0 /\ Len(loaded') = 0 /\ DOMAIN buf' = {} /\ Capacity \in Nat
  BY <1>1, FramingAssumption
<1>3. Window'
  BY <1>1, <1>2 DEF Window
<1>4. Boundary(off - Len(buf))'
  <2>1. bytes' \in Seq(Byte) /\ Len(bytes') \in Nat /\ Start' \in Nat
    <3>1. Len(length') \in Nat /\ first' \in 1 .. Len(length') + 1 /\ bytes' \in Seq(Byte)
      BY DEF TypeOK
    <3>. QED
      BY <3>1 DEF Start
  <2>2. IF bytes' = <<>> THEN Len(length') = Start' - 1 ELSE bytes'[1] = At(Start', 1)
    BY DEF WireInv, Ends, At
  <2>3. bytes' = <<>> \/ Len(bytes') > 0
    BY <2>1, EmptySeq
  <2>4. bytes' = <<>> => Len(bytes') = 0
    BY EmptySeq
  <2>5. Boundary(0)'
    <3>1. PICK s : s = Start'
      OBVIOUS
    <3>2. PICK k : k = Len(loaded')
      OBVIOUS
    <3>3. s \in Nat /\ k = 0 /\ 0 \in 0 .. Len(bytes') /\ Len(bytes') \in Nat
      BY <1>2, <2>1, <3>1, <3>2
    <3>4. s + k = s
      BY <3>3
    <3>5. CASE bytes' = <<>>
      <4>1. Len(length') = s - 1
        BY <2>2, <3>1, <3>5
      <4>2. Len(length') = s + k - 1
        BY <3>3, <4>1
      <4>3. ~ (0 < Len(bytes'))
        BY <2>4, <3>5
      <4>. QED
        BY <3>1, <3>2, <3>3, <4>2, <4>3 DEF Boundary
    <3>6. CASE bytes' # <<>>
      <4>1. bytes'[0 + 1] = At(s + k, 1)
        BY <2>2, <3>1, <3>4, <3>6
      <4>. QED
        BY <2>3, <3>1, <3>2, <3>3, <3>6, <4>1 DEF Boundary, At
    <3>. QED
      BY <3>5, <3>6
  <2>6. off' - Len(buf') = 0
    <3>1. off' = 0 /\ Len(buf') = 0
      BY <1>1, <1>2
    <3>. QED
      BY <3>1
  <2>. QED
    BY <2>5, <2>6 DEF Boundary
<1>5. Partial'
  BY <1>1, <1>2, <1>3, <1>4 DEF Partial
<1>. QED
  BY <1>1, <1>5 DEF ReadInv

\* Filling the buffer goes on where reading stopped.
LEMMA ReadTake ==
    ASSUME TypeOK, ReadInv, BufInv, pc = "fill", NEW n \in 1 .. Rest, Take(n),
           kind = "file" => room > 0
    PROVE  ReadInv'
<1>. SUFFICES ASSUME ~slipped' PROVE Window' /\ Boundary(off - Len(buf) + pos)'
  BY DEF ReadInv, Take
<1>1. /\ off' = off + n /\ pos' = 0 /\ ~slipped /\ ~ (left > 0) /\ off \in Nat /\ n \in Nat
      /\ UNCHANGED <<kind, length, bytes, loaded, first, torn>>
      /\ buf \in Seq(Byte) /\ Len(buf) \in Nat /\ left \in Nat
  <2>1. off \in Nat /\ buf \in Seq(Byte) /\ Len(buf) \in Nat /\ left \in Nat
    BY DEF TypeOK
  <2>2. n \in Nat
    BY DEF TypeOK, Rest
  <2>. QED
    BY <2>1, <2>2 DEF Take
<1>2. left = 0
  BY <1>1
<1>3. Partial
  BY <1>1, <1>2 DEF ReadInv, ReadOver
<1>4. /\ buf' \in Seq(Byte) /\ Len(buf') = Len(buf) + n
      /\ \A i \in DOMAIN buf' :
            buf'[i] = IF i <= Len(buf) THEN buf[i] ELSE bytes[off + i - Len(buf)]
  BY TakeType DEF TypeOK
<1>5. DOMAIN buf' = 1 .. Len(buf) + n /\ DOMAIN buf = 1 .. Len(buf)
  BY <1>1, <1>4, LenProperties
<1>6. off' - Len(buf') = off - Len(buf) /\ off' - Len(buf') + pos' = off - Len(buf)
  BY <1>1, <1>4
<1>7. ASSUME NEW i \in DOMAIN buf' PROVE buf'[i] = bytes[off - Len(buf) + i]
  <2>1. CASE i <= Len(buf)
    <3>1. i \in DOMAIN buf /\ buf'[i] = buf[i]
      BY <1>1, <1>4, <1>5, <2>1
    <3>. QED
      BY <1>3, <3>1 DEF Partial, Window
  <2>2. CASE ~ (i <= Len(buf))
    <3>1. buf'[i] = bytes[off + i - Len(buf)]
      BY <1>4, <2>2
    <3>2. off + i - Len(buf) = off - Len(buf) + i
      BY <1>1, <1>5
    <3>. QED
      BY <3>1, <3>2
  <2>. QED
    BY <2>1, <2>2
<1>8. Window'
  <2>1. Len(buf') <= off'
    BY <1>1, <1>3, <1>4 DEF Partial, Window
  <2>. QED
    BY <1>1, <1>6, <1>7, <2>1 DEF Window
<1>9. Boundary(off - Len(buf) + pos)'
  BY <1>1, <1>3, <1>6 DEF Partial, Boundary, Start, At
<1>. QED
  BY <1>8, <1>9

\* Every step of the reader, and of the writer beside it, keeps the reader at a record.
LEMMA ReadNext ==
    TypeOK /\ TypeOK' /\ WireInv /\ WireInv' /\ BufInv /\ ReadInv /\ [Next]_vars => ReadInv'
<1>. SUFFICES ASSUME TypeOK, TypeOK', WireInv, WireInv', BufInv, ReadInv, [Next]_vars
              PROVE  ReadInv'
  OBVIOUS
<1>0. /\ Len(length) \in Nat /\ Len(bytes) \in Nat /\ Len(buf) \in Nat /\ off \in 0 .. Len(bytes)
      /\ pos \in 0 .. Len(buf) /\ kind \in {"socket", "file"}
  <2>1. /\ length \in Seq(Lengths) /\ bytes \in Seq(Byte) /\ buf \in Seq(Byte)
        /\ off \in 0 .. Len(bytes) /\ pos \in 0 .. Len(buf) /\ kind \in {"socket", "file"}
    BY DEF TypeOK
  <2>. QED
    BY <2>1
<1>1. ASSUME NEW n \in Lengths, Write(n) PROVE ReadInv'
  BY <1>1, ReadWrite
<1>2. CASE Restart \/ Reconnect
  BY <1>2, ReadStart
<1>3. CASE Arrive
  <2>1. PICK n \in 1 .. Rest : Take(n)
    BY <1>3 DEF Arrive
  <2>2. pc = "fill" /\ kind # "file"
    BY <1>3 DEF Arrive
  <2>. QED
    BY <2>1, <2>2, ReadTake
<1>4. CASE ReadFile
  <2>1. room \in Nat /\ Rest \in Nat
    BY <1>0 DEF Rest, TypeOK
  <2>2. pc = "fill" /\ room > 0 /\ Rest > 0
    BY <1>4 DEF ReadFile
  <2>3. PICK n \in 1 .. Rest : Take(n)
    <3>1. (IF room < Rest THEN room ELSE Rest) \in 1 .. Rest
      BY <2>1, <2>2
    <3>. QED
      BY <1>4, <3>1 DEF ReadFile
  <2>. QED
    BY <2>2, <2>3, ReadTake
<1>5. CASE ReadNothing \/ CutGarbage
  <2>1. pc' = "done" \/ pc' = "failed"
    BY <1>5 DEF ReadNothing, CutGarbage
  <2>. QED
    BY <2>1 DEF ReadInv
<1>6. CASE CutRecord
  <2>. SUFFICES ASSUME ~slipped' PROVE Window' /\ Boundary(off - Len(buf) + pos)'
    BY <1>6 DEF ReadInv, CutRecord
  <2>1. /\ ~slipped /\ pc = "cut"
        /\ UNCHANGED <<kind, length, bytes, off, buf, first>>
    BY <1>6 DEF CutRecord
  <2>. DEFINE r == Start + Len(loaded)
  <2>0. PICK d : d = off - Len(buf) + pos'
    OBVIOUS
  <2>2. /\ loaded' = Append(loaded, r) /\ r \in Records /\ Size(r) \in Nat
        /\ d \in 1 .. Len(bytes) /\ bytes[d] = At(r, Size(r))
    BY <1>6, <2>0, <2>1, Handed
  <2>3. Window'
    BY <2>1 DEF ReadInv, Window
  <2>4. Start' = Start /\ Start \in Nat /\ Len(loaded) \in Nat /\ Len(loaded') = Len(loaded) + 1
    BY <2>1, <2>2 DEF Start, TypeOK
  <2>5. Start' + Len(loaded') = r + 1 /\ Start' + Len(loaded') - 1 = r
    BY <2>4
  <2>6. IF d < Len(bytes) THEN bytes[d + 1] = At(r + 1, 1) ELSE r = Len(length)
    <3>. HIDE DEF r
    <3>. QED
      BY <2>2, NextRecord
  <2>7. r \in Nat /\ d \in 0 .. Len(bytes)
    BY <2>2, <2>4
  <2>8. Boundary(d)'
    <3>1. Len(length') = Len(length) /\ bytes' = bytes /\ r + 1 - 1 = r
      BY <2>1, <2>7
    <3>. HIDE DEF r
    <3>2. CASE d < Len(bytes)
      BY <2>5, <2>6, <2>7, <3>1, <3>2 DEF Boundary, At
    <3>3. CASE ~ (d < Len(bytes))
      <4>1. Start' + Len(loaded') - 1 = r
        BY <2>5
      <4>2. Len(length') = Start' + Len(loaded') - 1 /\ ~ (d < Len(bytes'))
        BY <2>6, <3>1, <3>3, <4>1
      <4>3. d \in 0 .. Len(bytes')
        BY <2>7, <3>1
      <4>. QED
        BY <4>2, <4>3 DEF Boundary
    <3>. QED
      BY <3>2, <3>3
  <2>. QED
    BY <2>0, <2>1, <2>3, <2>8 DEF Boundary
<1>7. CASE CutIncomplete
  <2>. SUFFICES ASSUME ~slipped' PROVE Partial'
    BY <1>7 DEF ReadInv, CutIncomplete
  <2>1. /\ ~slipped /\ pc = "cut" /\ LengthThere /\ left' = 0 /\ buf' = Compacted
        /\ room' = IF kind = "file" THEN Capacity - Len(buf') ELSE room
        /\ UNCHANGED <<kind, length, bytes, off, loaded, first, torn>>
    BY <1>7 DEF CutIncomplete, BehindKept
  <2>2. Window' /\ Boundary(off - Len(buf))' /\ Len(buf') = Remaining
    BY <2>1, Kept
  <2>. DEFINE c == off - Len(buf) + pos
              r == Start + Len(loaded)
  <2>3. /\ c \in Nat /\ Boundary(c) /\ Remaining \in Nat /\ c + Remaining = off
        /\ off <= Len(bytes) /\ \A i \in 1 .. Remaining : buf[pos + i] = bytes[c + i]
    BY <2>1, Cutting
  <2>4. ASSUME r \notin torn PROVE Len(buf') < Size(r)
    <3>1. SizeRead = {length[r]} /\ length[r] \in Nat
      <4>. HIDE DEF r
      <4>1. r = Start + Len(loaded)
        BY DEF r
      <4>. QED
        BY <2>1, <2>4, <4>1, Intact
    <3>2. Remaining - 4 < length[r]
      BY <1>7, <3>1 DEF CutIncomplete
    <3>. QED
      BY <2>2, <2>3, <3>1, <3>2 DEF Size
  <2>5. kind' = "file" => Len(buf') + room' = Capacity
    BY <2>1, <2>2, <2>3, FramingAssumption
  <2>6. (Start + Len(loaded))' = r /\ torn' = torn /\ Size(r)' = Size(r)
    BY <2>1 DEF Start, Size
  <2>. QED
    BY <2>1, <2>2, <2>4, <2>5, <2>6 DEF Partial, Size
<1>8. CASE CutEnd
  <2>. SUFFICES ASSUME ~slipped' PROVE Partial' \/ ReadOver'
    BY <1>8 DEF ReadInv, CutEnd
  <2>1. /\ ~slipped /\ pc = "cut" /\ ~LengthThere /\ buf' = LeftOver
        /\ room' = IF kind = "file" THEN Remaining ELSE room
        /\ left' = IF kind = "file" THEN Remaining ELSE 0
        /\ aligned' = (aligned \/ (kind = "file" /\ Rest > 0 /\ Remaining = 0))
        /\ UNCHANGED <<kind, length, bytes, off, loaded, first, torn>>
    BY <1>8 DEF CutEnd
  <2>. DEFINE c == off - Len(buf) + pos
              r == Start + Len(loaded)
  <2>2. /\ c \in Nat /\ Boundary(c) /\ Remaining \in Nat /\ c + Remaining = off
        /\ off <= Len(bytes) /\ Remaining <= 4
    <3>1. c \in Nat /\ Boundary(c) /\ Remaining \in Nat /\ c + Remaining = off /\ off <= Len(bytes)
      BY <2>1, Cutting
    <3>. QED
      BY <2>1, <3>1 DEF LengthThere
  <2>3. CASE kind = "socket"
    <3>1. buf' = Compacted /\ left' = 0 /\ kind' # "file"
      BY <2>1, <2>3 DEF LeftOver
    <3>2. /\ Window' /\ Boundary(off - Len(buf))' /\ Len(buf') = Remaining
          /\ buf' # <<>> => Size(r) \in Nat /\ Size(r) > 4
      BY <2>1, <3>1, Kept
    <3>3. buf' # <<>> => Len(buf') < Size(r)
      BY <2>2, <3>2
    <3>4. (Start + Len(loaded))' = r /\ Size(r)' = Size(r)
      BY <2>1 DEF Start, Size
    <3>. QED
      BY <3>1, <3>2, <3>3, <3>4 DEF Partial, Size
  <2>4. CASE kind = "file"
    <3>1. kind' = "file" /\ room' = Remaining /\ left' = Remaining
      BY <2>1, <2>4
    <3>2. off' - left' = c
      <4>. HIDE DEF c
      <4>. QED
        BY <1>0, <2>1, <2>2, <3>1
    <3>3. Boundary(off - left)'
      BY <2>1, <2>2, <3>2 DEF Boundary, Start, At
    <3>4. ASSUME left' = 0, ~aligned' PROVE Len(loaded') >= first' - 1
      <4>1. ~ (Rest > 0) /\ Remaining = 0
        BY <2>1, <2>4, <3>1, <3>4
      <4>2. c = Len(bytes)
        BY <1>0, <2>2, <4>1 DEF Rest
      <4>3. Len(length) = 1 + Len(loaded) - 1
        BY <2>2, <2>4, <4>2 DEF Boundary, Start
      <4>4. Len(loaded) \in Nat /\ first \in 1 .. Len(length) + 1
        BY DEF TypeOK
      <4>5. Len(loaded) >= first - 1
        BY <1>0, <4>3, <4>4
      <4>. QED
        BY <2>1, <4>5
    <3>. QED
      BY <3>1, <3>3, <3>4 DEF ReadOver
  <2>. QED
    BY <1>0, <2>3, <2>4
<1>9. CASE UNCHANGED vars
  BY <1>9 DEF vars, ReadInv, Partial, ReadOver, Window, Boundary, Start, Size, At
<1>. QED
  BY <1>1, <1>2, <1>3, <1>4, <1>5, <1>6, <1>7, <1>8, <1>9 DEF Next, Read

--------------------------------------------------------------------------------
\* Records are handed on in their order, and a torn one never is: its last byte is missing.
LEMMA OrderNext ==
    TypeOK /\ WireInv /\ ReadInv /\ OrderInv /\ [Next]_vars => OrderInv'
<1>. SUFFICES ASSUME TypeOK, WireInv, ReadInv, OrderInv, [Next]_vars PROVE OrderInv'
  OBVIOUS
<1>0. /\ loaded \in Seq(Records) /\ Len(loaded) \in Nat /\ Start \in Nat /\ first \in Nat
      /\ DOMAIN loaded = 1 .. Len(loaded) /\ torn \subseteq 1 .. Len(length) /\ Len(length) \in Nat
  BY LenProperties DEF TypeOK, Start, Records
<1>1. CASE UNCHANGED <<kind, first, loaded, torn>> /\ (slipped => slipped')
  BY <1>1 DEF OrderInv, Start
<1>2. CASE (\E n \in Lengths : Write(n)) \/ ReadNothing \/ CutGarbage
           \/ CutIncomplete \/ CutEnd \/ UNCHANGED vars
  BY <1>1, <1>2 DEF Write, ReadNothing, CutGarbage, CutIncomplete, CutEnd, vars
<1>5. CASE Arrive \/ ReadFile
  <2>1. PICK n : Take(n)
    BY <1>5 DEF Arrive, ReadFile
  <2>2. UNCHANGED <<kind, first, loaded, torn>> /\ slipped' = (slipped \/ left > 0)
    BY <2>1 DEF Take
  <2>. QED
    BY <1>1, <2>2
<1>3. CASE Restart \/ Reconnect
  <2>1. loaded' = <<>> /\ DOMAIN loaded' = {} /\ Len(loaded') = 0
    BY <1>3 DEF Restart, Reconnect
  <2>2. \A t \in torn' : t >= Start'
    <3>1. CASE Restart
      <4>1. PICK cut \in Cuts : torn' = IF cut = 0 THEN torn ELSE torn \cup {Len(length)}
        BY <3>1 DEF Restart
      <4>2. first \in 1 .. Len(length) + 1
        BY DEF TypeOK
      <4>3. cut # 0 => Len(length) >= 1
        BY <1>0, <4>1, <4>2 DEF Cuts
      <4>4. \A t \in torn' : t \in torn \/ (t = Len(length) /\ Len(length) >= 1)
        BY <4>1, <4>3
      <4>5. \A t \in torn' : t >= 1
        <5>1. \A t \in torn : t >= 1
          BY <1>0
        <5>. QED
          BY <4>4, <5>1
      <4>. QED
        BY <3>1, <4>5 DEF Restart, Start
    <3>2. CASE Reconnect
      BY <3>2 DEF Reconnect, WireInv, TornOld
    <3>. QED
      BY <1>3, <3>1, <3>2
  <2>3. Start' \in Nat /\ \A t \in torn' : t >= Start' + Len(loaded')
    <3>1. PICK s : s = Start'
      OBVIOUS
    <3>2. s \in Nat
      BY <1>0, <1>3, <3>1 DEF Start, Restart, Reconnect
    <3>3. s + 0 = s
      BY <3>2
    <3>. QED
      BY <2>1, <2>2, <3>1, <3>2, <3>3
  <2>. QED
    BY <2>1, <2>3 DEF OrderInv
<1>4. CASE CutRecord
  <2>. SUFFICES ASSUME ~slipped' PROVE OrderInv'
    BY DEF OrderInv
  <2>1. ~slipped /\ UNCHANGED <<kind, first, torn>> /\ Start' = Start
    BY <1>4 DEF CutRecord, Start
  <2>. DEFINE r == Start + Len(loaded)
  <2>0. PICK d : d = off - Len(buf) + pos'
    OBVIOUS
  <2>2. /\ loaded' = Append(loaded, r) /\ r \in Records /\ Size(r) \in Nat
        /\ d \in 1 .. Len(bytes) /\ bytes[d] = At(r, Size(r))
    BY <1>4, <2>0, <2>1, Handed
  <2>3. r \notin torn
    <3>1. d \in DOMAIN bytes /\ bytes[d].rec = r /\ bytes[d].place = Size(r)
      BY <2>2, LenProperties DEF TypeOK, At
    <3>2. r \in torn => Size(r) < Size(r)
      BY <3>1 DEF WireInv, Places
    <3>. QED
      BY <2>2, <3>2
  <2>4. /\ DOMAIN loaded' = 1 .. Len(loaded) + 1 /\ Len(loaded') = Len(loaded) + 1
        /\ \A i \in 1 .. Len(loaded) : loaded'[i] = loaded[i]
        /\ loaded'[Len(loaded) + 1] = r
    <3>. HIDE DEF r
    <3>. QED
      BY <1>0, <2>2, AppendProperties, LenProperties
  <2>5. \A i \in DOMAIN loaded' : loaded'[i] = Start + i - 1
    <3>1. \A i \in 1 .. Len(loaded) : loaded[i] = Start + i - 1
      BY <1>0, <2>1 DEF OrderInv
    <3>2. \A i \in DOMAIN loaded' : i \in 1 .. Len(loaded) \/ i = Len(loaded) + 1
      BY <1>0, <2>4
    <3>3. r = Start + (Len(loaded) + 1) - 1
      BY <1>0
    <3>. QED
      BY <2>4, <3>1, <3>2, <3>3
  <2>6. \A t \in torn : t >= Start + (Len(loaded) + 1)
    <3>1. \A t \in torn : t \in Nat /\ t >= Start + Len(loaded) /\ t # Start + Len(loaded)
      BY <1>0, <2>1, <2>3 DEF OrderInv
    <3>. QED
      BY <1>0, <3>1
  <2>. QED
    BY <2>1, <2>4, <2>5, <2>6 DEF OrderInv
<1>. QED
  BY <1>2, <1>3, <1>4, <1>5 DEF Next, Read

\* A reader that ends has been stopped by the end of the file, or by a full buffer, at a
\* place where no record is left that it could have cut.
LEMMA DoneNext ==
    TypeOK /\ WireInv /\ BufInv /\ ReadInv /\ DoneInv /\ [Next]_vars => DoneInv'
<1>. SUFFICES ASSUME TypeOK, WireInv, BufInv, ReadInv, DoneInv, [Next]_vars PROVE DoneInv'
  OBVIOUS
<1>0. /\ Len(loaded) \in Nat /\ Len(length) \in Nat /\ Len(bytes) \in Nat /\ Len(buf) \in Nat
      /\ off \in 0 .. Len(bytes) /\ first \in 1 .. Len(length) + 1 /\ room \in Nat
      /\ left \in 0 .. 4
  BY DEF TypeOK
<1>1. ASSUME NEW n \in Lengths, Write(n) PROVE DoneInv'
  <2>1. /\ UNCHANGED <<kind, pc, loaded, first, torn, slipped, aligned>>
        /\ Records \subseteq Records' /\ \A r \in Records : length'[r] = length[r]
    BY <1>0, <1>1, WriteBytes DEF Write, Records
  <2>2. (\A r \in Records' : 4 + length'[r] <= Capacity)
        => \A r \in Records : 4 + length[r] <= Capacity
    BY <2>1
  <2>. QED
    BY <2>1, <2>2 DEF DoneInv
<1>2. CASE Restart \/ Reconnect \/ Arrive \/ ReadFile \/ CutRecord \/ CutGarbage
           \/ CutIncomplete \/ CutEnd
  <2>1. pc' # "done"
    BY <1>2 DEF Restart, Reconnect, Arrive, ReadFile, Take, CutRecord, CutGarbage,
       CutIncomplete, CutEnd
  <2>. QED
    BY <2>1 DEF DoneInv
<1>3. CASE ReadNothing
  <2>1. /\ kind = "file" /\ pc = "fill" /\ NothingRead
        /\ UNCHANGED <<kind, length, loaded, first, torn, slipped, aligned>>
    BY <1>3 DEF ReadNothing
  <2>. SUFFICES ASSUME ~slipped, ~aligned, \A r \in Records : 4 + length[r] <= Capacity,
                       torn \subseteq {first - 1},
                       NEW r \in (1 .. first - 1) \ torn
                PROVE  r <= Len(loaded)
    BY <2>1 DEF DoneInv, Records
  <2>. SUFFICES ASSUME r > Len(loaded) PROVE FALSE
    BY <1>0
  <2>. DEFINE s == Len(loaded) + 1
  <2>2. s <= r /\ s <= Len(length) /\ s \in 1 .. Len(length) /\ s \notin torn /\ s <= first - 1
    <3>1. s <= r /\ r <= first - 1 /\ r \notin torn /\ s \in Nat
      BY <1>0
    <3>2. s # first - 1 \/ s = r
      BY <1>0, <3>1
    <3>3. s \notin torn
      BY <3>1, <3>2
    <3>. QED
      BY <1>0, <3>1, <3>3
  <2>3. s = Start + Len(loaded) /\ Start = 1
    BY <1>0, <2>1 DEF Start
  <2>4. 4 + length[s] <= Capacity /\ Size(s) <= Capacity
    BY <2>2 DEF Records, Size
\* The record that begins at c is all there.
  <2>5. ASSUME NEW c \in Nat, Boundary(c)
        PROVE  c + Size(s) <= Len(bytes) /\ Size(s) \in Nat /\ Size(s) > 4
    <3>1. c < Len(bytes)
      BY <1>0, <2>2, <2>3, <2>5 DEF Boundary
    <3>2. bytes[c + 1] = At(s, 1) /\ Size(s) \in Nat /\ Size(s) > 4
      BY <2>3, <2>5, <3>1, Front
    <3>. HIDE DEF s
    <3>. QED
      BY <2>2, <3>1, <3>2, FrameThere
  <2>6. CASE Partial
    <3>. DEFINE c == off - Len(buf)
    <3>1. c \in Nat /\ Boundary(c) /\ Len(buf) + room = Capacity
      BY <1>0, <2>1, <2>6 DEF Partial, Window
    <3>2. c + Size(s) <= Len(bytes) /\ Size(s) \in Nat /\ Size(s) > 4
      <4>. HIDE DEF c, s
      <4>. QED
        BY <2>5, <3>1
    <3>3. Len(buf) >= Size(s)
      <4>1. CASE Rest = 0
        BY <1>0, <3>2, <4>1 DEF Rest
      <4>2. CASE room = 0
        BY <1>0, <2>4, <3>1, <4>2, FramingAssumption
      <4>. QED
        BY <2>1, <4>1, <4>2 DEF NothingRead
    <3>4. buf # <<>>
      <4>1. Len(buf) > 0
        BY <1>0, <3>2, <3>3
      <4>. QED
        BY <4>1, EmptySeq
    <3>5. Len(buf) < Size(s)
      BY <2>2, <2>3, <2>6, <3>4 DEF Partial
    <3>. QED
      BY <1>0, <3>2, <3>3, <3>5
  <2>7. CASE ReadOver
    <3>1. left # 0
      BY <1>0, <2>2, <2>7 DEF ReadOver
    <3>2. Rest = 0 /\ off = Len(bytes)
      BY <1>0, <2>1, <2>7, <3>1 DEF ReadOver, NothingRead, Rest
    <3>. DEFINE c == off - left
    <3>3. c \in Nat /\ Boundary(c)
      BY <1>0, <2>7 DEF ReadOver, Boundary
    <3>4. c + Size(s) <= Len(bytes) /\ Size(s) \in Nat /\ Size(s) > 4
      <4>. HIDE DEF c, s
      <4>. QED
        BY <2>5, <3>3
    <3>. QED
      BY <1>0, <3>2, <3>4
  <2>. QED
    BY <2>1, <2>6, <2>7 DEF ReadInv
<1>4. CASE UNCHANGED vars
  BY <1>4 DEF vars, DoneInv, Records
<1>. QED
  BY <1>1, <1>2, <1>3, <1>4 DEF Next, Read

\* Bytes that are no record are put together only from a torn one.
LEMMA FailNext ==
    TypeOK /\ WireInv /\ ReadInv /\ FailInv /\ [Next]_vars => FailInv'
<1>. SUFFICES ASSUME TypeOK, WireInv, ReadInv, FailInv, [Next]_vars PROVE FailInv'
  OBVIOUS
<1>1. CASE (\E n \in Lengths : Write(n)) \/ UNCHANGED vars
  BY <1>1 DEF FailInv, Write, vars, Start
<1>2. CASE Restart \/ Reconnect \/ Arrive \/ ReadFile \/ ReadNothing \/ CutRecord
           \/ CutIncomplete \/ CutEnd
  <2>1. pc' # "failed"
    BY <1>2 DEF Restart, Reconnect, Arrive, ReadFile, Take, ReadNothing, CutRecord,
       CutIncomplete, CutEnd
  <2>. QED
    BY <2>1 DEF FailInv
<1>3. CASE CutGarbage
  <2>1. pc = "cut" /\ LengthThere /\ UNCHANGED <<kind, first, loaded, torn, slipped>>
    BY <1>3 DEF CutGarbage
  <2>. SUFFICES ASSUME ~slipped, NEW r, r = Start + Len(loaded), r \notin torn PROVE FALSE
    BY <2>1 DEF FailInv, Start
  <2>2. /\ SizeRead = {length[r]} /\ length[r] \in Nat /\ buf[pos + 1].rec = r
        /\ \A i \in 1 .. Remaining : i <= Size(r) => buf[pos + i] = At(r, i)
    BY <2>1, Intact
  <2>3. Remaining - 4 >= length[r] /\ ~IsBody(length[r]) /\ Remaining \in Int
    BY <1>3, <2>2 DEF CutGarbage, Remaining, TypeOK
  <2>4. \A i \in 1 .. 4 + length[r] : i \in 1 .. Remaining /\ i <= Size(r)
    BY <2>2, <2>3 DEF Size
  <2>5. \A i \in 1 .. 4 + length[r] : buf[pos + i] = At(r, i)
    BY <2>2, <2>4
  <2>. QED
    BY <2>2, <2>3, <2>5 DEF IsBody, At
<1>. QED
  BY <1>1, <1>2, <1>3 DEF Next, Read

\* What a decoder leaves is kept in front of what comes next.
LEMMA SocketNext == BufInv /\ SocketInv /\ [Next]_vars => SocketInv'
<1>. SUFFICES ASSUME BufInv, SocketInv, [Next]_vars PROVE SocketInv'
  OBVIOUS
<1>1. CASE Arrive \/ ReadFile
  <2>1. PICK n : Take(n)
    BY <1>1 DEF Arrive, ReadFile
  <2>2. kind' = kind /\ slipped' = (slipped \/ left > 0)
    BY <2>1 DEF Take
  <2>3. kind = "socket" => ~ (left > 0)
    BY DEF BufInv
  <2>. QED
    BY <2>2, <2>3 DEF SocketInv
<1>2. CASE Restart
  BY <1>2 DEF Restart, SocketInv
<1>3. CASE (\E n \in Lengths : Write(n)) \/ Reconnect \/ ReadNothing \/ CutRecord \/ CutGarbage
           \/ CutIncomplete \/ CutEnd \/ UNCHANGED vars
  BY <1>3 DEF SocketInv, Write, Reconnect, ReadNothing, CutRecord, CutGarbage, CutIncomplete,
     CutEnd, vars
<1>. QED
  BY <1>1, <1>2, <1>3 DEF Next, Read

\* The bytes of a whole log end with a record.
LEMMA WholeEnd ==
    ASSUME TypeOK, WireInv, torn = {}, Len(bytes) > 0, NEW L, L = Len(bytes)
    PROVE  bytes[L].place = Size(bytes[L].rec) /\ bytes[L].rec = Len(length)
<1>. DEFINE z == Size(bytes[L].rec)
            p == bytes[L].place
<1>1. L \in Nat /\ L \in 1 .. Len(bytes) /\ bytes # <<>>
  BY EmptySeq DEF TypeOK
<1>2. z \in Nat /\ z > 4 /\ p \in 1 .. z
  BY <1>1, ByteAt
<1>3. L - p + z \in 1 .. L
  <2>1. z \in 1 .. Size(bytes[L].rec) /\ bytes[L].rec \notin torn
    BY <1>2
  <2>. QED
    BY <1>1, <2>1, Around
<1>4. p = z
  BY <1>1, <1>2, <1>3
<1>5. bytes[L].rec = Len(length)
  BY <1>1 DEF WireInv, Ends
<1>. QED
  BY <1>4, <1>5

\* The first reading takes all there is, and then the records are cut without a rest.
LEMMA SmallNext ==
    TypeOK /\ TypeOK' /\ WireInv /\ ReadInv /\ FailInv' /\ SmallInv /\ [Next]_vars => SmallInv'
<1>. SUFFICES ASSUME TypeOK, TypeOK', WireInv, ReadInv, FailInv', SmallInv, [Next]_vars,
                     kind' = "file", torn' = {}, Len(bytes') <= Capacity
              PROVE  /\ ~slipped' /\ pc' # "failed"
                     /\ pc' = "fill" => \/ off' = 0 /\ room' = Capacity /\ left' = 0
                                        \/ room' = 0 /\ left' = 0 /\ Len(loaded') >= first' - 1
                     /\ pc' = "cut" => /\ off' > 0
                                       /\ bytes'[off'].place = 4 + length'[bytes'[off'].rec]
                                       /\ bytes'[off'].rec >= first' - 1
                     /\ pc' = "done" => Len(loaded') >= first' - 1
  BY DEF SmallInv, Size
<1>0. /\ Len(loaded) \in Nat /\ Len(length) \in Nat /\ Len(bytes) \in Nat /\ Len(buf) \in Nat
      /\ off \in 0 .. Len(bytes) /\ first \in 1 .. Len(length) + 1 /\ room \in Nat
      /\ left \in 0 .. 4 /\ Capacity \in Nat /\ Capacity > 4
  <2>1. Capacity \in Nat /\ Capacity > 4
    BY FramingAssumption
  <2>2. length \in Seq(Lengths) /\ bytes \in Seq(Byte) /\ buf \in Seq(Byte) /\ loaded \in Seq(Records)
    BY DEF TypeOK
  <2>3. /\ Len(loaded) \in Nat /\ Len(length) \in Nat
        /\ Len(bytes) \in Nat /\ Len(buf) \in Nat
    BY <2>2
  <2>4. /\ off \in 0 .. Len(bytes) /\ first \in 1 .. Len(length) + 1 /\ room \in Nat
        /\ left \in 0 .. 4
    BY DEF TypeOK
  <2>. QED
    BY <2>1, <2>3, <2>4
<1>1. ASSUME NEW n \in Lengths, Write(n)
      PROVE  /\ ~slipped' /\ pc' # "failed"
             /\ pc' = "fill" => \/ off' = 0 /\ room' = Capacity /\ left' = 0
                                \/ room' = 0 /\ left' = 0 /\ Len(loaded') >= first' - 1
             /\ pc' = "cut" => /\ off' > 0
                               /\ bytes'[off'].place = 4 + length'[bytes'[off'].rec]
                               /\ bytes'[off'].rec >= first' - 1
             /\ pc' = "done" => Len(loaded') >= first' - 1
  <2>1. /\ UNCHANGED <<kind, pc, off, room, left, loaded, first, torn, slipped>>
        /\ kind = "file" /\ torn = {}
    BY <1>1 DEF Write
  <2>2. Len(bytes) <= Capacity
    <3>1. Len(bytes') = Len(bytes) + 4 + n /\ n \in Nat
      BY <1>1, WriteBytes
    <3>. QED
      BY <1>0, <3>1
  <2>3. ASSUME pc = "cut"
        PROVE  bytes'[off] = bytes[off] /\ length'[bytes[off].rec] = length[bytes[off].rec]
    <3>1. off \in 1 .. Len(bytes)
      BY <1>0, <2>1, <2>2, <2>3 DEF SmallInv
    <3>2. bytes[off].rec \in Records
      BY <3>1, ByteAt
    <3>. QED
      BY <1>1, <3>1, <3>2, WriteBytes
  <2>4. pc = "cut" => /\ off > 0 /\ bytes[off].place = 4 + length[bytes[off].rec]
                      /\ bytes[off].rec >= first - 1
    BY <2>1, <2>2 DEF SmallInv, Size
  <2>. QED
    BY <2>1, <2>2, <2>3, <2>4 DEF SmallInv
<1>2. CASE Restart
  BY <1>2 DEF Restart
<1>3. CASE Reconnect \/ Arrive
  BY <1>3 DEF Reconnect, Arrive, Take
\* A reader's step: what it leaves alone.
<1>4. ASSUME Read
      PROVE  kind = "file" /\ torn = {} /\ bytes' = bytes /\ length' = length /\ first' = first
             /\ Len(bytes) <= Capacity /\ ~slipped
  <2>1. UNCHANGED <<kind, length, bytes, first, torn>>
    BY <1>4, ReadQuiet
  <2>. QED
    BY <2>1 DEF SmallInv
<1>5. CASE ReadFile
  <2>1. /\ pc = "fill" /\ room > 0 /\ Rest > 0 /\ Take(IF room < Rest THEN room ELSE Rest)
    BY <1>5 DEF ReadFile
  <2>2. kind = "file" /\ torn = {} /\ bytes' = bytes /\ length' = length /\ first' = first
        /\ Len(bytes) <= Capacity /\ ~slipped
    BY <1>4, <1>5 DEF Read
  <2>3. off = 0 /\ room = Capacity /\ left = 0
    BY <1>0, <2>1, <2>2 DEF SmallInv
  <2>4. (IF room < Rest THEN room ELSE Rest) = Len(bytes) /\ Len(bytes) > 0
    BY <1>0, <2>1, <2>2, <2>3 DEF Rest
  <2>5. off' = Len(bytes) /\ pc' = "cut" /\ slipped' = (slipped \/ left > 0)
    <3>1. Take(Len(bytes))
      BY <2>1, <2>4
    <3>2. off' = off + Len(bytes) /\ pc' = "cut" /\ slipped' = (slipped \/ left > 0)
      BY <3>1 DEF Take
    <3>. QED
      BY <1>0, <2>3, <3>2
  <2>6. /\ bytes[Len(bytes)].place = Size(bytes[Len(bytes)].rec)
        /\ bytes[Len(bytes)].rec = Len(length)
    BY <2>2, <2>4, WholeEnd
  <2>7. ~ (left > 0) /\ Len(length) >= first - 1
    BY <1>0, <2>3
  <2>. QED
    BY <2>2, <2>4, <2>5, <2>6, <2>7 DEF Size
<1>6. CASE ReadNothing
  <2>1. /\ pc = "fill" /\ NothingRead /\ pc' = "done"
        /\ UNCHANGED <<slipped, loaded, first>>
    BY <1>6 DEF ReadNothing
  <2>2. kind = "file" /\ torn = {} /\ Len(bytes) <= Capacity /\ ~slipped
    BY <1>4, <1>6 DEF Read
  <2>3. Len(loaded) >= first - 1
    <3>1. CASE off = 0 /\ room = Capacity /\ left = 0
      <4>1. Len(bytes) = 0
        BY <1>0, <2>1, <3>1 DEF NothingRead, Rest
      <4>2. bytes = <<>>
        BY <4>1, EmptySeq DEF TypeOK
      <4>3. Len(length) = 1 - 1
        BY <2>2, <4>2 DEF WireInv, Ends, Start
      <4>. QED
        BY <1>0, <4>3
    <3>2. CASE Len(loaded) >= first - 1
      BY <3>2
    <3>. QED
      BY <2>1, <2>2, <3>1, <3>2 DEF SmallInv
  <2>. QED
    BY <2>1, <2>2, <2>3
<1>7. CASE CutRecord
  <2>1. pc = "cut" /\ UNCHANGED <<pc, off, slipped>>
    BY <1>7 DEF CutRecord
  <2>2. kind = "file" /\ torn = {} /\ bytes' = bytes /\ length' = length /\ first' = first
        /\ Len(bytes) <= Capacity /\ ~slipped
    BY <1>4, <1>7 DEF Read
  <2>3. off > 0 /\ bytes[off].place = 4 + length[bytes[off].rec] /\ bytes[off].rec >= first - 1
    BY <2>1, <2>2 DEF SmallInv, Size
  <2>. QED
    BY <2>1, <2>2, <2>3
<1>8. CASE CutGarbage
  <2>1. pc' = "failed" /\ UNCHANGED slipped
    BY <1>8 DEF CutGarbage
  <2>2. ~slipped
    BY <1>4, <1>8 DEF Read
  <2>. QED
    BY <2>1, <2>2 DEF FailInv
\* What is left when cutting ends is less than a record, so it is nothing.
<1>9. CASE CutIncomplete \/ CutEnd
  <2>. DEFINE c == off - Len(buf) + pos
              r == Start + Len(loaded)
  <2>1. pc = "cut" /\ UNCHANGED slipped
    BY <1>9 DEF CutIncomplete, CutEnd
  <2>2. kind = "file" /\ torn = {} /\ bytes' = bytes /\ length' = length /\ first' = first
        /\ Len(bytes) <= Capacity /\ ~slipped
    BY <1>4, <1>9 DEF Read
  <2>3. /\ off > 0 /\ bytes[off].place = Size(bytes[off].rec) /\ bytes[off].rec >= first - 1
        /\ off \in 1 .. Len(bytes)
    BY <1>0, <2>1, <2>2 DEF SmallInv
  <2>4. /\ c \in Nat /\ Boundary(c) /\ Remaining \in Nat /\ c + Remaining = off
        /\ off <= Len(bytes)
    BY <2>1, <2>2, Cutting
  <2>5. ASSUME Remaining > 0 PROVE Size(r) \in Nat /\ Size(r) > 4 /\ Remaining >= Size(r)
    <3>1. c < Len(bytes)
      BY <1>0, <2>4, <2>5
    <3>2. bytes[c + 1] = At(r, 1) /\ Size(r) \in Nat /\ Size(r) > 4
      BY <2>4, <3>1, Front
    <3>3. \A q \in 1 .. Size(r) : bytes[c + q] = At(r, q)
      <4>1. r \notin torn
        BY <2>2
      <4>. HIDE DEF c, r
      <4>. QED
        BY <2>4, <3>1, <3>2, <4>1, FrameThere
    <3>4. SUFFICES ASSUME Remaining < Size(r) PROVE FALSE
      BY <2>4, <3>2
    <3>5. Remaining \in 1 .. Size(r)
      BY <2>4, <2>5, <3>2, <3>4
    <3>6. bytes[off] = At(r, Remaining)
      <4>. HIDE DEF c, r
      <4>1. bytes[c + Remaining] = At(r, Remaining)
        BY <3>3, <3>5
      <4>. QED
        BY <2>4, <4>1
    <3>7. bytes[off].rec = r /\ bytes[off].place = Remaining
      BY <3>6 DEF At
    <3>8. Remaining = Size(r)
      BY <2>3, <3>7
    <3>. QED
      BY <2>4, <3>2, <3>4, <3>8
  <2>6. CASE CutIncomplete
    <3>1. LengthThere /\ \E size \in SizeRead : Remaining - 4 < size
      BY <2>6 DEF CutIncomplete
    <3>2. SizeRead = {length[r]} /\ length[r] \in Nat
      <4>1. PICK x : x = r
        OBVIOUS
      <4>2. SizeRead = {length[x]} /\ length[x] \in Nat
        BY <2>1, <2>2, <3>1, <4>1, Intact
      <4>. QED
        BY <4>1, <4>2
    <3>3. Remaining > 0 /\ Remaining < Size(r)
      BY <2>4, <3>1, <3>2 DEF LengthThere, Size
    <3>. QED
      BY <2>4, <2>5, <3>3
  <2>7. CASE CutEnd
    <3>1. /\ ~LengthThere /\ pc' = "fill" /\ loaded' = loaded
          /\ room' = Remaining /\ left' = Remaining
      BY <2>2, <2>7 DEF CutEnd
    <3>2. Remaining = 0 /\ c = off
      <4>1. ~ (Remaining > 4)
        BY <3>1 DEF LengthThere
      <4>2. ~ (Remaining > 0)
        BY <2>4, <2>5, <4>1
      <4>. QED
        BY <1>0, <2>4, <4>2
    <3>3. Len(loaded) >= first - 1
      <4>. DEFINE x == bytes[off].rec
      <4>1. bytes[off] = At(x, Size(x)) /\ x \in Nat
        BY <2>3, ByteAt DEF Records
      <4>2. IF off < Len(bytes) THEN bytes[off + 1] = At(x + 1, 1) ELSE x = Len(length)
        <5>. HIDE DEF x
        <5>. QED
          BY <2>3, <4>1, NextRecord
      <4>3. /\ off < Len(bytes) => bytes[off + 1] = At(1 + Len(loaded), 1)
            /\ ~ (off < Len(bytes)) => Len(length) = 1 + Len(loaded) - 1
        BY <2>2, <2>4, <3>2 DEF Boundary, Start
      <4>4. Len(loaded) = x
        <5>. HIDE DEF x
        <5>1. CASE off < Len(bytes)
          <6>1. x + 1 = 1 + Len(loaded)
            BY <4>2, <4>3, <5>1 DEF At
          <6>. QED
            BY <1>0, <4>1, <6>1
        <5>2. CASE ~ (off < Len(bytes))
          BY <1>0, <4>1, <4>2, <4>3, <5>2
        <5>. QED
          BY <5>1, <5>2
      <4>. QED
        BY <2>3, <4>4
    <3>. QED
      BY <2>1, <2>2, <3>1, <3>2, <3>3
  <2>. QED
    BY <1>9, <2>6, <2>7
<1>10. CASE UNCHANGED vars
  BY <1>10 DEF vars, SmallInv, Size
<1>. QED
  BY <1>1, <1>2, <1>3, <1>5, <1>6, <1>7, <1>8, <1>9, <1>10 DEF Next, Read

--------------------------------------------------------------------------------
\* The inductive invariant.
FramingInv ==
    /\ TypeOK /\ WireInv /\ BufInv /\ ReadInv
    /\ OrderInv /\ DoneInv /\ FailInv /\ SocketInv /\ SmallInv

\* The inductive invariant holds at first.
LEMMA FramingInit == Init => FramingInv
<1>. SUFFICES ASSUME Init PROVE FramingInv
  OBVIOUS
<1>1. /\ length = <<>> /\ bytes = <<>> /\ off = 0 /\ buf = <<>> /\ pos = 0 /\ room = Capacity
      /\ loaded = <<>> /\ first = 1 /\ torn = {} /\ left = 0
      /\ pc = IF kind = "file" THEN "done" ELSE "fill"
  BY DEF Init
<1>2. /\ Len(length) = 0 /\ Len(bytes) = 0 /\ Len(buf) = 0 /\ Len(loaded) = 0 /\ Start = 1
      /\ DOMAIN bytes = {} /\ DOMAIN buf = {} /\ DOMAIN loaded = {} /\ Capacity \in Nat
  BY <1>1, FramingAssumption DEF Start
<1>3. TypeOK
  BY TypeInit
<1>4. WireInv
  BY <1>1, <1>2 DEF WireInv, Places, Together, Follows, Ends, TornOld
<1>5. BufInv
  BY <1>1, <1>2 DEF BufInv
<1>6. ReadInv
  <2>1. Window /\ off - Len(buf) = 0
    <3>1. off = 0 /\ Len(buf) = 0 /\ DOMAIN buf = {}
      BY <1>1, <1>2
    <3>2. off - Len(buf) = 0 /\ Len(buf) <= off
      BY <3>1
    <3>. QED
      BY <3>1, <3>2 DEF Window
  <2>3. Boundary(0)
    <3>1. Len(length) = Start + Len(loaded) - 1 /\ 0 \in 0 .. Len(bytes) /\ ~ (0 < Len(bytes))
      BY <1>2
    <3>. QED
      BY <3>1 DEF Boundary
  <2>2. kind # "file" => Partial
    BY <1>1, <1>2, <2>1, <2>3 DEF Partial
  <2>. QED
    BY <1>1, <2>2 DEF ReadInv
<1>7. OrderInv
  BY <1>1, <1>2 DEF OrderInv
<1>8. DoneInv
  BY <1>1, <1>2 DEF DoneInv
<1>9. FailInv /\ SocketInv
  BY DEF Init, FailInv, SocketInv
<1>10. SmallInv
  <2>1. ~slipped /\ pc \in {"fill", "done"} /\ (kind = "file" => pc = "done")
    BY DEF Init
  <2>2. Len(loaded) >= first - 1
    BY <1>1, <1>2
  <2>. QED
    BY <2>1, <2>2 DEF SmallInv
<1>. QED
  BY <1>3, <1>4, <1>5, <1>6, <1>7, <1>8, <1>9, <1>10 DEF FramingInv

\* Every step keeps it.
LEMMA FramingNext == FramingInv /\ [Next]_vars => FramingInv'
BY TypeNext, WireNext, BufNext, ReadNext, OrderNext, DoneNext, FailNext, SocketNext,
   SmallNext DEF FramingInv

\* The inductive invariant holds in every state.
THEOREM FramingInvCorrect == Spec => []FramingInv
BY FramingInit, FramingNext, PTL DEF Spec

\* Every state has the types: among others, the file's buffer is never filled beyond its end.
THEOREM TypeCorrect == Spec => []TypeOK
<1>1. FramingInv => TypeOK
  BY DEF FramingInv
<1>. QED
  BY <1>1, FramingInvCorrect, PTL

\* mapToByteArray and both readers: records come out once, in order and without a gap,
\* up to the first one that a crash tore, and a reader fails only there, unless it has
\* read over a part of one.
THEOREM InOrderCorrect == Spec => []InOrder
<1>1. FramingInv => InOrder
  <2>. SUFFICES ASSUME FramingInv, ~slipped PROVE InOrder
    BY DEF InOrder
  <2>1. ASSUME NEW i \in DOMAIN loaded
        PROVE  loaded[i] = Start + i - 1 /\ \A t \in torn : loaded[i] < t
    <3>1. /\ i \in 1 .. Len(loaded) /\ Len(loaded) \in Nat /\ Start \in Nat
          /\ torn \subseteq 1 .. Len(length)
      BY LenProperties DEF FramingInv, TypeOK, Start, Records
    <3>2. loaded[i] = Start + i - 1 /\ \A t \in torn : t >= Start + Len(loaded)
      BY DEF FramingInv, OrderInv
    <3>. QED
      BY <3>1, <3>2
  <2>2. pc = "failed" => Start + Len(loaded) \in torn
    BY DEF FramingInv, FailInv
  <2>. QED
    BY <2>1, <2>2 DEF InOrder
<1>. QED
  BY <1>1, FramingInvCorrect, PTL

\* ServerDecoder.decode: no decoder ever fails or misses a record of its socket.
SocketExact == kind = "socket" =>
    /\ pc # "failed"
    /\ \A i \in DOMAIN loaded : loaded[i] = first + i - 1

THEOREM SocketExactCorrect == Spec => []SocketExact
<1>1. FramingInv => SocketExact
  <2>. SUFFICES ASSUME FramingInv, kind = "socket" PROVE SocketExact
    BY DEF SocketExact
  <2>1. ~slipped /\ torn = {} /\ Start = first
    BY DEF FramingInv, SocketInv, WireInv, TornOld, Start
  <2>. QED
    BY <2>1 DEF FramingInv, FailInv, OrderInv, SocketExact
<1>. QED
  BY <1>1, FramingInvCorrect, PTL

--------------------------------------------------------------------------------
(* A decoder implements a channel of whole records.                        *)

LEMMA ChannelInit == Init => Socket!Init
<1>. SUFFICES ASSUME Init PROVE Socket!Init
  OBVIOUS
<1>1. length = <<>> /\ loaded = <<>> /\ first = 1
  BY DEF Init
<1>2. Len(length) = 0
  BY <1>1
<1>. QED
  BY <1>1, <1>2 DEF Socket!Init

\* A frame that is written is sent, one that is cut is delivered, a socket that is lost
\* is the channel lost; of a file the channel sees only that records are written.
LEMMA ChannelStep ==
    FramingInv /\ [Next]_vars => [Socket!Next]_<<Len(length), IF kind = "socket" THEN first ELSE 1,
                                                 IF kind = "socket" THEN loaded ELSE <<>> >>
<1>. DEFINE sent == Len(length)
            start == IF kind = "socket" THEN first ELSE 1
            got == IF kind = "socket" THEN loaded ELSE <<>>
<1>. SUFFICES ASSUME FramingInv, [Next]_vars
              PROVE  Socket!Next \/ UNCHANGED <<sent, start, got>>
  OBVIOUS
<1>0. /\ TypeOK /\ WireInv /\ ReadInv /\ Len(length) \in Nat /\ Len(loaded) \in Nat
  BY DEF FramingInv, TypeOK
<1>1. ASSUME NEW n \in Lengths, Write(n) PROVE Socket!Send
  <2>1. Len(length') = Len(length) + 1
    BY <1>0, <1>1, WriteBytes
  <2>. QED
    BY <1>1, <2>1 DEF Socket!Send, Write
<1>2. CASE Restart
  BY <1>2 DEF Restart
<1>3. CASE Reconnect
  BY <1>3 DEF Reconnect, Socket!Next, Socket!Lose
<1>4. CASE CutRecord /\ kind = "socket"
  <2>1. ~slipped /\ Start = first /\ UNCHANGED <<kind, length, first>>
    BY <1>4 DEF FramingInv, SocketInv, Start, CutRecord
  <2>2. PICK d : d = off - Len(buf) + pos'
    OBVIOUS
  <2>3. loaded' = Append(loaded, first + Len(loaded)) /\ first + Len(loaded) \in Records
    BY <1>0, <1>4, <2>1, <2>2, Handed
  <2>4. first + Len(loaded) <= Len(length)
    BY <2>3 DEF Records
  <2>. QED
    BY <1>4, <2>1, <2>3, <2>4 DEF Socket!Next, Socket!Deliver
<1>5. CASE CutRecord /\ kind # "socket"
  BY <1>5 DEF CutRecord
<1>6. CASE Arrive \/ ReadFile
  BY <1>6 DEF Arrive, ReadFile, Take
<1>7. CASE ReadNothing \/ CutGarbage \/ CutIncomplete \/ CutEnd \/ UNCHANGED vars
  BY <1>7 DEF ReadNothing, CutGarbage, CutIncomplete, CutEnd, vars
<1>. QED
  BY <1>1, <1>2, <1>3, <1>4, <1>5, <1>6, <1>7 DEF Next, Read, Socket!Next

\* What NettyLink and HiCacheRpc take for granted of a connection is what ServerDecoder
\* makes of any pieces of its bytes.
THEOREM FramingImplementsChannel == Spec => ImplementsChannel
<1>1. Init => Socket!Init
  BY ChannelInit
<1>2. FramingInv /\ [Next]_vars => [Socket!Next]_<<Len(length), IF kind = "socket" THEN first ELSE 1,
                                                   IF kind = "socket" THEN loaded ELSE <<>> >>
  BY ChannelStep
<1>. QED
  BY <1>1, <1>2, FramingInvCorrect, PTL DEF Spec, ImplementsChannel, Socket!Spec

\* reloadCache: when it ends without an error, no record of an earlier life is missing,
\* if the log is whole and fits in the buffer; in a longer log, unless a record is longer
\* than the buffer, or was torn before others were written, or the buffer was full where a
\* record ended, or a part of one was read over.
THEOREM NothingMissedCorrect == Spec => []NothingMissed
<1>1. FramingInv => NothingMissed
  <2>. SUFFICES ASSUME FramingInv, kind = "file", pc = "done",
                       \/ torn = {} /\ Len(bytes) <= Capacity
                       \/ /\ torn \subseteq {first - 1}
                          /\ \A r \in Records : 4 + length[r] <= Capacity
                          /\ ~slipped /\ ~aligned,
                       NEW r \in (1 .. first - 1) \ torn
                PROVE  r \in DOMAIN loaded /\ loaded[r] = r
    BY DEF NothingMissed
  <2>1. /\ DOMAIN loaded = 1 .. Len(loaded) /\ Len(loaded) \in Nat /\ r \in Nat /\ r >= 1
        /\ first \in Nat /\ r <= first - 1
    BY LenProperties DEF FramingInv, TypeOK
  <2>2. r <= Len(loaded) /\ ~slipped
    <3>1. CASE torn = {} /\ Len(bytes) <= Capacity
      <4>1. ~slipped /\ Len(loaded) >= first - 1
        BY <3>1 DEF FramingInv, SmallInv
      <4>. QED
        BY <2>1, <4>1
    <3>2. CASE ~slipped /\ ~aligned /\ torn \subseteq {first - 1}
               /\ \A k \in Records : 4 + length[k] <= Capacity
      BY <3>2 DEF FramingInv, DoneInv
    <3>. QED
      BY <3>1, <3>2
  <2>3. r \in DOMAIN loaded
    BY <2>1, <2>2
  <2>4. loaded[r] = 1 + r - 1
    BY <2>2, <2>3 DEF FramingInv, OrderInv, Start
  <2>. QED
    BY <2>1, <2>3, <2>4
<1>. QED
  BY <1>1, FramingInvCorrect, PTL
================================================================================
