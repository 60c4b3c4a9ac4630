----------------------------------- MODULE Framing -----------------------------------
(***************************************************************************)
(* Records behind a length of four bytes, the one format of messages on a  *)
(* socket and of cache.log, and its two readers: ServerDecoder, to which   *)
(* Netty hands whatever has arrived, and reloadCache, which fills one      *)
(* buffer from the file again and again.  Both cut records with the same   *)
(* loop; they differ in what becomes of the bytes the loop leaves.         *)
(*                                                                         *)
(* A byte is told apart by its record and its place in the frame, so that  *)
(* a length or a body put together from the wrong bytes shows.             *)
(***************************************************************************)
EXTENDS Integers, Sequences

CONSTANTS
    Lengths,              \* lengths of bodies; Gson writes at least two bytes and append a newline
    Capacity,             \* 64 MB
    MaxRecords,           \* bound: records written
    MaxCrashes            \* bound: restarts, or sockets lost

ASSUME FramingAssumption ==
    /\ Lengths \subseteq Nat \ {0} /\ Lengths # {}
    /\ Capacity \in Nat /\ Capacity > 4
    /\ MaxRecords \in Nat /\ MaxCrashes \in Nat

VARIABLES
    kind,                 \* "socket" or "file"
    length,               \* length[r]: of the body of record r; a history of all records
    bytes,                \* in the file, or written to the socket since it was opened
    off,                  \* how many of them were read
    buf, pos,             \* the buffer up to its limit, or up to its position while it is filled; the position
    room,                 \* bytes between position and limit while the buffer is filled
    pc,                   \* "fill", "cut", "done", "failed"
    loaded,               \* records handed on since the start, or since the socket was opened
    crashes,
    first,                \* history: the first record of this life, or of this socket
    torn,                 \* history: records of which a crash left a part
    left,                 \* history: bytes that are going to be read over
    slipped, aligned      \* history: some were; a full buffer ended just behind a record

vars == <<kind, length, bytes, off, buf, pos, room, pc, loaded, crashes, first, torn, left, slipped, aligned>>

Records == 1 .. Len(length)
Byte == [rec : 1 .. MaxRecords, place : Nat \ {0}]

TypeOK ==
    /\ kind \in {"socket", "file"} /\ pc \in {"fill", "cut", "done", "failed"}
    /\ length \in Seq(Lengths) /\ Len(length) <= MaxRecords
    /\ bytes \in Seq(Byte) /\ off \in 0 .. Len(bytes)
    /\ buf \in Seq(Byte) /\ pos \in 0 .. Len(buf) /\ room \in Nat
    /\ kind = "file" /\ pc = "fill" => Len(buf) + room <= Capacity
    /\ loaded \in Seq(Records)
    /\ crashes \in 0 .. MaxCrashes /\ first \in 1 .. Len(length) + 1
    /\ torn \subseteq Records /\ left \in 0 .. 4 /\ slipped \in BOOLEAN /\ aligned \in BOOLEAN

\* A cache without a log, and a socket on which nothing was sent.
Init ==
    /\ kind \in {"socket", "file"}
    /\ length = <<>> /\ bytes = <<>> /\ off = 0
    /\ buf = <<>> /\ pos = 0 /\ room = Capacity
    /\ pc = IF kind = "file" THEN "done" ELSE "fill"
    /\ loaded = <<>> /\ crashes = 0 /\ first = 1 /\ torn = {}
    /\ left = 0 /\ slipped = FALSE /\ aligned = FALSE

--------------------------------------------------------------------------------
(* The writers: mapToByteArray and CommitDiskThread.append.                *)

Frame(r, n) == [i \in 1 .. 4 + n |-> [rec |-> r, place |-> i]]

\* A command may start the disk thread while the start-up thread still reads.
Write(n) ==
    /\ Len(length) < MaxRecords
    /\ length' = Append(length, n)
    /\ bytes' = bytes \o Frame(Len(length'), n)
    /\ UNCHANGED <<kind, off, buf, pos, room, pc, loaded, crashes, first, torn, left, slipped, aligned>>

\* How many bytes of the record under way a crash may cut off.
Cuts == IF first > Len(length) THEN {0} ELSE 0 .. 3 + length[Len(length)]

\* The cache dies and starts again; the log is opened to be appended to.
Restart ==
    /\ kind = "file" /\ crashes < MaxCrashes /\ crashes' = crashes + 1
    /\ \E cut \in Cuts :
          /\ bytes' = SubSeq(bytes, 1, Len(bytes) - cut)
          /\ torn' = IF cut = 0 THEN torn ELSE torn \cup {Len(length)}
    /\ first' = Len(length) + 1
    /\ off' = 0 /\ buf' = <<>> /\ pos' = 0 /\ room' = Capacity /\ pc' = "fill" /\ loaded' = <<>>
    /\ left' = 0 /\ slipped' = FALSE /\ aligned' = FALSE
    /\ UNCHANGED <<kind, length>>

\* Fault: one decoder for all sockets.
ReconnectShared ==
    /\ kind = "socket" /\ crashes < MaxCrashes /\ crashes' = crashes + 1
    /\ first' = Len(length) + 1
    /\ bytes' = <<>> /\ off' = 0 /\ pc' = "cut" /\ loaded' = <<>>
    /\ UNCHANGED <<kind, length, buf, pos, room, torn, left, slipped, aligned>>

\* The socket is lost with what is on it; the next one has a decoder of its own.
Reconnect ==
    /\ kind = "socket" /\ crashes < MaxCrashes /\ crashes' = crashes + 1
    /\ first' = Len(length) + 1
    /\ bytes' = <<>> /\ off' = 0 /\ buf' = <<>> /\ pos' = 0 /\ pc' = "fill" /\ loaded' = <<>>
    /\ UNCHANGED <<kind, length, room, torn, left, slipped, aligned>>

--------------------------------------------------------------------------------
(* Filling the buffer.                                                     *)

Rest == Len(bytes) - off

Take(n) ==
    /\ buf' = buf \o SubSeq(bytes, off + 1, off + n)
    /\ off' = off + n /\ pos' = 0 /\ pc' = "cut"
    /\ slipped' = (slipped \/ left > 0)
    /\ UNCHANGED <<kind, length, bytes, room, loaded, crashes, first, torn, left, aligned>>

\* Netty appends what has arrived to what the decoder left.
Arrive ==
    /\ kind = "socket" /\ pc = "fill"
    /\ \E n \in 1 .. Rest : Take(n)

\* fileChannel.read and flip.
ReadFile ==
    /\ kind = "file" /\ pc = "fill"
    /\ room > 0 /\ Rest > 0
    /\ Take(IF room < Rest THEN room ELSE Rest)

\* Fault: only -1 ends the loop.
EndOfFile == Rest = 0

\* Fault: a buffer that was not filled from its beginning ends the loop.
ShortRead == Rest = 0 \/ room < Capacity

\* Nothing more in the file, or no room for it: read returns -1 or 0.
NothingRead == Rest = 0 \/ room = 0

ReadNothing ==
    /\ kind = "file" /\ pc = "fill" /\ NothingRead
    /\ pc' = "done"
    /\ UNCHANGED <<kind, length, bytes, off, buf, pos, room, loaded, crashes, first, torn, left, slipped, aligned>>

--------------------------------------------------------------------------------
(* Cutting records out of it.                                              *)

Remaining == Len(buf) - pos

LengthThere == Remaining > 4

\* The length at the position.  Bytes that are not the four bytes of one record's
\* length make up any number.
SizeRead == LET r == buf[pos + 1].rec IN
    IF \A i \in 1 .. 4 : buf[pos + i] = [rec |-> r, place |-> i] THEN {length[r]}
    ELSE 0 .. Capacity

\* The bytes behind the length are the body of one record.
IsBody(size) == LET r == buf[pos + 1].rec IN
    /\ size = length[r]
    /\ \A i \in 1 .. 4 + size : buf[pos + i] = [rec |-> r, place |-> i]

CutRecord ==
    /\ pc = "cut" /\ LengthThere
    /\ \E size \in SizeRead :
          /\ Remaining - 4 >= size
          /\ IsBody(size)
          /\ pos' = pos + 4 + size
    /\ loaded' = Append(loaded, buf[pos + 1].rec)
    /\ UNCHANGED <<kind, length, bytes, off, buf, room, pc, crashes, first, torn, left, slipped, aligned>>

\* Gson throws, and with it reloadCache.  A decoder's garbage fails in an actor.
CutGarbage ==
    /\ pc = "cut" /\ LengthThere
    /\ \E size \in SizeRead : Remaining - 4 >= size /\ ~IsBody(size)
    /\ pc' = "failed"
    /\ UNCHANGED <<kind, length, bytes, off, buf, pos, room, loaded, crashes, first, torn, left, slipped, aligned>>

\* Fault: the length is not put back.
LengthEaten == SubSeq(buf, pos + 5, Len(buf))

\* reset and compact.
Compacted == SubSeq(buf, pos + 1, Len(buf))

\* Fault: the position is not moved behind what was kept.
WholeBuffer(kept) == Capacity

BehindKept(kept) == Capacity - Len(kept)

\* The body is not all there.
CutIncomplete ==
    /\ pc = "cut" /\ LengthThere
    /\ \E size \in SizeRead : Remaining - 4 < size
    /\ buf' = Compacted /\ pos' = 0 /\ pc' = "fill"
    /\ room' = IF kind = "file" THEN BehindKept(buf') ELSE room
    /\ left' = 0
    /\ UNCHANGED <<kind, length, bytes, off, loaded, crashes, first, torn, slipped, aligned>>

\* Fault: Netty's buffer is treated like the file's.
LeftCut == SubSeq(buf, 1, pos)

\* What is left of a buffer that ends within the next length.  The decoder's is kept
\* by Netty.  The file's is not compacted: it is read over, and all before it, which
\* was cut already, is flipped in front again.
LeftOver == IF kind = "socket" THEN Compacted ELSE SubSeq(buf, 1, pos)

CutEnd ==
    /\ pc = "cut" /\ ~LengthThere
    /\ buf' = LeftOver /\ pos' = 0 /\ pc' = "fill"
    /\ room' = IF kind = "file" THEN Remaining ELSE room
    /\ left' = IF kind = "file" THEN Remaining ELSE 0
    /\ aligned' = (aligned \/ (kind = "file" /\ Rest > 0 /\ Remaining = 0))
    /\ UNCHANGED <<kind, length, bytes, off, loaded, crashes, first, torn, slipped>>

--------------------------------------------------------------------------------
Read == Arrive \/ ReadFile \/ ReadNothing \/ CutRecord \/ CutGarbage \/ CutIncomplete \/ CutEnd
Next == (\E n \in Lengths : Write(n)) \/ Restart \/ Reconnect \/ Read

Spec == Init /\ [][Next]_vars
\* The start-up thread runs, and what is on a socket arrives.
FairSpec == Spec /\ WF_vars(Read)

--------------------------------------------------------------------------------
\* What should come out first: the first record of the file, or of this socket.
Start == IF kind = "file" THEN 1 ELSE first

\* Records come out once, in their order and without a gap, up to the first one that
\* a crash tore, and only at a torn one does a reader fail; unless the reader ended
\* within a length and read over it.
InOrder == ~slipped =>
    /\ \A i \in DOMAIN loaded : /\ loaded[i] = Start + i - 1
                                /\ \A t \in torn : loaded[i] < t
    /\ pc = "failed" => Start + Len(loaded) \in torn

\* When reloadCache ends without an error it has loaded every record of earlier lives,
\* if none is torn and the log fits in the buffer, whatever is appended meanwhile.  In a
\* longer log none may be longer than the buffer, none torn but the last one before the
\* crash, and no full buffer may have ended behind a record or been read over.
NothingMissed ==
    /\ kind = "file" /\ pc = "done"
    /\ \/ torn = {} /\ Len(bytes) <= Capacity
       \/ /\ torn \subseteq {first - 1} /\ \A r \in Records : 4 + length[r] <= Capacity
          /\ ~slipped /\ ~aligned
    => \A r \in (1 .. first - 1) \ torn : r \in DOMAIN loaded /\ loaded[r] = r

\* The start-up thread comes to an end, whatever is in the file.
ReloadEnds == kind = "file" /\ pc \in {"fill", "cut"} ~> pc \in {"done", "failed"}

\* What was sent comes out, unless its socket is lost.
SentArrives == \A r \in 1 .. MaxRecords :
    kind = "socket" /\ r \in Records /\ r >= first
        ~> r < first \/ \E i \in DOMAIN loaded : loaded[i] = r

\* A decoder makes a socket a channel of whole records.
Socket == INSTANCE RecordChannel WITH
              sent <- Len(length),
              start <- IF kind = "socket" THEN first ELSE 1,
              got <- IF kind = "socket" THEN loaded ELSE <<>>
ImplementsChannel == Socket!Spec

================================================================================
