---------------------------- MODULE HiCacheSequenceProofs ----------------------------
(***************************************************************************)
(* Proofs about HiCacheSequence, for any handlers, names, numbers and      *)
(* numbers of commands and spaces.                                         *)
(***************************************************************************)
EXTENDS HiCacheSequence, TLAPS

IsSeq(o, n) == item[o][n].kind = "sequence"
Sound(o, n) == IsSeq(o, n) /\ item[o][n].born \notin overwritten

\* Whoever is going to put has a map that was made; maps to come are empty.
MapsMade ==
    /\ cache \in {0, spaces}
    /\ \A t \in Handlers : h[t].pc \in {"fetched", "read"} => h[t].map \in 1 .. spaces
    /\ \A o \in Maps, n \in Names : o > spaces => item[o][n] = Nothing
\* Sequences are numbered as they are made.
Numbered ==
    /\ \A o \in Maps, n \in Names : item[o][n].born <= born
    /\ \A t \in Handlers : h[t].pc = "read" => h[t].seen.born <= born
    /\ \A g \in given : g[1] <= born
\* A sequence that was not put over or back is in one place.
OnePlace == \A o, p \in Maps, n, m \in Names :
    Sound(o, n) /\ Sound(p, m) /\ item[o][n].born = item[p][m].born => o = p /\ n = m
\* It has answered nothing above its number.
Below == \A o \in Maps, n \in Names, g \in given :
    Sound(o, n) /\ g[1] = item[o][n].born => g[2] <= item[o][n].num
\* What a creation finds that its check did not was made after the check.
SpaceSince == \A t \in Handlers :
    At(t, "createSpace", "checked") => h[t].since <= spaces /\ (cache # 0 => h[t].since < cache)
MadeSince(t) ==
    At(t, "createSequence", "checked") \/ At(t, "createSequence", "fetched") =>
        /\ h[t].since <= born /\ h[t].map \in 1 .. spaces
        /\ \A o \in Maps : o >= h[t].map /\ Sound(o, h[t].name) => h[t].since < item[o][h[t].name].born
SequenceSince == \A t \in Handlers : MadeSince(t)
SequenceInv ==
    TypeOK /\ MapsMade /\ Numbered /\ OnePlace /\ Below /\ Increasing /\ SpaceSince /\ SequenceSince

--------------------------------------------------------------------------------
LEMMA InitHolds == Init => SequenceInv
<1>. SUFFICES ASSUME Init PROVE SequenceInv
  OBVIOUS
<1>1. TypeOK
  <2>1. spaces \in 0 .. MaxSpaces /\ cache \in 0 .. spaces /\ ops \in 0 .. MaxOps
    BY SequenceAssumption DEF Init
  <2>2. item \in [Maps -> [Names -> Items]] /\ h \in [Handlers -> Commands \cup {Idle}]
    BY DEF Init, Items, Nothing
  <2>3. \A t \in Handlers : h[t].pc # "read"
    BY DEF Init, Idle
  <2>. QED
    BY <2>1, <2>2, <2>3 DEF TypeOK, Init
<1>2. MapsMade /\ Numbered /\ OnePlace /\ Below
  BY DEF Init, MapsMade, Numbered, OnePlace, Below, Sound, IsSeq, Nothing, Idle
<1>3. Increasing /\ SpaceSince /\ SequenceSince
  BY DEF Init, Increasing, SpaceSince, SequenceSince, MadeSince, At, Idle
<1>. QED
  BY <1>1, <1>2, <1>3 DEF SequenceInv

\* The command of a thread that is not idle.
LEMMA CommandType ==
    ASSUME TypeOK, NEW t \in Handlers, h[t] # Idle
    PROVE  /\ h[t] \in Commands /\ h[t].name \in Names /\ h[t].by \in Steps /\ h[t].by \in Nat \ {0}
           /\ h[t].map \in 0 .. MaxSpaces /\ h[t].seen \in Items /\ h[t].since \in Nat
<1>1. h[t] \in Commands
  BY DEF TypeOK
<1>. QED
  BY <1>1, SequenceAssumption DEF Commands

\* What a thread does to its own command leaves the others alone.
LEMMA CommandKept ==
    ASSUME TypeOK, NEW t \in Handlers, NEW c \in Commands \cup {Idle}, h' = [h EXCEPT ![t] = c],
           c.pc = "read" => c.seen.kind = "sequence"
    PROVE  /\ h' \in [Handlers -> Commands \cup {Idle}]
           /\ \A u \in Handlers : h'[u].pc = "read" => h'[u].seen.kind = "sequence"
           /\ h'[t] = c /\ \A u \in Handlers : u # t => h'[u] = h[u]
BY DEF TypeOK

LEMMA EndKept ==
    ASSUME TypeOK, NEW t \in Handlers, Ends(t)
    PROVE  /\ h' \in [Handlers -> Commands \cup {Idle}]
           /\ \A u \in Handlers : h'[u].pc = "read" => h'[u].seen.kind = "sequence"
           /\ h'[t] = Idle /\ \A u \in Handlers : u # t => h'[u] = h[u]
<1>1. Idle.pc # "read" /\ Idle \in Commands \cup {Idle} /\ h' = [h EXCEPT ![t] = Idle]
  BY DEF Idle, Ends
<1>. QED
  BY <1>1, CommandKept

--------------------------------------------------------------------------------
(* Steps that leave the maps as they are.                                  *)

\* The invariants about items need only the items and what was answered.
LEMMA ItemsKept ==
    ASSUME OnePlace, Below, Increasing, UNCHANGED <<item, given, repeated, overwritten>>
    PROVE  OnePlace' /\ Below' /\ Increasing'
BY DEF OnePlace, Below, Increasing, Sound, IsSeq

LEMMA BeginStep == ASSUME SequenceInv, NEW t \in Handlers, Begin(t) PROVE SequenceInv'
<1>. USE DEF SequenceInv
<1>1. PICK op \in SpaceOps \cup ItemOps, n \in Names, by \in Steps :
          h' = [h EXCEPT ![t] = [pc |-> "begun", op |-> op, name |-> n, by |-> by,
                                 map |-> 0, seen |-> Nothing, since |-> 0]]
  BY DEF Begin
<1>. DEFINE c == [pc |-> "begun", op |-> op, name |-> n, by |-> by,
                  map |-> 0, seen |-> Nothing, since |-> 0]
<1>2. c \in Commands /\ c.pc = "begun"
  BY SequenceAssumption DEF Commands, Items, Nothing, TypeOK
<1>3. h' = [h EXCEPT ![t] = c]
  BY <1>1
<1>. HIDE DEF c
<1>4. /\ h' \in [Handlers -> Commands \cup {Idle}]
      /\ \A u \in Handlers : h'[u].pc = "read" => h'[u].seen.kind = "sequence"
      /\ h'[t].pc = "begun" /\ \A u \in Handlers : u # t => h'[u] = h[u]
  BY <1>2, <1>3, CommandKept
<1>5. TypeOK'
  <2>1. ops' \in 0 .. MaxOps
    BY SequenceAssumption DEF Begin, TypeOK
  <2>. QED
    BY <1>4, <2>1 DEF TypeOK, Begin
<1>6. MapsMade' /\ Numbered'
  BY <1>4 DEF MapsMade, Numbered, Begin
<1>7. SpaceSince'
  BY <1>4 DEF SpaceSince, At, Begin
<1>8. SequenceSince'
  BY <1>4 DEF SequenceSince, MadeSince, At, Begin, Sound, IsSeq
<1>. QED
  BY <1>5, <1>6, <1>7, <1>8, ItemsKept DEF Begin

\* The command ends, and neither items nor spaces change.
LEMMA EndStep ==
    ASSUME SequenceInv, NEW t \in Handlers, Ends(t),
           UNCHANGED <<cache, spaces, item, ops, born, given, repeated, overwritten>>
    PROVE  SequenceInv'
<1>. USE DEF SequenceInv
<1>1. /\ h' \in [Handlers -> Commands \cup {Idle}]
      /\ \A u \in Handlers : h'[u].pc = "read" => h'[u].seen.kind = "sequence"
      /\ h'[t].pc = "idle" /\ \A u \in Handlers : u # t => h'[u] = h[u]
  BY EndKept DEF Idle
<1>2. TypeOK'
  BY <1>1 DEF TypeOK
<1>3. MapsMade' /\ Numbered'
  BY <1>1 DEF MapsMade, Numbered
<1>4. SpaceSince' /\ SequenceSince'
  BY <1>1 DEF SpaceSince, SequenceSince, MadeSince, At, Sound, IsSeq
<1>. QED
  BY <1>2, <1>3, <1>4, ItemsKept

\* At its check a creation finds neither a space nor a sequence.
LEMMA CheckStep == ASSUME SequenceInv, NEW t \in Handlers, Check(t) PROVE SequenceInv'
<1>. USE DEF SequenceInv
<1>. DEFINE c == [h[t] EXCEPT !.pc = "checked", !.map = cache,
                              !.since = IF h[t].op \in SpaceOps THEN spaces ELSE born]
<1>1. h[t] # Idle /\ h[t].pc = "begun" /\ Passes(h[t].op, h[t].name)
  BY DEF Check, Idle
<1>2. /\ c \in Commands /\ c.pc = "checked" /\ c.op = h[t].op /\ c.name = h[t].name /\ c.map = cache
      /\ c.since = IF h[t].op \in SpaceOps THEN spaces ELSE born
  <2>1. cache \in 0 .. MaxSpaces /\ spaces \in Nat /\ born \in Nat
    BY SequenceAssumption DEF TypeOK
  <2>. QED
    BY <1>1, <2>1, CommandType DEF Commands
<1>3. h' = [h EXCEPT ![t] = c]
  BY DEF Check, TypeOK
<1>. HIDE DEF c
<1>4. /\ h' \in [Handlers -> Commands \cup {Idle}]
      /\ \A u \in Handlers : h'[u].pc = "read" => h'[u].seen.kind = "sequence"
      /\ h'[t] = c /\ \A u \in Handlers : u # t => h'[u] = h[u]
  BY <1>2, <1>3, CommandKept
<1>5. TypeOK'
  BY <1>4 DEF TypeOK, Check
<1>6. MapsMade' /\ Numbered'
  BY <1>2, <1>4 DEF MapsMade, Numbered, Check
<1>7. SpaceSince'
  <2>1. At(t, "createSpace", "checked")' => cache = 0 /\ h'[t].since = spaces
    BY <1>1, <1>2, <1>4 DEF At, Passes, SpaceOps, ItemOps
  <2>2. spaces \in Nat /\ UNCHANGED <<cache, spaces>>
    BY DEF Check, TypeOK
  <2>. QED
    BY <1>4, <2>1, <2>2 DEF SpaceSince, At
<1>8. SequenceSince'
  <2>1. ASSUME At(t, "createSequence", "checked")'
        PROVE  /\ h'[t].since = born /\ h'[t].map = cache /\ cache = spaces /\ cache # 0
               /\ h'[t].name = h[t].name /\ item[cache][h[t].name].kind = "none"
    <3>1. h[t].op = "createSequence"
      BY <1>2, <1>4, <2>1 DEF At
    <3>2. cache # 0 /\ Free(h[t].name)
      BY <1>1, <3>1 DEF Passes
    <3>. QED
      BY <1>2, <1>4, <3>1, <3>2 DEF MapsMade, Free, SpaceOps
  <2>2. spaces \in Nat /\ born \in Nat /\ UNCHANGED <<spaces, born, item, overwritten>>
    BY DEF Check, TypeOK
  <2>3. ASSUME At(t, "createSequence", "checked")', NEW o \in Maps, o >= h'[t].map
        PROVE  item'[o][h'[t].name].kind = "none"
    <3>1. o = cache \/ o > spaces
      BY <2>1, <2>2, <2>3 DEF Maps
    <3>2. h[t].name \in Names
      BY <1>1, CommandType
    <3>. QED
      BY <2>1, <2>2, <2>3, <3>1, <3>2 DEF MapsMade, Nothing
  <2>4. MadeSince(t)'
    <3>1. ~At(t, "createSequence", "fetched")'
      BY <1>2, <1>4 DEF At
    <3>2. ASSUME At(t, "createSequence", "checked")'
          PROVE  h'[t].since <= born' /\ h'[t].map \in 1 .. spaces'
      BY <2>1, <2>2, <3>2 DEF TypeOK
    <3>3. ASSUME At(t, "createSequence", "checked")', NEW o \in Maps, o >= h'[t].map
          PROVE  ~Sound(o, h[t].name)'
      BY <2>3, <3>3 DEF Sound, IsSeq
    <3>. QED
      BY <3>1, <3>2, <3>3 DEF MadeSince
  <2>5. ASSUME NEW u \in Handlers, u # t PROVE MadeSince(u)'
    <3>1. MadeSince(u) /\ h'[u] = h[u]
      BY <1>4, <2>5 DEF SequenceSince
    <3>. QED
      BY <2>2, <3>1 DEF MadeSince, At, Sound, IsSeq
  <2>. QED
    BY <2>4, <2>5 DEF SequenceSince
<1>. QED
  BY <1>5, <1>6, <1>7, <1>8, ItemsKept DEF Check

\* The space is a new one, whose map is empty.
LEMMA CreateSpaceStep == ASSUME SequenceInv, NEW t \in Handlers, CreateSpace(t) PROVE SequenceInv'
<1>. USE DEF SequenceInv
<1>1. /\ h' \in [Handlers -> Commands \cup {Idle}]
      /\ \A u \in Handlers : h'[u].pc = "read" => h'[u].seen.kind = "sequence"
      /\ h'[t].pc = "idle" /\ \A u \in Handlers : u # t => h'[u] = h[u]
  BY EndKept DEF Idle, CreateSpace
<1>2. spaces \in Nat /\ spaces' = spaces + 1 /\ spaces' \in 0 .. MaxSpaces /\ cache' = spaces'
  BY SequenceAssumption DEF CreateSpace, TypeOK
<1>3. UNCHANGED <<item, ops, born, given, repeated, overwritten>>
  BY DEF CreateSpace
<1>4. TypeOK'
  BY <1>1, <1>2, <1>3 DEF TypeOK
<1>5. MapsMade'
  <2>1. \A u \in Handlers : h'[u].pc \in {"fetched", "read"} => h'[u].map \in 1 .. spaces'
    BY <1>1, <1>2 DEF MapsMade
  <2>2. \A o \in Maps, n \in Names : o > spaces' => item'[o][n] = Nothing
    BY <1>2, <1>3 DEF MapsMade, Maps
  <2>. QED
    BY <1>2, <2>1, <2>2 DEF MapsMade
<1>6. Numbered'
  BY <1>1, <1>3 DEF Numbered
<1>7. SpaceSince'
  <2>1. ASSUME NEW u \in Handlers, At(u, "createSpace", "checked")'
        PROVE  h[u].since <= spaces /\ h'[u] = h[u] /\ h[u].since \in Nat
    <3>1. u # t /\ h[u] # Idle
      BY <1>1, <2>1 DEF At, Idle
    <3>. QED
      BY <1>1, <2>1, <3>1, CommandType DEF SpaceSince, At
  <2>. QED
    BY <1>2, <2>1 DEF SpaceSince
<1>8. SequenceSince'
  <2>1. ASSUME NEW u \in Handlers PROVE MadeSince(u)'
    <3>1. CASE u = t
      BY <1>1, <3>1 DEF MadeSince, At
    <3>2. CASE u # t
      <4>1. MadeSince(u) /\ h'[u] = h[u]
        BY <1>1, <3>2 DEF SequenceSince
      <4>. QED
        BY <1>2, <1>3, <4>1 DEF MadeSince, At, Sound, IsSeq
    <3>. QED
      BY <3>1, <3>2
  <2>. QED
    BY <2>1 DEF SequenceSince
<1>. QED
  BY <1>3, <1>4, <1>5, <1>6, <1>7, <1>8, ItemsKept

LEMMA DeleteSpaceStep == ASSUME SequenceInv, NEW t \in Handlers, DeleteSpace(t) PROVE SequenceInv'
<1>. USE DEF SequenceInv
<1>1. /\ h' \in [Handlers -> Commands \cup {Idle}]
      /\ \A u \in Handlers : h'[u].pc = "read" => h'[u].seen.kind = "sequence"
      /\ h'[t].pc = "idle" /\ \A u \in Handlers : u # t => h'[u] = h[u]
  BY EndKept DEF Idle, DeleteSpace
<1>2. cache' = 0 /\ UNCHANGED <<spaces, item, ops, born, given, repeated, overwritten>>
  BY DEF DeleteSpace
<1>3. TypeOK'
  BY <1>1, <1>2 DEF TypeOK
<1>4. MapsMade' /\ Numbered'
  BY <1>1, <1>2 DEF MapsMade, Numbered
<1>5. SpaceSince'
  BY <1>1, <1>2 DEF SpaceSince, At
<1>6. SequenceSince'
  BY <1>1, <1>2 DEF SequenceSince, MadeSince, At, Sound, IsSeq
<1>. QED
  BY <1>2, <1>3, <1>4, <1>5, <1>6, ItemsKept

\* The map that is looked up is no older than the one that was checked.
LEMMA FetchStep == ASSUME SequenceInv, NEW t \in Handlers, Fetch(t) PROVE SequenceInv'
<1>. USE DEF SequenceInv
<1>. DEFINE c == [h[t] EXCEPT !.pc = "fetched", !.map = cache]
<1>1. h[t] # Idle /\ h[t].pc = "checked" /\ h[t].op \in ItemOps /\ cache # 0
  BY DEF Fetch, Idle
<1>2. cache = spaces /\ spaces \in 1 .. MaxSpaces
  BY <1>1, SequenceAssumption DEF MapsMade, TypeOK
<1>3. /\ c \in Commands /\ c.pc = "fetched" /\ c.op = h[t].op /\ c.name = h[t].name
      /\ c.map = spaces /\ c.since = h[t].since
  <2>1. cache \in 0 .. MaxSpaces
    BY <1>2, SequenceAssumption
  <2>. QED
    BY <1>1, <1>2, <2>1, CommandType DEF Commands
<1>4. h' = [h EXCEPT ![t] = c]
  BY DEF Fetch, TypeOK
<1>. HIDE DEF c
<1>5. /\ h' \in [Handlers -> Commands \cup {Idle}]
      /\ \A u \in Handlers : h'[u].pc = "read" => h'[u].seen.kind = "sequence"
      /\ h'[t] = c /\ \A u \in Handlers : u # t => h'[u] = h[u]
  BY <1>3, <1>4, CommandKept
<1>6. UNCHANGED <<cache, spaces, item, ops, born, given, repeated, overwritten>>
  BY DEF Fetch
<1>7. TypeOK'
  BY <1>5, <1>6 DEF TypeOK
<1>8. MapsMade' /\ Numbered'
  BY <1>2, <1>3, <1>5, <1>6 DEF MapsMade, Numbered
<1>9. SpaceSince'
  BY <1>3, <1>5, <1>6 DEF SpaceSince, At
<1>10. SequenceSince'
  <2>1. MadeSince(t)'
    <3>1. ASSUME At(t, "createSequence", "fetched")' PROVE At(t, "createSequence", "checked")
      BY <1>1, <1>3, <1>5, <3>1 DEF At
    <3>2. ~At(t, "createSequence", "checked")'
      BY <1>3, <1>5 DEF At
    <3>3. ASSUME At(t, "createSequence", "checked"), NEW o \in Maps, o >= spaces, Sound(o, h[t].name)
          PROVE  h[t].since < item[o][h[t].name].born
      <4>1. h[t].map \in 1 .. spaces
        BY <3>3 DEF SequenceSince, MadeSince
      <4>. QED
        BY <1>2, <3>3, <4>1 DEF SequenceSince, MadeSince, Maps
    <3>4. At(t, "createSequence", "checked") => h[t].since <= born
      BY DEF SequenceSince, MadeSince
    <3>. QED
      BY <1>2, <1>3, <1>5, <1>6, <3>1, <3>2, <3>3, <3>4 DEF MadeSince, Sound, IsSeq
  <2>2. ASSUME NEW u \in Handlers, u # t PROVE MadeSince(u)'
    <3>1. MadeSince(u) /\ h'[u] = h[u]
      BY <1>5, <2>2 DEF SequenceSince
    <3>. QED
      BY <1>6, <3>1 DEF MadeSince, At, Sound, IsSeq
  <2>. QED
    BY <2>1, <2>2 DEF SequenceSince
<1>. QED
  BY <1>6, <1>7, <1>8, <1>9, <1>10, ItemsKept

\* The number is read where the map that was looked up has it.
LEMMA ReadStep == ASSUME SequenceInv, NEW t \in Handlers, Read(t) PROVE SequenceInv'
<1>. USE DEF SequenceInv
<1>. DEFINE i == item[h[t].map][h[t].name]
            c == IF IsLong(i) THEN [h[t] EXCEPT !.pc = "read", !.seen = i] ELSE Idle
<1>1. h[t] # Idle /\ h[t].pc = "fetched" /\ h[t].op = "incrementAndGet"
  BY DEF Read, At, Idle
<1>2. h[t].map \in 1 .. spaces /\ h[t].map \in Maps /\ h[t].name \in Names /\ i \in Items
  <2>1. h[t].map \in 1 .. spaces /\ spaces \in 0 .. MaxSpaces /\ h[t].name \in Names
    BY <1>1, CommandType DEF MapsMade, TypeOK
  <2>2. h[t].map \in Maps
    BY <2>1, SequenceAssumption DEF Maps
  <2>. QED
    BY <2>1, <2>2 DEF TypeOK
<1>3. /\ c \in Commands \cup {Idle} /\ (c.pc = "read" => c.seen.kind = "sequence" /\ c.seen.born <= born)
      /\ c.pc \in {"read", "idle"} /\ (c.pc = "read" => c.map \in 1 .. spaces)
  <2>1. CASE IsLong(i)
    BY <1>1, <1>2, <2>1, CommandType DEF Commands, IsLong, Numbered
  <2>2. CASE ~IsLong(i)
    BY <2>2 DEF Idle
  <2>. QED
    BY <2>1, <2>2
<1>4. h' = [h EXCEPT ![t] = c]
  BY DEF Read, TypeOK
<1>. HIDE DEF c
<1>5. /\ h' \in [Handlers -> Commands \cup {Idle}]
      /\ \A u \in Handlers : h'[u].pc = "read" => h'[u].seen.kind = "sequence"
      /\ h'[t] = c /\ \A u \in Handlers : u # t => h'[u] = h[u]
  BY <1>3, <1>4, CommandKept
<1>6. UNCHANGED <<cache, spaces, item, ops, born, given, repeated, overwritten>>
  BY DEF Read
<1>7. TypeOK'
  BY <1>5, <1>6 DEF TypeOK
<1>8. MapsMade' /\ Numbered'
  BY <1>3, <1>5, <1>6 DEF MapsMade, Numbered
<1>9. SpaceSince'
  BY <1>3, <1>5, <1>6 DEF SpaceSince, At
<1>10. SequenceSince'
  BY <1>3, <1>5, <1>6 DEF SequenceSince, MadeSince, At, Sound, IsSeq
<1>. QED
  BY <1>6, <1>7, <1>8, <1>9, <1>10, ItemsKept

--------------------------------------------------------------------------------
(* Steps that put something into a map.                                    *)

\* A command that is going to put has a map that was made, and changes that place only.
LEMMA PutKept ==
    ASSUME SequenceInv, NEW t \in Handlers, h[t].pc \in {"fetched", "read"}, NEW i \in Items, Put(t, i)
    PROVE  /\ h[t].map \in 1 .. spaces /\ h[t].map \in Maps /\ h[t].name \in Names
           /\ item' \in [Maps -> [Names -> Items]] /\ item'[h[t].map][h[t].name] = i
           /\ \A o \in Maps, n \in Names :
                 o # h[t].map \/ n # h[t].name => item'[o][n] = item[o][n]
           /\ \A o \in Maps, n \in Names : o > spaces => item'[o][n] = Nothing
<1>. USE DEF SequenceInv
<1>1. h[t] # Idle
  BY DEF Idle
<1>2. h[t].map \in 1 .. spaces /\ spaces \in 0 .. MaxSpaces /\ h[t].name \in Names
  BY <1>1, CommandType DEF MapsMade, TypeOK
<1>3. h[t].map \in Maps
  BY <1>2, SequenceAssumption DEF Maps
<1>4. item \in [Maps -> [Names -> Items]] /\ item' = [item EXCEPT ![h[t].map][h[t].name] = i]
  BY DEF TypeOK, Put
<1>5. item' \in [Maps -> [Names -> Items]] /\ item'[h[t].map][h[t].name] = i
  BY <1>2, <1>3, <1>4
<1>6. \A o \in Maps, n \in Names : o # h[t].map \/ n # h[t].name => item'[o][n] = item[o][n]
  BY <1>2, <1>3, <1>4
<1>7. ASSUME NEW o \in Maps, NEW n \in Names, o > spaces PROVE item'[o][n] = Nothing
  <2>1. o # h[t].map
    BY <1>2, <1>7 DEF Maps
  <2>. QED
    BY <1>6, <1>7, <2>1 DEF MapsMade
<1>. QED
  BY <1>2, <1>3, <1>5, <1>6, <1>7

\* What is put is no sequence.
LEMMA ClearStep ==
    ASSUME SequenceInv, NEW t \in Handlers, h[t].pc = "fetched",
           NEW i \in {Nothing, Store}, Put(t, i), Ends(t),
           UNCHANGED <<cache, spaces, ops, born, given, repeated, overwritten>>
    PROVE  SequenceInv'
<1>. USE DEF SequenceInv
<1>1. /\ h' \in [Handlers -> Commands \cup {Idle}]
      /\ \A u \in Handlers : h'[u].pc = "read" => h'[u].seen.kind = "sequence"
      /\ h'[t].pc = "idle" /\ \A u \in Handlers : u # t => h'[u] = h[u]
  BY EndKept DEF Idle
<1>2. i \in Items /\ i.kind # "sequence" /\ i.born = 0
  BY DEF Items, Nothing, Store
<1>3. /\ item' \in [Maps -> [Names -> Items]] /\ h[t].map \in Maps /\ h[t].name \in Names
      /\ item'[h[t].map][h[t].name] = i
      /\ \A o \in Maps, n \in Names : o # h[t].map \/ n # h[t].name => item'[o][n] = item[o][n]
      /\ \A o \in Maps, n \in Names : o > spaces => item'[o][n] = Nothing
  BY <1>2, PutKept
<1>4. \A o \in Maps, n \in Names : Sound(o, n)' => Sound(o, n) /\ item'[o][n] = item[o][n]
  BY <1>2, <1>3 DEF Sound, IsSeq
<1>5. TypeOK'
  BY <1>1, <1>3 DEF TypeOK
<1>6. MapsMade'
  BY <1>1, <1>3 DEF MapsMade
<1>7. Numbered'
  <2>1. born \in Nat
    BY DEF TypeOK
  <2>2. \A o \in Maps, n \in Names : item'[o][n].born <= born
    BY <1>2, <1>3, <2>1 DEF Numbered
  <2>. QED
    BY <1>1, <2>2 DEF Numbered
<1>8. OnePlace' /\ Below' /\ Increasing'
  BY <1>4 DEF OnePlace, Below, Increasing
<1>9. SpaceSince'
  BY <1>1 DEF SpaceSince, At
<1>10. SequenceSince'
  <2>1. ASSUME NEW u \in Handlers PROVE MadeSince(u)'
    <3>1. CASE u = t
      BY <1>1, <3>1 DEF MadeSince, At
    <3>2. CASE u # t
      <4>1. MadeSince(u) /\ h'[u] = h[u]
        BY <1>1, <3>2 DEF SequenceSince
      <4>2. At(u, "createSequence", "checked") \/ At(u, "createSequence", "fetched") => h[u].name \in Names
        BY CommandType DEF At, Idle
      <4>. QED
        BY <1>4, <4>1, <4>2 DEF MadeSince, At
    <3>. QED
      BY <3>1, <3>2
  <2>. QED
    BY <2>1 DEF SequenceSince
<1>. QED
  BY <1>5, <1>6, <1>7, <1>8, <1>9, <1>10

\* The sequence that is put is younger than any, and has answered nothing.
LEMMA CreateSequenceStep == ASSUME SequenceInv, NEW t \in Handlers, CreateSequence(t) PROVE SequenceInv'
<1>. USE DEF SequenceInv
<1>1. /\ h' \in [Handlers -> Commands \cup {Idle}]
      /\ \A u \in Handlers : h'[u].pc = "read" => h'[u].seen.kind = "sequence"
      /\ h'[t].pc = "idle" /\ \A u \in Handlers : u # t => h'[u] = h[u]
  BY EndKept DEF Idle, CreateSequence
<1>2. /\ born \in Nat /\ born' = born + 1
      /\ UNCHANGED <<cache, spaces, ops, given, repeated, overwritten>>
  BY DEF CreateSequence, TypeOK
<1>3. PICK start \in Starts : Put(t, [kind |-> "sequence", num |-> start, born |-> born + 1])
  BY DEF CreateSequence
<1>. DEFINE i == [kind |-> "sequence", num |-> start, born |-> born + 1]
<1>4. i \in Items /\ i.born = born + 1
  BY <1>2, SequenceAssumption DEF Items
<1>5. /\ item' \in [Maps -> [Names -> Items]] /\ h[t].map \in Maps /\ h[t].name \in Names
      /\ item'[h[t].map][h[t].name] = i
      /\ \A o \in Maps, n \in Names : o # h[t].map \/ n # h[t].name => item'[o][n] = item[o][n]
      /\ \A o \in Maps, n \in Names : o > spaces => item'[o][n] = Nothing
  BY <1>3, <1>4, PutKept DEF CreateSequence, At
<1>. HIDE DEF i
<1>6. \A o \in Maps, n \in Names :
         /\ item[o][n].born \in Nat /\ item[o][n].born <= born
         /\ \/ o = h[t].map /\ n = h[t].name /\ item'[o][n].born = born + 1
            \/ item'[o][n] = item[o][n]
  <2>1. \A o \in Maps, n \in Names : item[o][n].born \in Nat
    BY DEF TypeOK, Items
  <2>. QED
    BY <1>4, <1>5, <2>1 DEF Numbered
<1>7. TypeOK'
  BY <1>1, <1>2, <1>5 DEF TypeOK
<1>8. MapsMade'
  BY <1>1, <1>2, <1>5 DEF MapsMade
<1>9. Numbered'
  <2>1. \A o \in Maps, n \in Names : item'[o][n].born <= born + 1
    BY <1>2, <1>6
  <2>2. \A u \in Handlers : h'[u].pc = "read" => h'[u].seen.born <= born + 1
    <3>1. ASSUME NEW u \in Handlers, h'[u].pc = "read" PROVE h'[u].seen.born <= born + 1
      <4>1. h'[u] = h[u] /\ h[u] # Idle
        BY <1>1, <3>1 DEF Idle
      <4>2. h[u].seen.born <= born /\ h[u].seen.born \in Nat
        BY <3>1, <4>1, CommandType DEF Numbered, Items
      <4>. QED
        BY <1>2, <4>1, <4>2
    <3>. QED
      BY <3>1
  <2>3. \A g \in given : g[1] <= born + 1
    BY <1>2 DEF Numbered, TypeOK
  <2>. QED
    BY <1>2, <2>1, <2>2, <2>3 DEF Numbered
<1>10. OnePlace'
  <2>1. ASSUME NEW o \in Maps, NEW p \in Maps, NEW n \in Names, NEW m \in Names,
               Sound(o, n)', Sound(p, m)', item'[o][n].born = item'[p][m].born
        PROVE  o = p /\ n = m
    <3>1. CASE item'[o][n].born = born + 1
      <4>1. ASSUME NEW q \in Maps, NEW k \in Names, item'[q][k].born = born + 1
            PROVE  q = h[t].map /\ k = h[t].name
        <5>1. item'[q][k] # item[q][k]
          <6>1. item[q][k].born \in Nat /\ item[q][k].born <= born
            BY <1>6
          <6>. QED
            BY <1>2, <4>1, <6>1
        <5>. QED
          BY <1>6, <5>1
      <4>. QED
        BY <2>1, <3>1, <4>1
    <3>2. CASE item'[o][n].born # born + 1
      <4>1. item'[o][n] = item[o][n] /\ item'[p][m] = item[p][m]
        BY <1>6, <2>1, <3>2
      <4>. QED
        BY <1>2, <2>1, <4>1 DEF OnePlace, Sound, IsSeq
    <3>. QED
      BY <3>1, <3>2
  <2>. QED
    BY <2>1 DEF OnePlace
<1>11. Below'
  <2>1. ASSUME NEW o \in Maps, NEW n \in Names, NEW g \in given,
               Sound(o, n)', g[1] = item'[o][n].born
        PROVE  g[2] <= item'[o][n].num
    <3>1. g[1] \in Nat /\ g[1] <= born
      BY DEF Numbered, TypeOK
    <3>2. item'[o][n] = item[o][n]
      BY <1>2, <1>6, <2>1, <3>1
    <3>. QED
      BY <1>2, <2>1, <3>2 DEF Below, Sound, IsSeq
  <2>. QED
    BY <1>2, <2>1 DEF Below
<1>12. Increasing' /\ SpaceSince'
  BY <1>1, <1>2 DEF Increasing, SpaceSince, At
<1>13. SequenceSince'
  <2>1. ASSUME NEW u \in Handlers, u # t,
               At(u, "createSequence", "checked")' \/ At(u, "createSequence", "fetched")'
        PROVE  /\ h'[u].since <= born' /\ h'[u].map \in 1 .. spaces'
               /\ \A o \in Maps : o >= h'[u].map /\ Sound(o, h[u].name)'
                                  => h'[u].since < item'[o][h'[u].name].born
    <3>1. MadeSince(u) /\ h'[u] = h[u]
      BY <1>1, <2>1 DEF SequenceSince
    <3>2. h[u] # Idle
      BY <2>1, <3>1 DEF At, Idle
    <3>3. h[u].since \in Nat /\ h[u].name \in Names
      BY <3>2, CommandType
    <3>4. h[u].since <= born /\ h[u].map \in 1 .. spaces
      BY <2>1, <3>1 DEF MadeSince, At
    <3>5. ASSUME NEW o \in Maps, o >= h[u].map, Sound(o, h[u].name)'
          PROVE  h[u].since < item'[o][h[u].name].born
      <4>1. CASE item'[o][h[u].name].born = born + 1
        BY <1>2, <3>3, <3>4, <4>1
      <4>2. CASE item'[o][h[u].name] = item[o][h[u].name]
        BY <1>2, <2>1, <3>1, <3>5, <4>2 DEF MadeSince, At, Sound, IsSeq
      <4>. QED
        BY <1>6, <3>3, <4>1, <4>2
    <3>. QED
      BY <1>2, <3>1, <3>3, <3>4, <3>5
  <2>. QED
    BY <1>1, <2>1 DEF SequenceSince, MadeSince, At
<1>. QED
  BY <1>7, <1>8, <1>9, <1>10, <1>11, <1>12, <1>13

\* The sum is larger than all the sequence has answered, unless what is there is not
\* what was read: then both are out of the invariant.
LEMMA IncrementStep == ASSUME SequenceInv, NEW t \in Handlers, Increment(t) PROVE SequenceInv'
<1>. USE DEF SequenceInv
<1>. DEFINE i == h[t].seen
            there == item[h[t].map][h[t].name]
            num == i.num + h[t].by
            put == Sum(i, h[t].by)
<1>1. /\ h' \in [Handlers -> Commands \cup {Idle}]
      /\ \A u \in Handlers : h'[u].pc = "read" => h'[u].seen.kind = "sequence"
      /\ h'[t].pc = "idle" /\ \A u \in Handlers : u # t => h'[u] = h[u]
  BY EndKept DEF Idle, Increment
<1>2. /\ h[t].pc = "read" /\ Put(t, put)
      /\ UNCHANGED <<cache, spaces, ops, born>>
      /\ overwritten' = IF there = i THEN overwritten ELSE overwritten \cup {i.born, there.born}
      /\ given' = given \cup {<<i.born, num>>}
      /\ repeated' = IF \E g \in given : g[1] = i.born /\ num <= g[2]
                     THEN repeated \cup {i.born} ELSE repeated
  BY DEF Increment
<1>3. /\ i \in Items /\ i.kind = "sequence" /\ i.born \in Nat /\ i.born <= born
      /\ i.num \in Int /\ num \in Int /\ i.num < num
  <2>1. h[t] # Idle
    BY <1>2 DEF Idle
  <2>2. i \in Items /\ h[t].by \in Nat \ {0}
    BY <2>1, CommandType
  <2>. QED
    BY <1>2, <2>2 DEF Items, TypeOK, Numbered
<1>4. put \in Items /\ put.kind = "sequence" /\ put.num = num /\ put.born = i.born
  <2>1. \A x \in Items, y \in Int : /\ [x EXCEPT !.num = y] \in Items
                                    /\ [x EXCEPT !.num = y].kind = x.kind
                                    /\ [x EXCEPT !.num = y].born = x.born
                                    /\ [x EXCEPT !.num = y].num = y
    BY DEF Items
  <2>2. put = [i EXCEPT !.num = num]
    BY <1>3 DEF Sum
  <2>. QED
    BY <1>3, <2>1, <2>2
<1>5. /\ item' \in [Maps -> [Names -> Items]] /\ h[t].map \in Maps /\ h[t].name \in Names
      /\ item'[h[t].map][h[t].name] = put
      /\ \A o \in Maps, n \in Names : o # h[t].map \/ n # h[t].name => item'[o][n] = item[o][n]
      /\ \A o \in Maps, n \in Names : o > spaces => item'[o][n] = Nothing
  BY <1>2, <1>4, PutKept
<1>6. there \in Items /\ there.born \in Nat
  BY <1>5 DEF TypeOK, Items
<1>. HIDE DEF num, put, i
\* A sequence that is still sound either was put just now, over what was read, or is as it was.
<1>7. ASSUME NEW o \in Maps, NEW n \in Names, Sound(o, n)'
      PROVE  /\ Sound(o, n) /\ item'[o][n].born = item[o][n].born
             /\ \/ o = h[t].map /\ n = h[t].name /\ item'[o][n] = put /\ item[o][n] = i
                \/ item'[o][n] = item[o][n]
  <2>1. CASE o = h[t].map /\ n = h[t].name
    <3>1. item'[o][n] = put /\ i.born \notin overwritten'
      BY <1>4, <1>5, <1>7, <2>1 DEF Sound
    <3>2. there = i
      BY <1>2, <3>1
    <3>3. item[o][n] = i /\ i.born \notin overwritten
      BY <1>2, <2>1, <3>1, <3>2
    <3>. QED
      BY <1>3, <1>4, <2>1, <3>1, <3>3 DEF Sound, IsSeq
  <2>2. CASE ~(o = h[t].map /\ n = h[t].name)
    BY <1>2, <1>5, <1>7, <2>2 DEF Sound, IsSeq
  <2>. QED
    BY <2>1, <2>2
<1>8. TypeOK'
  <2>1. given' \subseteq Nat \X Int
    BY <1>2, <1>3 DEF TypeOK
  <2>2. repeated' \subseteq Nat /\ overwritten' \subseteq Nat
    BY <1>2, <1>3, <1>6 DEF TypeOK
  <2>. QED
    BY <1>1, <1>2, <1>5, <2>1, <2>2 DEF TypeOK
<1>9. MapsMade'
  BY <1>1, <1>2, <1>5 DEF MapsMade
<1>10. Numbered'
  <2>1. \A o \in Maps, n \in Names : item'[o][n].born <= born
    BY <1>3, <1>4, <1>5 DEF Numbered
  <2>2. \A g \in given' : g[1] <= born
    BY <1>2, <1>3 DEF Numbered
  <2>. QED
    BY <1>1, <1>2, <2>1, <2>2 DEF Numbered
<1>11. OnePlace'
  BY <1>7 DEF OnePlace
<1>12. Below'
  <2>1. ASSUME NEW o \in Maps, NEW n \in Names, NEW g \in given',
               Sound(o, n)', g[1] = item'[o][n].born
        PROVE  g[2] <= item'[o][n].num
    <3>1. CASE g \in given
      <4>1. g[2] <= item[o][n].num
        BY <1>7, <2>1, <3>1 DEF Below
      <4>2. g[2] \in Int
        BY <3>1 DEF TypeOK
      <4>. QED
        BY <1>3, <1>4, <1>7, <2>1, <4>1, <4>2
    <3>2. CASE g = <<i.born, num>>
      <4>1. CASE o = h[t].map /\ n = h[t].name
        BY <1>3, <1>4, <1>5, <3>2, <4>1
      <4>2. CASE ~(o = h[t].map /\ n = h[t].name)
        \* Then what was read is elsewhere: it has been overwritten.
        <5>1. item[o][n].born = i.born /\ Sound(o, n)
          BY <1>7, <2>1, <3>2
        <5>2. i.born \notin overwritten'
          BY <1>7, <2>1, <3>2 DEF Sound
        <5>3. there = i
          BY <1>2, <5>2
        <5>4. Sound(h[t].map, h[t].name) /\ item[h[t].map][h[t].name].born = i.born
          BY <1>3, <5>1, <5>3 DEF Sound, IsSeq
        <5>. QED
          BY <1>5, <4>2, <5>1, <5>4 DEF OnePlace
      <4>. QED
        BY <4>1, <4>2
    <3>. QED
      BY <1>2, <2>1, <3>1, <3>2
  <2>. QED
    BY <2>1 DEF Below
<1>13. Increasing'
  <2>1. overwritten \subseteq overwritten'
    BY <1>2
  <2>2. ASSUME NEW g \in given, g[1] = i.born, num <= g[2] PROVE i.born \in overwritten'
    <3>1. CASE there = i
      <4>1. ASSUME i.born \notin overwritten PROVE FALSE
        <5>1. Sound(h[t].map, h[t].name) /\ item[h[t].map][h[t].name] = i
          BY <1>3, <3>1, <4>1 DEF Sound, IsSeq
        <5>2. g[2] <= i.num
          BY <1>5, <2>2, <5>1 DEF Below
        <5>3. g[2] \in Int
          BY DEF TypeOK
        <5>. QED
          BY <1>3, <2>2, <5>2, <5>3
      <4>. QED
        BY <2>1, <4>1
    <3>2. CASE there # i
      BY <1>2, <3>2
    <3>. QED
      BY <3>1, <3>2
  <2>. QED
    BY <1>2, <2>1, <2>2 DEF Increasing
<1>14. SpaceSince'
  BY <1>1, <1>2 DEF SpaceSince, At
<1>15. SequenceSince'
  <2>1. ASSUME NEW u \in Handlers PROVE MadeSince(u)'
    <3>1. CASE u = t
      BY <1>1, <3>1 DEF MadeSince, At
    <3>2. CASE u # t
      <4>1. MadeSince(u) /\ h'[u] = h[u]
        BY <1>1, <3>2 DEF SequenceSince
      <4>2. At(u, "createSequence", "checked") \/ At(u, "createSequence", "fetched") => h[u].name \in Names
        BY CommandType DEF At, Idle
      <4>. QED
        BY <1>2, <1>7, <4>1, <4>2 DEF MadeSince, At
    <3>. QED
      BY <3>1, <3>2
  <2>. QED
    BY <2>1 DEF SequenceSince
<1>. QED
  BY <1>8, <1>9, <1>10, <1>11, <1>12, <1>13, <1>14, <1>15

--------------------------------------------------------------------------------
LEMMA NextHolds == SequenceInv /\ [Next]_vars => SequenceInv'
<1>. SUFFICES ASSUME SequenceInv, [Next]_vars PROVE SequenceInv'
  OBVIOUS
<1>1. ASSUME NEW t \in Handlers, Step(t) PROVE SequenceInv'
  <2>1. CASE Begin(t) \/ Check(t)
    BY <2>1, BeginStep, CheckStep
  <2>2. CASE Refuse(t) \/ NoSpace(t)
    BY <2>2, EndStep DEF Refuse, NoSpace
  <2>3. CASE CreateSpace(t) \/ DeleteSpace(t) \/ Fetch(t)
    BY <2>3, CreateSpaceStep, DeleteSpaceStep, FetchStep
  <2>4. CASE CreateSequence(t) \/ Read(t) \/ Increment(t)
    BY <2>4, CreateSequenceStep, ReadStep, IncrementStep
  <2>5. CASE CreateStore(t)
    BY <2>5, ClearStep DEF CreateStore, At
  <2>6. CASE Remove(t)
    BY <2>6, ClearStep DEF Remove, At
  <2>. QED
    BY <1>1, <2>1, <2>2, <2>3, <2>4, <2>5, <2>6 DEF Step
<1>2. CASE UNCHANGED vars
  BY <1>2 DEF vars, SequenceInv, TypeOK, MapsMade, Numbered, OnePlace, Below, Increasing,
              SpaceSince, SequenceSince, MadeSince, At, Sound, IsSeq
<1>. QED
  BY <1>1, <1>2 DEF Next

\* The invariant that carries both properties.
THEOREM SequenceCorrect == Spec => []SequenceInv
BY InitHolds, NextHolds, PTL DEF Spec

THEOREM TypeCorrect == Spec => []TypeOK
<1>1. SequenceInv => TypeOK
  BY DEF SequenceInv
<1>. QED
  BY <1>1, SequenceCorrect, PTL

\* The numbers a sequence answers increase, whoever asks and whatever map it is in,
\* unless an increment has put over what it had not read.
THEOREM IncreasingCorrect == Spec => []Increasing
<1>1. SequenceInv => Increasing
  BY DEF SequenceInv
<1>. QED
  BY <1>1, SequenceCorrect, PTL

\* What CreatedOnce says of one step.
StepCreatesOnce ==
    /\ cache # 0 /\ cache' \notin {0, cache} =>
          \E t \in Handlers : At(t, "createSpace", "checked") /\ h[t].since < cache
    /\ \A o \in Maps, n \in Names :
          /\ item[o][n].kind = "sequence" /\ item[o][n].born \notin overwritten
          /\ item'[o][n].kind = "sequence" /\ item'[o][n].born = born + 1
          => \E t \in Handlers : /\ At(t, "createSequence", "fetched")
                                 /\ h[t].map = o /\ h[t].name = n /\ h[t].since < item[o][n].born

LEMMA StepCreates == ASSUME SequenceInv, SequenceInv', [Next]_vars PROVE StepCreatesOnce
<1>1. ASSUME cache # 0, cache' \notin {0, cache}
      PROVE  \E t \in Handlers : At(t, "createSpace", "checked") /\ h[t].since < cache
  <2>1. PICK t \in Handlers : CreateSpace(t)
    BY <1>1 DEF Next, Step, vars, Begin, Refuse, Check, DeleteSpace, Fetch, NoSpace,
                CreateSequence, CreateStore, Remove, Read, Increment
  <2>. QED
    BY <1>1, <2>1 DEF CreateSpace, SequenceInv, SpaceSince
<1>2. ASSUME NEW o \in Maps, NEW n \in Names,
             item[o][n].kind = "sequence", item[o][n].born \notin overwritten,
             item'[o][n].kind = "sequence", item'[o][n].born = born + 1
      PROVE  \E t \in Handlers : /\ At(t, "createSequence", "fetched")
                                 /\ h[t].map = o /\ h[t].name = n /\ h[t].since < item[o][n].born
  <2>1. born \in Nat /\ item'[o][n].born <= born' /\ item[o][n].born <= born
    BY DEF SequenceInv, TypeOK, Numbered
  <2>2. born' # born
    BY <1>2, <2>1
  <2>3. PICK t \in Handlers : CreateSequence(t)
    BY <2>2 DEF Next, Step, vars, Begin, Refuse, Check, CreateSpace, DeleteSpace, Fetch, NoSpace,
                CreateStore, Remove, Read, Increment
  <2>4. PICK start \in Starts : Put(t, [kind |-> "sequence", num |-> start, born |-> born + 1])
    BY <2>3 DEF CreateSequence
  <2>5. [kind |-> "sequence", num |-> start, born |-> born + 1] \in Items
    BY <2>1, SequenceAssumption DEF Items
  <2>6. At(t, "createSequence", "fetched") /\ h[t].pc = "fetched"
    BY <2>3 DEF CreateSequence, At
  <2>7. o = h[t].map /\ n = h[t].name
    <3>1. item'[o][n] # item[o][n]
      BY <1>2, <2>1 DEF SequenceInv, TypeOK, Items
    <3>. QED
      BY <2>4, <2>5, <2>6, <3>1, PutKept
  <2>8. h[t].since < item[o][n].born
    <3>1. MadeSince(t) /\ Sound(o, n) /\ o \in Int
      BY <1>2 DEF SequenceInv, SequenceSince, Sound, IsSeq, Maps
    <3>. QED
      BY <2>6, <2>7, <3>1 DEF MadeSince
  <2>. QED
    BY <2>6, <2>7, <2>8
<1>. QED
  BY <1>1, <1>2 DEF StepCreatesOnce

\* A sequence starts anew, and a space is emptied, only by a creation that had checked
\* before what it replaces was made.
THEOREM CreatedOnceCorrect == Spec => CreatedOnce
<1>1. SequenceInv /\ SequenceInv' /\ [Next]_vars => [StepCreatesOnce]_vars
  BY StepCreates
<1>. QED
  BY <1>1, SequenceCorrect, PTL DEF Spec, CreatedOnce, StepCreatesOnce

================================================================================
