---------------------------- MODULE PictureProofs ----------------------------
(***************************************************************************)
(* Picture files: no reader returns a part of a picture, Radiance pictures *)
(* come back as they were written and then settle, JPEG pictures reach     *)
(* their files and give back their comments and profiles, and PNG pixels   *)
(* are in the layout asked for; for every picture, every size of profile   *)
(* and every device.                                                       *)
(*                                                                         *)
(* The argument is about positions.  What has left the writer (done: on    *)
(* the device or in the buffer) and what is still to be written are, in    *)
(* this order, the items of the picture, as long as nothing is lost; what  *)
(* a failure or a kill leaves is a beginning of done with at most one torn *)
(* item behind it.  A reader finds the rows by the place of what announces *)
(* them, which is where it was; and the lines in front of them, if their   *)
(* end is there, are all the lines that were written, with their meaning.  *)
(* Of the markers of a JPEG file, which other programs move, only the set  *)
(* and the number of those of a profile count.                             *)
(***************************************************************************)
EXTENDS PictureFiles, SequenceTheorems, NatLemmas

(* Sequences of anything. *)
LEMMA ArrayOf ==
  ASSUME NEW S, NEW s \in Seq(S)
  PROVE  Array(s)
<1>1. Len(s) \in Nat /\ s \in [1 .. Len(s) -> S] /\ DOMAIN s = 1 .. Len(s)
  BY LenProperties
<1>2. s \in [1 .. Len(s) -> {s[i] : i \in DOMAIN s}]
  BY <1>1
<1> QED
  BY <1>1, <1>2, SeqDef DEF Array

LEMMA ArrayFacts ==
  ASSUME NEW s, Array(s)
  PROVE  Len(s) \in Nat /\ DOMAIN s = 1 .. Len(s) /\ s = [i \in 1 .. Len(s) |-> s[i]]
<1>1. PICK S : S = {s[i] : i \in DOMAIN s}
  OBVIOUS
<1>2. s \in Seq(S)
  BY <1>1 DEF Array
<1> QED
  BY <1>2, LenProperties

LEMMA ArrayIn ==
  ASSUME NEW s, Array(s), NEW S, \A i \in 1 .. Len(s) : s[i] \in S
  PROVE  s \in Seq(S)
<1>1. Len(s) \in Nat /\ s = [i \in 1 .. Len(s) |-> s[i]]
  BY ArrayFacts
<1>2. s \in [1 .. Len(s) -> S]
  BY <1>1
<1> QED
  BY <1>1, <1>2, SeqDef

LEMMA FunctionArray ==
  ASSUME NEW n \in Nat, NEW f, f = [i \in 1 .. n |-> f[i]]
  PROVE  Array(f) /\ Len(f) = n
<1>1. f \in [1 .. n -> {f[i] : i \in 1 .. n}]
  OBVIOUS
<1>2. f \in Seq({f[i] : i \in 1 .. n})
  BY <1>1, SeqDef
<1> QED
  BY <1>1, <1>2, ArrayOf, LenProperties

LEMMA ArraysEqual ==
  ASSUME NEW s, NEW t, Array(s), Array(t), Len(s) = Len(t),
         \A i \in 1 .. Len(s) : s[i] = t[i]
  PROVE  s = t
BY ArrayFacts

(* r is s, and t behind it. *)
Joined(r, s, t) ==
  /\ Array(r) /\ Len(r) = Len(s) + Len(t)
  /\ \A i \in 1 .. Len(s) : r[i] = s[i]
  /\ \A i \in 1 .. Len(t) : r[Len(s) + i] = t[i]

LEMMA ConcatArray ==
  ASSUME NEW s, NEW t, Array(s), Array(t)
  PROVE  Joined(s \o t, s, t)
<1>1. PICK S : S = {s[i] : i \in DOMAIN s} \cup {t[i] : i \in DOMAIN t}
  OBVIOUS
<1>2. Len(s) \in Nat /\ Len(t) \in Nat
  BY ArrayFacts
<1>3. s \in Seq(S) /\ t \in Seq(S)
  <2>1. \A i \in 1 .. Len(s) : s[i] \in S
    BY <1>1, ArrayFacts
  <2>2. \A i \in 1 .. Len(t) : t[i] \in S
    BY <1>1, ArrayFacts
  <2> QED
    BY <2>1, <2>2, ArrayIn
<1>4. PICK r : r = s \o t
  OBVIOUS
<1>5. /\ r \in Seq(S) /\ Len(r) = Len(s) + Len(t)
      /\ \A i \in 1 .. Len(s) + Len(t) : r[i] = IF i <= Len(s) THEN s[i] ELSE t[i - Len(s)]
  BY <1>3, <1>4, ConcatProperties
<1>6. ASSUME NEW i \in 1 .. Len(t) PROVE r[Len(s) + i] = t[i]
  <2>1. /\ Len(s) + i \in 1 .. Len(s) + Len(t) /\ ~(Len(s) + i <= Len(s))
        /\ (Len(s) + i) - Len(s) = i
    BY <1>2
  <2> QED
    BY <1>5, <2>1
<1>7. \A i \in 1 .. Len(s) : r[i] = s[i]
  BY <1>2, <1>5
<1>8. Array(r)
  BY <1>5, ArrayOf
<1> QED
  BY <1>4, <1>5, <1>6, <1>7, <1>8 DEF Joined

LEMMA SingleArray ==
  /\ Array(<<>>) /\ Len(<<>>) = 0
  /\ \A x : Array(<<x>>) /\ Len(<<x>>) = 1 /\ <<x>>[1] = x
<1>1. <<>> \in Seq({0}) /\ Len(<<>>) = 0
  OBVIOUS
<1>2. ASSUME NEW x PROVE <<x>> \in Seq({x}) /\ Len(<<x>>) = 1 /\ <<x>>[1] = x
  OBVIOUS
<1> QED
  BY <1>1, <1>2, ArrayOf

LEMMA AppendArray ==
  ASSUME NEW s, Array(s), NEW x
  PROVE  /\ Array(Append(s, x)) /\ Len(Append(s, x)) = Len(s) + 1
         /\ \A i \in 1 .. Len(s) : Append(s, x)[i] = s[i]
         /\ Append(s, x)[Len(s) + 1] = x
<1>1. PICK S : S = {s[i] : i \in DOMAIN s} \cup {x}
  OBVIOUS
<1>2. s \in Seq(S) /\ x \in S
  <2>1. \A i \in 1 .. Len(s) : s[i] \in S
    BY <1>1, ArrayFacts
  <2> QED
    BY <1>1, <2>1, ArrayIn
<1>3. Append(s, x) \in Seq(S)
  BY <1>2
<1>4. Array(Append(s, x))
  BY <1>3, ArrayOf
<1> QED
  BY <1>2, <1>4

LEMMA TailArray ==
  ASSUME NEW s, Array(s), s # <<>>
  PROVE  /\ Len(s) > 0 /\ Head(s) = s[1]
         /\ Array(Tail(s)) /\ Len(Tail(s)) = Len(s) - 1
         /\ \A i \in 1 .. Len(s) - 1 : Tail(s)[i] = s[i + 1]
<1>1. PICK S : s \in Seq(S)
  BY DEF Array
<1>2. Tail(s) \in Seq(S) /\ Len(Tail(s)) = Len(s) - 1 /\ Len(s) > 0
  BY <1>1
<1>3. Array(Tail(s))
  BY <1>2, ArrayOf
<1> QED
  BY <1>1, <1>2, <1>3, HeadTailProperties

(* r is the part of s from the m-th element to the n-th. *)
IsPart(r, s, m, n) ==
  /\ Array(r) /\ Len(r) = IF m <= n THEN n - m + 1 ELSE 0
  /\ \A i \in 1 .. n - m + 1 : r[i] = s[(m - 1) + i]

LEMMA SubSeqArray ==
  ASSUME NEW s, Array(s), NEW m \in Nat, NEW n \in Int, m > 0, n <= Len(s)
  PROVE  IsPart(SubSeq(s, m, n), s, m, n)
<1>1. PICK S : S = {s[i] : i \in DOMAIN s}
  OBVIOUS
<1>2. Len(s) \in Nat /\ DOMAIN s = 1 .. Len(s)
  BY ArrayFacts
<1>3. \A i \in m .. n : s[i] \in S
  BY <1>1, <1>2
<1>4. PICK r : r = SubSeq(s, m, n)
  OBVIOUS
<1>5. /\ r \in Seq(S) /\ Len(r) = IF m <= n THEN n - m + 1 ELSE 0
      /\ \A i \in 1 .. n - m + 1 : r[i] = s[m + i - 1]
  BY <1>3, <1>4, SubSeqProperties
<1>6. \A i \in 1 .. n - m + 1 : m + i - 1 = (m - 1) + i
  OBVIOUS
<1> QED
  BY <1>4, <1>5, <1>6, ArrayOf DEF IsPart

-----------------------------------------------------------------------------
(* The stream: what has been written, done, and what is left of it.        *)
Streams == Array(disk) /\ Array(buf) /\ Array(todo)

Done == disk \o buf

Grown(g, f, x) ==
  /\ Array(g) /\ Len(g) = Len(f) + 1
  /\ \A i \in 1 .. Len(f) : g[i] = f[i]
  /\ g[Len(f) + 1] = x

(* g is a beginning of f, of which the last item may be torn.              *)
Damaged(g, f) ==
  /\ Array(g) /\ Len(g) <= Len(f)
  /\ \A i \in 1 .. Len(g) : g[i] \in {f[i], Torn}
  /\ \A i \in 1 .. Len(g) - 1 : g[i] = f[i]

LEMMA PartOfItems ==
  ASSUME NEW s, Array(s), NEW part \in {s, <<>>} \cup PartsOf(s)
  PROVE  Damaged(part, s)
<1>1. Len(s) \in Nat
  BY ArrayFacts
<1>2. CASE part = s
  BY <1>1, <1>2 DEF Damaged
<1>3. CASE part = <<>>
  BY <1>1, <1>3, SingleArray DEF Damaged
<1>4. CASE part \in PartsOf(s)
  <2>1. PICK k \in 0 .. Len(s) - 1 :
          part = SubSeq(s, 1, k) \/ part = Append(SubSeq(s, 1, k), Torn)
    BY <1>4 DEF PartsOf
  <2>2. PICK h : h = SubSeq(s, 1, k)
    OBVIOUS
  <2>3. Array(h) /\ Len(h) = k /\ \A i \in 1 .. k : h[i] = s[i]
    <3>1. PICK one \in Nat : one = 1
      OBVIOUS
    <3>2. IsPart(h, s, one, k)
      BY <1>1, <2>2, <3>1, SubSeqArray
    <3> QED
      BY <3>1, <3>2 DEF IsPart
  <2>4. CASE part = h
    BY <1>1, <2>1, <2>3, <2>4 DEF Damaged
  <2>5. CASE part = Append(h, Torn)
    <3>1. /\ Array(part) /\ Len(part) = k + 1 /\ part[k + 1] = Torn
          /\ \A i \in 1 .. k : part[i] = h[i]
      BY <2>3, <2>5, AppendArray
    <3> QED
      BY <1>1, <2>1, <2>3, <3>1 DEF Damaged
  <2> QED
    BY <2>1, <2>2, <2>4, <2>5
<1> QED
  BY <1>2, <1>3, <1>4

LEMMA JoinDamaged ==
  ASSUME NEW a, NEW s, NEW part, Array(a), Array(s), Damaged(part, s)
  PROVE  Damaged(a \o part, a \o s)
<1>1. Len(a) \in Nat /\ Len(s) \in Nat /\ Len(part) \in Nat /\ Array(part)
  BY ArrayFacts DEF Damaged
<1>2. PICK g : g = a \o part /\ Joined(g, a, part)
  BY <1>1, ConcatArray
<1>3. PICK f : f = a \o s /\ Joined(f, a, s)
  BY ConcatArray
<1>4. Array(g) /\ Len(g) <= Len(f)
  BY <1>1, <1>2, <1>3 DEF Joined, Damaged
<1>5. ASSUME NEW i \in 1 .. Len(g)
      PROVE  g[i] \in {f[i], Torn} /\ (i < Len(g) => g[i] = f[i])
  <2>1. CASE i <= Len(a)
    BY <1>1, <1>2, <1>3, <1>5, <2>1 DEF Joined
  <2>2. CASE i > Len(a)
    <3>1. PICK j \in 1 .. Len(part) : i = Len(a) + j
      <4>1. i - Len(a) \in 1 .. Len(part) /\ i = Len(a) + (i - Len(a))
        BY <1>1, <1>2, <1>5, <2>2 DEF Joined
      <4> QED
        BY <4>1
    <3>2. j \in 1 .. Len(s) /\ part[j] \in {s[j], Torn}
      BY <1>1, <3>1 DEF Damaged
    <3>3. g[i] = part[j] /\ f[i] = s[j]
      BY <1>2, <1>3, <3>1, <3>2 DEF Joined
    <3>4. i < Len(g) => part[j] = s[j]
      <4>1. i < Len(g) => j \in 1 .. Len(part) - 1
        BY <1>1, <1>2, <3>1 DEF Joined
      <4> QED
        BY <4>1 DEF Damaged
    <3> QED
      BY <3>2, <3>3, <3>4
  <2> QED
    BY <1>1, <1>5, <2>1, <2>2
<1>6. \A i \in 1 .. Len(g) - 1 : i \in 1 .. Len(g) /\ i < Len(g)
  BY <1>4, ArrayFacts
<1> QED
  BY <1>2, <1>3, <1>4, <1>5, <1>6 DEF Damaged

(* The next item is behind what has been written, or, if that fails, what  *)
(* is left of both is on the device.                                       *)
LEMMA PutStep ==
  ASSUME Streams, todo # <<>>, NEW failed \in BOOLEAN, Put(failed)
  PROVE  /\ Streams' /\ Len(todo') = Len(todo) - 1
         /\ \A i \in 1 .. Len(todo) - 1 : todo'[i] = todo[i + 1]
         /\ ~failed => Grown(Done', Done, todo[1]) /\ ferror' = ferror
         /\ failed => /\ Done' = disk'
                      /\ \E f : Grown(f, Done, todo[1]) /\ Damaged(disk', f)
<1>1. Array(disk) /\ Array(buf) /\ Array(todo)
  BY DEF Streams
<1>2. /\ Head(todo) = todo[1] /\ Array(Tail(todo)) /\ Len(Tail(todo)) = Len(todo) - 1
      /\ \A i \in 1 .. Len(todo) - 1 : Tail(todo)[i] = todo[i + 1]
  BY <1>1, TailArray
<1>3. PICK items : items = Append(buf, todo[1])
  OBVIOUS
<1>4. /\ todo' = Tail(todo)
      /\ \/ ~failed /\ buf' = items /\ UNCHANGED <<disk, ferror>>
         \/ ~failed /\ buf' = <<>> /\ disk' = disk \o items /\ UNCHANGED ferror
         \/ /\ failed /\ buf' = <<>>
            /\ \E part \in PartsOf(items) : disk' = disk \o part
  BY <1>2, <1>3 DEF Put
<1>5. /\ Array(items) /\ Len(items) = Len(buf) + 1 /\ items[Len(buf) + 1] = todo[1]
      /\ \A i \in 1 .. Len(buf) : items[i] = buf[i]
  BY <1>1, <1>3, AppendArray
<1>6. PICK f : f = disk \o items /\ Joined(f, disk, items)
  BY <1>1, <1>5, ConcatArray
<1>7. Grown(f, Done, todo[1])
  <2>1. PICK d : d = Done /\ Joined(d, disk, buf)
    BY <1>1, ConcatArray DEF Done
  <2>2. Len(disk) \in Nat /\ Len(buf) \in Nat
    BY <1>1, ArrayFacts
  <2>3. Array(f) /\ Len(f) = Len(d) + 1
    BY <1>5, <1>6, <2>1, <2>2 DEF Joined
  <2>4. ASSUME NEW i \in 1 .. Len(d) PROVE f[i] = d[i]
    <3>1. CASE i <= Len(disk)
      BY <1>6, <2>1, <2>2, <2>4, <3>1 DEF Joined
    <3>2. CASE i > Len(disk)
      <4>1. PICK j \in 1 .. Len(buf) : i = Len(disk) + j
        <5>1. i - Len(disk) \in 1 .. Len(buf) /\ i = Len(disk) + (i - Len(disk))
          BY <2>1, <2>2, <2>4, <3>2 DEF Joined
        <5> QED
          BY <5>1
      <4>2. j \in 1 .. Len(items)
        BY <1>5, <2>2, <4>1
      <4>3. f[i] = items[j] /\ d[i] = buf[j]
        BY <1>6, <2>1, <4>1, <4>2 DEF Joined
      <4> QED
        BY <1>5, <4>1, <4>3
    <3> QED
      BY <2>1, <2>2, <2>4, <3>1, <3>2 DEF Joined
  <2>5. f[Len(d) + 1] = todo[1]
    <3>1. Len(d) + 1 = Len(disk) + (Len(buf) + 1) /\ Len(buf) + 1 \in 1 .. Len(items)
      BY <1>5, <2>1, <2>2 DEF Joined
    <3> QED
      BY <1>5, <1>6, <3>1 DEF Joined
  <2> QED
    BY <2>1, <2>3, <2>4, <2>5 DEF Grown
<1>8. \A s : Array(s) => s \o <<>> = s
  BY ConcatEmptySeq DEF Array
<1>9. CASE ~failed
  <2>1. Array(disk') /\ Array(buf')
    BY <1>1, <1>4, <1>5, <1>6, <1>9, SingleArray DEF Joined
  <2>2. Done' = f
    BY <1>4, <1>6, <1>8, <1>9 DEF Done, Joined
  <2> QED
    BY <1>2, <1>4, <1>7, <1>9, <2>1, <2>2 DEF Streams
<1>10. CASE failed
  <2>1. PICK part \in PartsOf(items) : disk' = disk \o part
    BY <1>4, <1>10
  <2>2. Damaged(part, items)
    BY <1>5, <2>1, PartOfItems
  <2>3. Damaged(disk', f)
    BY <1>1, <1>5, <1>6, <2>1, <2>2, JoinDamaged
  <2>4. Array(disk') /\ buf' = <<>>
    BY <1>4, <1>10, <2>3 DEF Damaged
  <2>5. Done' = disk'
    BY <1>8, <2>4 DEF Done
  <2> QED
    BY <1>2, <1>4, <1>7, <1>10, <2>3, <2>4, <2>5, SingleArray DEF Streams
<1> QED
  BY <1>9, <1>10

(* The end of a stream, and that of its writer. *)
LEMMA DrainStep ==
  ASSUME Streams, NEW failed \in BOOLEAN, Drain(failed)
  PROVE  Streams' /\ Damaged(disk', Done) /\ (~failed => disk' = Done /\ ferror' = ferror)
<1>1. Array(disk) /\ Array(buf)
  BY DEF Streams
<1>2. /\ buf' = <<>> /\ todo' = todo
      /\ \E part \in {buf, <<>>} \cup PartsOf(buf) : disk' = disk \o part
      /\ ~failed => disk' = Done /\ ferror' = ferror
  BY DEF Drain, Done
<1>3. Damaged(disk', Done)
  BY <1>1, <1>2, PartOfItems, JoinDamaged DEF Done
<1> QED
  BY <1>2, <1>3, SingleArray DEF Streams, Damaged

LEMMA KilledStep ==
  ASSUME Streams, Killed
  PROVE  Streams' /\ Damaged(disk', Done)
<1>1. Array(disk) /\ Array(buf)
  BY DEF Streams
<1>2. /\ buf' = <<>> /\ todo' = <<>>
      /\ \E part \in {buf, <<>>} \cup PartsOf(buf) : disk' = disk \o part
  BY DEF Killed
<1>3. Damaged(disk', Done)
  BY <1>1, <1>2, PartOfItems, JoinDamaged DEF Done
<1> QED
  BY <1>2, <1>3, SingleArray DEF Streams, Damaged

-----------------------------------------------------------------------------
(* The writers of JPEG and PNG pictures, which stop at an error: what is   *)
(* done and what is left are the items of the picture.                     *)
Items == IF suffix = ".hdr" THEN RadianceItems(picture)
         ELSE IF suffix = ".jpg" THEN JpegItems(picture) ELSE PngItems(picture)

(* All items behind the k-th are still to be written.                      *)
Left(k) == /\ k \in Nat /\ Array(Items) /\ Len(todo) = Len(Items) - k
           /\ \A i \in 1 .. Len(todo) : todo[i] = Items[k + i]

InOrder == /\ Left(Len(Done)) /\ \A i \in 1 .. Len(Done) : Done[i] = Items[i]

LEMMA DoneArray ==
  ASSUME Streams
  PROVE  /\ Array(Done) /\ Len(Done) \in Nat /\ Len(todo) \in Nat
         /\ todo # <<>> => 1 \in 1 .. Len(todo)
         /\ todo = <<>> => Len(todo) = 0
<1>1. Array(disk) /\ Array(buf) /\ Array(todo)
  BY DEF Streams
<1>2. Array(Done)
  BY <1>1, ConcatArray DEF Done, Joined
<1>3. Len(Done) \in Nat /\ Len(todo) \in Nat
  BY <1>1, <1>2, ArrayFacts
<1>4. todo # <<>> => Len(todo) > 0
  BY <1>1, TailArray
<1> QED
  BY <1>2, <1>3, <1>4, SingleArray

LEMMA LeftStep ==
  ASSUME Streams, NEW k, Left(k), todo # <<>>, Items' = Items, Len(todo') = Len(todo) - 1,
         \A i \in 1 .. Len(todo) - 1 : todo'[i] = todo[i + 1]
  PROVE  Left(k + 1)' /\ todo[1] = Items[k + 1] /\ k + 1 <= Len(Items)
<1>1. /\ k \in Nat /\ Array(Items) /\ Len(todo) = Len(Items) - k
      /\ \A i \in 1 .. Len(todo) : todo[i] = Items[k + i]
  BY DEF Left
<1>2. Len(todo) \in Nat /\ Len(todo) > 0
  BY DoneArray
<1>3. PICK a \in Nat : a = Len(Items)
  BY <1>1, ArrayFacts
<1>4. Len(todo') = a - (k + 1) /\ k + 1 <= a
  BY <1>1, <1>2, <1>3
<1>5. ASSUME NEW i \in 1 .. Len(todo') PROVE todo'[i] = Items[(k + 1) + i]
  <2>1. i \in 1 .. Len(todo) - 1 /\ i + 1 \in 1 .. Len(todo) /\ k + (i + 1) = (k + 1) + i
    BY <1>1, <1>2
  <2> QED
    BY <1>1, <2>1
<1>6. todo[1] = Items[k + 1]
  BY <1>1, <1>2
<1> QED
  BY <1>1, <1>3, <1>4, <1>5, <1>6 DEF Left

(* An item more, or what a failure leaves.                                 *)
LEMMA InOrderPut ==
  ASSUME Streams, InOrder, todo # <<>>, NEW failed \in BOOLEAN, Put(failed), Items' = Items
  PROVE  (~failed => InOrder') /\ (failed => Damaged(disk', Items))
<1>1. /\ Array(Done) /\ Len(Done) \in Nat /\ Left(Len(Done))
      /\ \A i \in 1 .. Len(Done) : Done[i] = Items[i]
  BY DoneArray DEF InOrder
<1>2. PICK k \in Nat : k = Len(Done)
  BY <1>1
<1>3. /\ Len(todo') = Len(todo) - 1 /\ \A i \in 1 .. Len(todo) - 1 : todo'[i] = todo[i + 1]
      /\ ~failed => Grown(Done', Done, todo[1])
      /\ failed => \E f : Grown(f, Done, todo[1]) /\ Damaged(disk', f)
  BY PutStep
<1>4. Left(k + 1)' /\ todo[1] = Items[k + 1] /\ k + 1 <= Len(Items)
  BY <1>1, <1>2, <1>3, LeftStep
<1>5. ASSUME NEW f, Grown(f, Done, todo[1])
      PROVE  Len(f) = k + 1 /\ \A i \in 1 .. Len(f) : f[i] = Items[i]
  BY <1>1, <1>2, <1>4, <1>5 DEF Grown
<1>6. CASE ~failed
  <2>1. Len(Done') = k + 1 /\ \A i \in 1 .. Len(Done') : Done'[i] = Items[i]
    BY <1>3, <1>5, <1>6
  <2> QED
    BY <1>4, <1>6, <2>1 DEF InOrder
<1>7. CASE failed
  <2>1. PICK f : Grown(f, Done, todo[1]) /\ Damaged(disk', f)
    BY <1>3, <1>7
  <2>2. Len(f) = k + 1 /\ \A i \in 1 .. Len(f) : f[i] = Items[i]
    BY <1>5, <2>1
  <2>3. Array(disk') /\ Len(disk') <= k + 1 /\ Len(disk') \in Nat
    BY <2>1, <2>2, ArrayFacts DEF Damaged
  <2>4. Len(Items) \in Nat
    BY <1>1, ArrayFacts DEF Left
  <2>5. ASSUME NEW i \in 1 .. Len(disk')
        PROVE  disk'[i] \in {Items[i], Torn} /\ (i < Len(disk') => disk'[i] = Items[i])
    <3>1. i \in 1 .. Len(f) /\ (i < Len(disk') => i \in 1 .. Len(disk') - 1)
      BY <2>2, <2>3
    <3>2. disk'[i] \in {f[i], Torn} /\ (i < Len(disk') => disk'[i] = f[i]) /\ f[i] = Items[i]
      BY <2>1, <2>2, <3>1 DEF Damaged
    <3> QED
      BY <3>2
  <2>6. Len(disk') <= Len(Items)
    BY <1>4, <2>3, <2>4
  <2>7. \A i \in 1 .. Len(disk') - 1 : i \in 1 .. Len(disk') /\ i < Len(disk')
    BY <2>3
  <2> QED
    BY <1>7, <2>3, <2>5, <2>6, <2>7 DEF Damaged
<1> QED
  BY <1>6, <1>7

LEMMA InOrderDamaged ==
  ASSUME Streams, InOrder, NEW g, Damaged(g, Done)
  PROVE  Damaged(g, Items)
<1>1. /\ Len(Done) \in Nat /\ Len(todo) \in Nat /\ Array(Items)
      /\ Len(todo) = Len(Items) - Len(Done)
      /\ \A i \in 1 .. Len(Done) : Done[i] = Items[i]
  BY DoneArray DEF InOrder, Left
<1>2. Array(g) /\ Len(g) <= Len(Done) /\ \A i \in 1 .. Len(g) : g[i] \in {Done[i], Torn}
  BY DEF Damaged
<1>3. Len(g) \in Nat /\ Len(Items) \in Nat
  BY <1>1, <1>2, ArrayFacts
<1> QED
  BY <1>1, <1>2, <1>3 DEF Damaged

LEMMA InOrderDone ==
  ASSUME Streams, InOrder, todo = <<>>
  PROVE  Done = Items
<1>1. /\ Array(Done) /\ Len(Done) \in Nat /\ Len(todo) = 0 /\ Array(Items)
      /\ Len(todo) = Len(Items) - Len(Done)
      /\ \A i \in 1 .. Len(Done) : Done[i] = Items[i]
  BY DoneArray DEF InOrder, Left
<1>2. Len(Items) \in Nat
  BY <1>1, ArrayFacts
<1>3. Len(Items) = Len(Done)
  BY <1>1, <1>2
<1> QED
  BY <1>1, <1>3, ArraysEqual

-----------------------------------------------------------------------------
(* PNG pictures. *)
Row(p, j) == [kind |-> "row", row |-> p.rows[j]]

LEMMA RowItemsArray ==
  ASSUME NEW p, Array(p.rows)
  PROVE  /\ Array(RowItems(p.rows)) /\ Len(RowItems(p.rows)) = Len(p.rows)
         /\ \A j \in 1 .. Len(p.rows) : RowItems(p.rows)[j] = Row(p, j)
<1>1. PICK n \in Nat : n = Len(p.rows)
  BY ArrayFacts
<1>2. RowItems(p.rows) = [i \in 1 .. n |-> [kind |-> "row", row |-> p.rows[i]]]
  BY <1>1 DEF RowItems
<1>3. PICK r : r = RowItems(p.rows)
  OBVIOUS
<1>4. r = [i \in 1 .. n |-> r[i]]
  BY <1>2, <1>3
<1>5. Array(r) /\ Len(r) = n
  BY <1>4, FunctionArray
<1> QED
  BY <1>1, <1>2, <1>3, <1>5 DEF Row

IsPng(f, p) ==
  /\ Array(f) /\ Len(f) = Len(p.rows) + 2
  /\ f[1] = [kind |-> "IHDR", format |-> p.format, rows |-> Len(p.rows)]
  /\ \A j \in 1 .. Len(p.rows) : f[j + 1] = Row(p, j)

LEMMA PngItemsAre ==
  ASSUME NEW p, Array(p.rows)
  PROVE  IsPng(PngItems(p), p)
<1>1. PICK n \in Nat : n = Len(p.rows)
  BY ArrayFacts
<1>2. PICK r : /\ r = RowItems(p.rows) /\ Array(r) /\ Len(r) = n
               /\ \A j \in 1 .. n : r[j] = Row(p, j)
  BY <1>1, RowItemsArray
<1>3. PICK x : x = [kind |-> "IHDR", format |-> p.format, rows |-> n]
  OBVIOUS
<1>4. PICK y : y = [kind |-> "IEND"]
  OBVIOUS
<1>5. PICK a : a = <<x>> /\ Array(a) /\ Len(a) = 1 /\ a[1] = x
  BY SingleArray
<1>6. PICK b : b = <<y>> /\ Array(b) /\ Len(b) = 1
  BY SingleArray
<1>7. PICK g : g = a \o r /\ Joined(g, a, r)
  BY <1>2, <1>5, ConcatArray
<1>garr. Array(g)
  BY <1>7 DEF Joined
<1>8. PICK f : f = g \o b /\ Joined(f, g, b)
  BY <1>6, <1>garr, ConcatArray
<1>9. f = PngItems(p)
  BY <1>1, <1>2, <1>3, <1>4, <1>5, <1>6, <1>7, <1>8 DEF PngItems
<1>10. Array(f) /\ Len(f) = n + 2 /\ Len(g) = n + 1
  BY <1>2, <1>5, <1>6, <1>7, <1>8 DEF Joined
<1>11. f[1] = x
  BY <1>5, <1>7, <1>8, <1>10 DEF Joined
<1>12. ASSUME NEW j \in 1 .. n PROVE f[j + 1] = Row(p, j)
  <2>1. j + 1 \in 1 .. Len(g) /\ j + 1 = Len(a) + j
    BY <1>5, <1>10
  <2>2. f[j + 1] = g[j + 1] /\ g[j + 1] = r[j]
    BY <1>2, <1>7, <1>8, <2>1 DEF Joined
  <2> QED
    BY <1>2, <2>2
<1> QED
  BY <1>1, <1>3, <1>9, <1>10, <1>11, <1>12 DEF IsPng

PngInv ==
  suffix = ".png" =>
    /\ Array(picture.rows) /\ wanted \in {GRAY, RGB} /\ Streams
    /\ status = "writing" => InOrder
    /\ status \in {"success", "killed"} => Damaged(disk, Items)
    /\ got \notin {Nothing, Refused} =>
         /\ got.rows = picture.rows
         /\ got.layout = IF wanted = GRAY THEN GRAY ELSE picture.format

(* A reader that finds the header and as many rows as it says finds those  *)
(* of the picture.                                                         *)
LEMMA PngRead ==
  ASSUME NEW p, Array(p.rows), NEW f, Damaged(f, PngItems(p)), f # <<>>, f[1].kind = "IHDR",
         AllRows(f)
  PROVE  /\ f[1].format = p.format
         /\ [i \in 1 .. f[1].rows |-> f[i + 1].row] = p.rows
<1>1. PICK g : g = PngItems(p) /\ IsPng(g, p)
  BY PngItemsAre
<1>2. PICK n \in Nat : n = Len(p.rows) /\ p.rows = [i \in 1 .. n |-> p.rows[i]]
  BY ArrayFacts
<1>3. Array(f) /\ Len(f) <= n + 2 /\ \A i \in 1 .. Len(f) : f[i] \in {g[i], Torn}
  BY <1>1, <1>2 DEF Damaged, IsPng
<1>4. Len(f) \in Nat /\ Len(f) > 0
  <2>1. Len(f) > 0
    BY <1>3, TailArray
  <2> QED
    BY <1>3, <2>1, ArrayFacts
<1>5. f[1] = [kind |-> "IHDR", format |-> p.format, rows |-> n]
  <2>1. f[1] \in {g[1], Torn} /\ f[1] # Torn
    BY <1>3, <1>4 DEF Torn
  <2> QED
    BY <1>1, <1>2, <2>1 DEF IsPng
<1>6. Len(f) > n /\ \A i \in 1 .. n : f[i + 1].kind = "row"
  BY <1>5 DEF AllRows
<1>7. ASSUME NEW i \in 1 .. n PROVE f[i + 1].row = p.rows[i]
  <2>1. i + 1 \in 1 .. Len(f)
    BY <1>4, <1>6
  <2>2. f[i + 1] \in {g[i + 1], Torn} /\ f[i + 1] # Torn
    BY <1>3, <1>6, <2>1 DEF Torn
  <2>3. f[i + 1] = Row(p, i)
    BY <1>1, <1>2, <2>2 DEF IsPng
  <2> QED
    BY <2>3 DEF Row
<1>8. f[1].rows = n /\ f[1].format = p.format
  BY <1>5
<1>9. [i \in 1 .. f[1].rows |-> f[i + 1].row] = [i \in 1 .. n |-> p.rows[i]]
  BY <1>7, <1>8
<1> QED
  BY <1>2, <1>8, <1>9

LEMMA InOrderFirst ==
  ASSUME Array(Items), disk = <<>>, buf = <<>>, todo = Items
  PROVE  Streams /\ InOrder
<1>1. Array(disk) /\ Array(buf) /\ Array(todo)
  BY SingleArray
<1>2. PICK d : d = Done /\ Joined(d, disk, buf)
  BY <1>1, ConcatArray DEF Done
<1>3. Len(disk) = 0 /\ Len(buf) = 0
  BY SingleArray
<1>4. Len(d) = 0
  BY <1>2, <1>3 DEF Joined
<1>5. PICK n \in Nat : n = Len(Items)
  BY ArrayFacts
<1>6. Left(0)
  BY <1>5 DEF Left
<1> QED
  BY <1>1, <1>2, <1>4, <1>6 DEF InOrder, Streams

LEMMA PngInit == Init => PngInv
<1> SUFFICES ASSUME Init, suffix = ".png" PROVE PngInv
  BY DEF PngInv
<1>1. PICK p \in PngPicture \cup FragilePng : Given(p, PngItems(p))
  BY DEF Init
<1>2. /\ picture = p /\ todo = Items /\ status = "writing" /\ buf = <<>> /\ disk = <<>>
      /\ got = Nothing /\ wanted \in {GRAY, RGB} /\ Items = PngItems(p)
  BY <1>1 DEF Given, Init, Items
<1>3. Array(p.rows)
  BY PictureAssumption DEF PictureAssumption
<1>4. Array(Items)
  BY <1>2, <1>3, PngItemsAre DEF IsPng
<1>5. Streams /\ InOrder
  BY <1>2, <1>4, InOrderFirst
<1> QED
  BY <1>2, <1>3, <1>5 DEF PngInv

LEMMA PngStep ==
  ASSUME PngInv, suffix = ".png", PngNext \/ (Killed /\ wanted' = wanted)
  PROVE  PngInv'
<1>1. /\ Array(picture.rows) /\ wanted \in {GRAY, RGB} /\ Streams
      /\ status = "writing" => InOrder
      /\ status \in {"success", "killed"} => Damaged(disk, Items)
      /\ got \notin {Nothing, Refused} =>
           /\ got.rows = picture.rows
           /\ got.layout = IF wanted = GRAY THEN GRAY ELSE picture.format
  BY DEF PngInv
<1>2. CASE WritePng
  <2>1. /\ status = "writing" /\ todo # <<>> /\ Items' = Items
        /\ UNCHANGED <<suffix, picture, got, wanted>>
    BY <1>2 DEF WritePng, Writing, Items
  <2>2. CASE Put(FALSE) /\ UNCHANGED status
    <3>1. Streams' /\ InOrder'
      BY <1>1, <2>1, <2>2, PutStep, InOrderPut
    <3> QED
      BY <1>1, <2>1, <2>2, <3>1 DEF PngInv
  <2>3. CASE Put(TRUE) /\ status' \in {"success", "failure"}
    <3>1. Streams' /\ Damaged(disk', Items)
      BY <1>1, <2>1, <2>3, PutStep, InOrderPut
    <3> QED
      BY <1>1, <2>1, <2>3, <3>1 DEF PngInv
  <2> QED
    BY <1>2, <2>2, <2>3 DEF WritePng
<1>3. CASE ClosePng
  <2>1. PICK failed \in BOOLEAN : Drain(failed)
    BY <1>3 DEF ClosePng
  <2>2. /\ status = "writing" /\ status' = "success" /\ Items' = Items
        /\ UNCHANGED <<suffix, picture, got, wanted>>
    BY <1>3 DEF ClosePng, Written, Items
  <2>3. Streams' /\ Damaged(disk', Items)
    BY <1>1, <2>1, <2>2, DrainStep, InOrderDamaged
  <2> QED
    BY <1>1, <2>2, <2>3 DEF PngInv
<1>4. CASE Killed /\ wanted' = wanted
  <2>1. /\ status = "writing" /\ status' = "killed" /\ Items' = Items
        /\ UNCHANGED <<suffix, picture, got, wanted>>
    BY <1>4 DEF Killed, Items
  <2>2. Streams' /\ Damaged(disk', Items)
    BY <1>1, <1>4, <2>1, KilledStep, InOrderDamaged
  <2> QED
    BY <1>1, <2>1, <2>2 DEF PngInv
<1>5. CASE ReadPng
  <2>1. /\ status \in {"success", "killed"} /\ Items' = Items /\ Streams'
        /\ UNCHANGED <<suffix, picture, status, disk, wanted>>
    BY <1>1, <1>5 DEF ReadPng, Closed, Items, stream, Streams
  <2>2. CASE got' = Refused
    BY <1>1, <2>1, <2>2 DEF PngInv
  <2>3. CASE /\ disk # <<>> /\ disk[1].kind = "IHDR" /\ AllRows(disk)
             /\ got' = [rows |-> [i \in 1 .. disk[1].rows |-> disk[i + 1].row],
                        layout |-> FormatAsked(disk)]
    <3>1. Damaged(disk, PngItems(picture))
      BY <1>1, <2>1 DEF Items
    <3>2. /\ disk[1].format = picture.format
          /\ [i \in 1 .. disk[1].rows |-> disk[i + 1].row] = picture.rows
      BY <1>1, <2>3, <3>1, PngRead
    <3>3. /\ got'.rows = picture.rows
          /\ got'.layout = IF wanted = GRAY THEN GRAY ELSE picture.format
      BY <2>3, <3>2 DEF FormatAsked, begin_read
    <3> QED
      BY <1>1, <2>1, <3>3 DEF PngInv
  <2> QED
    BY <1>5, <2>2, <2>3 DEF ReadPng
<1> QED
  BY <1>2, <1>3, <1>4, <1>5 DEF PngNext

-----------------------------------------------------------------------------
(* JPEG pictures.                                                          *)
LEMMA SmallestElement ==
  ASSUME NEW n \in Nat, NEW S \in SUBSET (1 .. n), S # {}
  PROVE  \E m \in S : \A i \in S : m <= i
<1>1. PICK low \in Int, cap \in Int : low = 0 - n /\ cap = 0
  <2>1. 0 - n \in Int /\ 0 \in Int
    OBVIOUS
  <2> QED
    BY <2>1
<1>T. PICK T : T = {0 - i : i \in S}
  OBVIOUS
<1>2. T \in SUBSET (low .. cap)
  <2>1. \A i \in 1 .. n : 0 - i \in low .. cap
    BY <1>1
  <2> QED
    BY <1>T, <2>1
<1>3. PICK t \in T : \A i \in T : i <= t
  <2>1. T # {}
    BY <1>T
  <2> QED
    BY <1>2, <2>1, LargestElement
<1>4. PICK m \in S : t = 0 - m
  BY <1>T, <1>3
<1>5. ASSUME NEW i \in S PROVE m <= i
  <2>1. 0 - i \in T /\ i \in Int /\ m \in Int
    BY <1>T
  <2>2. 0 - i <= 0 - m
    BY <1>3, <1>4, <2>1
  <2> QED
    BY <2>1, <2>2
<1> QED
  BY <1>5

(* No image begins in f. *)
NoScan(f) == Array(f) /\ \A i \in 1 .. Len(f) : f[i].kind # "SOS"

(* f is a picture with its image at s. *)
IsJpeg(f, p, s) ==
  /\ Array(f) /\ s \in Nat /\ s >= 2 /\ Len(f) = s + Len(p.rows) + 1
  /\ f[1].kind = "SOI" /\ f[s] = [kind |-> "SOS", rows |-> Len(p.rows)]
  /\ \A i \in 1 .. s - 1 : f[i].kind # "SOS"
  /\ \A j \in 1 .. Len(p.rows) : f[s + j] = Row(p, j)
  /\ f[s + Len(p.rows) + 1].kind # "SOS"

LEMMA NoScanConcat ==
  ASSUME NEW s, NEW t, NoScan(s), NoScan(t)
  PROVE  NoScan(s \o t)
<1>1. Array(s) /\ Array(t)
  BY DEF NoScan
<1>2. PICK r : r = s \o t /\ Joined(r, s, t)
  BY <1>1, ConcatArray
<1>3. Len(s) \in Nat /\ Len(t) \in Nat
  BY <1>1, ArrayFacts
<1>4. ASSUME NEW i \in 1 .. Len(r) PROVE r[i].kind # "SOS"
  <2>1. CASE i <= Len(s)
    BY <1>2, <1>3, <1>4, <2>1 DEF Joined, NoScan
  <2>2. CASE i > Len(s)
    <3>1. i - Len(s) \in 1 .. Len(t) /\ i = Len(s) + (i - Len(s))
      BY <1>2, <1>3, <1>4, <2>2 DEF Joined
    <3> QED
      BY <1>2, <3>1 DEF Joined, NoScan
  <2> QED
    BY <1>2, <1>3, <1>4, <2>1, <2>2 DEF Joined
<1> QED
  BY <1>2, <1>4 DEF NoScan, Joined

LEMMA NoScanSingle ==
  NoScan(<<>>) /\ \A x : x.kind # "SOS" => NoScan(<<x>>)
<1>1. NoScan(<<>>)
  BY SingleArray DEF NoScan
<1>2. ASSUME NEW x, x.kind # "SOS" PROVE NoScan(<<x>>)
  <2>1. PICK f : f = <<x>> /\ Array(f) /\ Len(f) = 1 /\ f[1] = x
    BY SingleArray
  <2> QED
    BY <1>2, <2>1 DEF NoScan
<1> QED
  BY <1>1, <1>2

LEMMA IccNoScan ==
  ASSUME NEW data, Array(data)
  PROVE  NoScan(IccMarkers(data))
<1>1. NumMarkers(Len(data)) \in Nat
  <2>1. \A n, m \in Nat : m # 0 => n \div m \in Nat
    OBVIOUS
  <2>2. MaxData \in Nat /\ MaxData # 0 /\ Len(data) \in Nat
    BY JpegAssumption, ArrayFacts DEF JpegAssumption
  <2>3. Len(data) \div MaxData \in Nat
    BY <2>1, <2>2
  <2> QED
    BY <2>3 DEF NumMarkers
<1>2. PICK n \in Nat : n = NumMarkers(Len(data))
  BY <1>1
<1>3. PICK f : f = IccMarkers(data)
  OBVIOUS
<1>4. f = [i \in 1 .. n |->
             [kind |-> "APP2", seq |-> i % ByteRange, num |-> n % ByteRange,
              data |-> SubSeq(data, (i - 1) * MaxData + 1,
                              IF i = n THEN Len(data) ELSE i * MaxData)]]
  BY <1>2, <1>3 DEF IccMarkers
<1>5. f = [i \in 1 .. n |-> f[i]] /\ \A i \in 1 .. n : f[i].kind = "APP2"
  BY <1>4
<1>6. Array(f) /\ Len(f) = n
  BY <1>5, FunctionArray
<1> QED
  BY <1>3, <1>5, <1>6 DEF NoScan

LEMMA JpegItemsAre ==
  ASSUME NEW p, Array(p.rows), Array(p.profile)
  PROVE  \E s : IsJpeg(JpegItems(p), p, s)
<1>1. PICK n \in Nat : n = Len(p.rows)
  BY ArrayFacts
<1>2. PICK a : a = <<[kind |-> "SOI"]>> /\ Array(a) /\ Len(a) = 1 /\ a[1] = [kind |-> "SOI"]
  BY SingleArray
<1>3. PICK b : b = CommentMarker(p) \o IccMarkers(p.profile) /\ NoScan(b)
  <2>1. NoScan(CommentMarker(p))
    <3>1. CASE CommentMarker(p) = <<>>
      BY <3>1, NoScanSingle
    <3>2. CASE CommentMarker(p) = <<[kind |-> "COM", comment |-> p.comment]>>
      <4>1. [kind |-> "COM", comment |-> p.comment].kind # "SOS"
        OBVIOUS
      <4> QED
        BY <3>2, <4>1, NoScanSingle
    <3> QED
      BY <3>1, <3>2 DEF CommentMarker
  <2> QED
    BY <2>1, IccNoScan, NoScanConcat
<1>4. PICK x : x = [kind |-> "SOS", rows |-> n]
  OBVIOUS
<1>5. PICK c : c = <<x>> /\ Array(c) /\ Len(c) = 1 /\ c[1] = x
  BY SingleArray
<1>6. PICK r : /\ r = RowItems(p.rows) /\ Array(r) /\ Len(r) = n
               /\ \A j \in 1 .. n : r[j] = Row(p, j)
  BY <1>1, RowItemsArray
<1>7. PICK e : e = <<[kind |-> "EOI"]>> /\ Array(e) /\ Len(e) = 1 /\ e[1] = [kind |-> "EOI"]
  BY SingleArray
<1>8. PICK h : h = a \o b /\ Joined(h, a, b) /\ NoScan(h)
  <2>1. Array(b) /\ NoScan(a)
    BY <1>2, <1>3 DEF NoScan
  <2> QED
    BY <1>2, <1>3, <2>1, ConcatArray, NoScanConcat
<1>9. PICK i \in Nat : i = Len(h) /\ i >= 1 /\ h[1].kind = "SOI"
  <2>1. Len(b) \in Nat
    BY <1>3, ArrayFacts DEF NoScan
  <2>2. Len(h) = 1 + Len(b) /\ h[1] = a[1]
    BY <1>2, <1>8 DEF Joined
  <2> QED
    BY <1>2, <2>1, <2>2
<1>10. Array(h)
  BY <1>8 DEF NoScan
<1>11. PICK g : g = h \o c /\ Joined(g, h, c)
  BY <1>5, <1>10, ConcatArray
<1>12. Array(g) /\ Len(g) = i + 1 /\ g[i + 1] = x /\ \A k \in 1 .. i : g[k] = h[k]
  BY <1>5, <1>9, <1>11 DEF Joined
<1>13. PICK k : k = g \o r /\ Joined(k, g, r)
  BY <1>6, <1>12, ConcatArray
<1>14. /\ Array(k) /\ Len(k) = i + 1 + n /\ \A j \in 1 .. n : k[(i + 1) + j] = Row(p, j)
       /\ \A j \in 1 .. i + 1 : k[j] = g[j]
  BY <1>6, <1>12, <1>13 DEF Joined
<1>15. PICK f : f = k \o e /\ Joined(f, k, e)
  BY <1>7, <1>14, ConcatArray
<1>16. /\ Array(f) /\ Len(f) = (i + 1) + n + 1 /\ f[(i + 1) + n + 1] = [kind |-> "EOI"]
       /\ \A j \in 1 .. i + 1 + n : f[j] = k[j]
  BY <1>7, <1>14, <1>15 DEF Joined
<1>17. f = JpegItems(p)
  <2>1. f = ((((<<[kind |-> "SOI"]>> \o b) \o <<x>>) \o r) \o <<[kind |-> "EOI"]>>)
    BY <1>2, <1>5, <1>7, <1>8, <1>11, <1>13, <1>15
  <2>2. <<[kind |-> "SOI"]>> \o b
          = (<<[kind |-> "SOI"]>> \o CommentMarker(p)) \o IccMarkers(p.profile)
    <3>1. \A s, t, u : Array(s) /\ Array(t) /\ Array(u) => s \o (t \o u) = (s \o t) \o u
      <4> TAKE s, t, u
      <4> HAVE Array(s) /\ Array(t) /\ Array(u)
      <4>1. PICK S : S = ({s[q] : q \in DOMAIN s} \cup {t[q] : q \in DOMAIN t})
                           \cup {u[q] : q \in DOMAIN u}
        OBVIOUS
      <4>2. s \in Seq(S) /\ t \in Seq(S) /\ u \in Seq(S)
        <5>1. \A q \in 1 .. Len(s) : s[q] \in S
          BY <4>1, ArrayFacts
        <5>2. \A q \in 1 .. Len(t) : t[q] \in S
          BY <4>1, ArrayFacts
        <5>3. \A q \in 1 .. Len(u) : u[q] \in S
          BY <4>1, ArrayFacts
        <5> QED
          BY <5>1, <5>2, <5>3, ArrayIn
      <4> QED
        BY <4>2, ConcatAssociative
    <3>2. Array(CommentMarker(p))
      <4>1. \A q : Array(<<q>>)
        BY SingleArray
      <4> QED
        BY <4>1, SingleArray DEF CommentMarker
    <3>3. Array(IccMarkers(p.profile))
      BY IccNoScan DEF NoScan
    <3> QED
      BY <1>2, <1>3, <3>1, <3>2, <3>3
  <2> QED
    BY <1>1, <1>4, <1>6, <2>1, <2>2 DEF JpegItems
<1>18. f[1].kind = "SOI" /\ f[i + 1] = x /\ \A j \in 1 .. i : f[j] = h[j]
  BY <1>9, <1>12, <1>14, <1>16
<1>19. \A j \in 1 .. i : f[j].kind # "SOS"
  BY <1>8, <1>9, <1>18 DEF NoScan
<1>20. ASSUME NEW j \in 1 .. n PROVE f[(i + 1) + j] = Row(p, j)
  <2>1. (i + 1) + j \in 1 .. i + 1 + n
    OBVIOUS
  <2> QED
    BY <1>14, <1>16, <2>1
<1>21. PICK s \in Nat : s = i + 1 /\ s >= 2 /\ s - 1 = i
  BY <1>9
<1>22. /\ Len(f) = s + n + 1 /\ f[s + n + 1].kind # "SOS" /\ f[s] = x
       /\ \A j \in 1 .. s - 1 : f[j].kind # "SOS"
       /\ \A j \in 1 .. n : f[s + j] = Row(p, j)
  BY <1>16, <1>18, <1>19, <1>20, <1>21
<1>23. IsJpeg(f, p, s)
  BY <1>1, <1>4, <1>16, <1>18, <1>21, <1>22 DEF IsJpeg
<1> QED
  BY <1>17, <1>23

(* Where there is an image, the rows of the picture follow, torn or not.   *)
ScanShape(f, p) ==
  /\ Array(f)
  /\ \A i \in 1 .. Len(f) : f[i].kind = "SOS" =>
       /\ f[i].rows = Len(p.rows)
       /\ \A j \in 1 .. Len(p.rows) : i + j <= Len(f) => f[i + j] \in {Row(p, j), Torn}

HasScan(f) == f[1].kind = "SOI" /\ \E i \in 1 .. Len(f) : f[i].kind = "SOS"

LEMMA JpegHasScan ==
  ASSUME NEW f, NEW p, NEW s, IsJpeg(f, p, s), Array(p.rows)
  PROVE  HasScan(f) /\ Damaged(f, f)
<1>1. Len(p.rows) \in Nat
  BY ArrayFacts
<1>2. s \in 1 .. Len(f) /\ f[s].kind = "SOS" /\ f[1].kind = "SOI" /\ Array(f)
  BY <1>1 DEF IsJpeg
<1>3. Len(f) \in Nat
  BY <1>2, ArrayFacts
<1> QED
  BY <1>2, <1>3 DEF HasScan, Damaged

LEMMA ScanDamaged ==
  ASSUME NEW g, NEW p, NEW s, IsJpeg(g, p, s), Array(p.rows), NEW f, Damaged(f, g)
  PROVE  ScanShape(f, p)
<1>1. PICK n \in Nat : n = Len(p.rows)
  BY ArrayFacts
<1>2. /\ s \in Nat /\ s >= 2 /\ Len(g) = s + n + 1 /\ g[s] = [kind |-> "SOS", rows |-> n]
      /\ \A i \in 1 .. s - 1 : g[i].kind # "SOS"
      /\ \A j \in 1 .. n : g[s + j] = Row(p, j)
      /\ g[s + n + 1].kind # "SOS"
  BY <1>1 DEF IsJpeg
<1>3. Array(f) /\ Len(f) <= Len(g) /\ \A i \in 1 .. Len(f) : f[i] \in {g[i], Torn}
  BY DEF Damaged
<1>4. Len(f) \in Nat
  BY <1>3, ArrayFacts
<1>5. ASSUME NEW i \in 1 .. Len(f), f[i].kind = "SOS" PROVE i = s /\ f[i] = g[i]
  <2>1. f[i] = g[i]
    BY <1>3, <1>5 DEF Torn
  <2>2. CASE i > s /\ i <= s + n
    <3>1. PICK j \in 1 .. n : i = s + j
      <4>1. i - s \in 1 .. n /\ i = s + (i - s)
        BY <1>2, <1>4, <2>2
      <4> QED
        BY <4>1
    <3>2. g[i] = Row(p, j)
      BY <1>2, <3>1
    <3> QED
      BY <1>5, <2>1, <3>2 DEF Row
  <2>3. i < s \/ i = s \/ (i > s /\ i <= s + n) \/ i = s + n + 1
    BY <1>2, <1>3, <1>4
  <2>4. CASE i < s
    BY <1>2, <1>4, <1>5, <2>1, <2>4
  <2> QED
    BY <1>2, <1>5, <2>1, <2>2, <2>3, <2>4
<1>6. ASSUME NEW i \in 1 .. Len(f), f[i].kind = "SOS"
      PROVE  /\ f[i].rows = n
             /\ \A j \in 1 .. n : i + j <= Len(f) => f[i + j] \in {Row(p, j), Torn}
  <2>1. i = s /\ f[i] = [kind |-> "SOS", rows |-> n]
    BY <1>2, <1>5, <1>6
  <2>2. ASSUME NEW j \in 1 .. n, i + j <= Len(f) PROVE f[i + j] \in {Row(p, j), Torn}
    <3>1. i + j \in 1 .. Len(f)
      BY <1>4, <2>2
    <3> QED
      BY <1>2, <1>3, <2>1, <3>1
  <2> QED
    BY <2>1, <2>2
<1> QED
  BY <1>1, <1>3, <1>6 DEF ScanShape

LEMMA ScanFound ==
  ASSUME NEW f, Array(f), NEW i \in 1 .. Len(f), f[i].kind = "SOS"
  PROVE  /\ ScanBegin(f) \in 1 .. Len(f) /\ f[ScanBegin(f)].kind = "SOS"
         /\ \A j \in 1 .. ScanBegin(f) - 1 : f[j].kind # "SOS"
<1>1. PICK n \in Nat : n = Len(f)
  BY ArrayFacts
<1>2. PICK S : S = {j \in 1 .. n : f[j].kind = "SOS"}
  OBVIOUS
<1>3. S \in SUBSET (1 .. n) /\ S # {}
  BY <1>1, <1>2
<1>4. PICK m \in S : \A j \in S : m <= j
  BY <1>3, SmallestElement
<1>5. m \in 1 .. Len(f) /\ f[m].kind = "SOS" /\ \A j \in 1 .. m - 1 : f[j].kind # "SOS"
  <2>1. m \in 1 .. n /\ f[m].kind = "SOS"
    BY <1>2
  <2>2. ASSUME NEW j \in 1 .. m - 1, f[j].kind = "SOS" PROVE FALSE
    <3>1. j \in S /\ j < m
      BY <1>2, <2>1, <2>2
    <3> QED
      BY <1>4, <2>1, <3>1
  <2> QED
    BY <1>1, <2>1, <2>2
<1> QED
  BY <1>5 DEF ScanBegin

LEMMA ScanRead ==
  ASSUME NEW f, NEW p, ScanShape(f, p), Array(p.rows), HeaderRead(f), NoWarnings(f)
  PROVE  [i \in 1 .. f[ScanBegin(f)].rows |-> f[ScanBegin(f) + i].row] = p.rows
<1>1. PICK n \in Nat : n = Len(p.rows) /\ p.rows = [i \in 1 .. n |-> p.rows[i]]
  BY ArrayFacts
<1>2. PICK s : s = ScanBegin(f)
  OBVIOUS
<1>3. s \in 1 .. Len(f) /\ f[s].kind = "SOS"
  BY <1>2, ScanFound DEF ScanShape, HeaderRead
<1>4. f[s].rows = n /\ \A j \in 1 .. n : s + j <= Len(f) => f[s + j] \in {Row(p, j), Torn}
  BY <1>1, <1>3 DEF ScanShape
<1>5. Len(f) = s + n + 1 /\ \A i \in s + 1 .. Len(f) - 1 : f[i].kind = "row"
  BY <1>2, <1>4 DEF NoWarnings
<1>6. ASSUME NEW j \in 1 .. n PROVE f[s + j].row = p.rows[j]
  <2>1. s + j \in s + 1 .. Len(f) - 1 /\ s + j <= Len(f)
    BY <1>3, <1>5
  <2>2. f[s + j] = Row(p, j)
    BY <1>4, <1>5, <2>1 DEF Torn
  <2> QED
    BY <2>2 DEF Row
<1>7. [i \in 1 .. f[s].rows |-> f[s + i].row] = [i \in 1 .. n |-> p.rows[i]]
  BY <1>4, <1>6
<1> QED
  BY <1>1, <1>2, <1>7

LEMMA NoScanPart ==
  ASSUME NEW f, NoScan(f), NEW a \in Nat, NEW b \in Int, a > 0, b <= Len(f)
  PROVE  NoScan(SubSeq(f, a, b))
<1>1. Array(f)
  BY DEF NoScan
<1>2. PICK g : g = SubSeq(f, a, b) /\ IsPart(g, f, a, b)
  BY <1>1, SubSeqArray
<1>3. Len(f) \in Nat
  BY <1>1, ArrayFacts
<1>4. ASSUME NEW i \in 1 .. Len(g) PROVE g[i].kind # "SOS"
  <2>1. i \in 1 .. b - a + 1 /\ (a - 1) + i \in 1 .. Len(f)
    BY <1>2, <1>3 DEF IsPart
  <2> QED
    BY <1>2, <2>1 DEF NoScan, IsPart
<1> QED
  BY <1>2, <1>4 DEF NoScan, IsPart

LEMMA NoScanInsert ==
  ASSUME NEW f, NoScan(f), NEW i \in Nat, i > 0, i <= Len(f) + 1, NEW x, x.kind # "SOS"
  PROVE  NoScan(InsertAt(f, i, x))
<1>1. Len(f) \in Nat
  BY ArrayFacts DEF NoScan
<1>2. NoScan(SubSeq(f, 1, i - 1)) /\ NoScan(SubSeq(f, i, Len(f)))
  BY <1>1, NoScanPart
<1>3. NoScan(<<x>>)
  BY NoScanSingle
<1> QED
  BY <1>2, <1>3, NoScanConcat DEF InsertAt

LEMMA NoScanRemove ==
  ASSUME NEW f, NoScan(f), NEW i \in Nat, i > 0, i <= Len(f)
  PROVE  NoScan(RemoveAt(f, i)) /\ Len(RemoveAt(f, i)) = Len(f) - 1
<1>1. Array(f) /\ Len(f) \in Nat
  BY ArrayFacts DEF NoScan
<1>2. PICK a : a = SubSeq(f, 1, i - 1) /\ NoScan(a) /\ Array(a) /\ Len(a) = i - 1
  <2>1. PICK one \in Nat, j \in Nat : one = 1 /\ j = i - 1 /\ one > 0 /\ j <= Len(f)
    <3>1. i - 1 \in Nat /\ 1 \in Nat /\ i - 1 <= Len(f)
      BY <1>1
    <3> QED
      BY <3>1
  <2>2. PICK a : a = SubSeq(f, one, j)
    OBVIOUS
  <2>3. NoScan(a) /\ IsPart(a, f, one, j)
    BY <1>1, <2>1, <2>2, NoScanPart, SubSeqArray
  <2>4. Array(a) /\ Len(a) = i - 1
    BY <2>1, <2>3 DEF IsPart
  <2> QED
    BY <2>1, <2>2, <2>3, <2>4
<1>3. PICK b : b = SubSeq(f, i + 1, Len(f)) /\ NoScan(b) /\ Array(b) /\ Len(b) = Len(f) - i
  <2>1. PICK j \in Nat, n \in Nat : j = i + 1 /\ n = Len(f) /\ j > 0 /\ n <= Len(f)
    <3>1. i + 1 \in Nat /\ i + 1 > 0 /\ Len(f) <= Len(f)
      BY <1>1
    <3> QED
      BY <1>1, <3>1
  <2>2. PICK b : b = SubSeq(f, j, n)
    OBVIOUS
  <2>3. NoScan(b) /\ IsPart(b, f, j, n)
    BY <1>1, <2>1, <2>2, NoScanPart, SubSeqArray
  <2>4. Array(b) /\ Len(b) = Len(f) - i
    BY <1>1, <2>1, <2>3 DEF IsPart
  <2> QED
    BY <2>1, <2>2, <2>3, <2>4
<1>4. Joined(a \o b, a, b) /\ NoScan(a \o b)
  BY <1>2, <1>3, ConcatArray, NoScanConcat
<1>5. Len(a \o b) = Len(f) - 1
  <2>1. Len(a \o b) = (i - 1) + (Len(f) - i)
    BY <1>2, <1>3, <1>4 DEF Joined
  <2> QED
    BY <1>1, <2>1
<1> QED
  BY <1>2, <1>3, <1>4, <1>5 DEF RemoveAt

(* The markers of a file, changed in any way, before what is behind them.  *)
LEMMA EditShape ==
  ASSUME NEW d, NEW p, ScanShape(d, p), HasScan(d), Array(p.rows), NEW m, NoScan(m), NEW g,
         g = (<<[kind |-> "SOI"]>> \o m) \o SubSeq(d, ScanBegin(d), Len(d))
  PROVE  ScanShape(g, p) /\ HasScan(g)
<1>1. PICK n \in Nat : n = Len(p.rows)
  BY ArrayFacts
<1>2. Array(d) /\ Len(d) \in Nat
  BY ArrayFacts DEF ScanShape
<1>3. PICK s \in Nat, o \in Nat : s = ScanBegin(d) /\ s = o + 1 /\ s <= Len(d) /\ d[s].kind = "SOS"
  <2>1. ScanBegin(d) \in 1 .. Len(d) /\ d[ScanBegin(d)].kind = "SOS"
    BY <1>2, ScanFound DEF HasScan
  <2>2. PICK s \in Nat : s = ScanBegin(d) /\ s >= 1 /\ s <= Len(d)
    BY <1>2, <2>1
  <2>3. s - 1 \in Nat /\ s = (s - 1) + 1
    BY <2>2
  <2>4. \E o \in Nat : s = o + 1
    BY <2>3
  <2> QED
    BY <2>1, <2>2, <2>4
<1>9. PICK l \in Nat : l = Len(d) - o /\ l >= 1
  <2>1. Len(d) - o \in Nat /\ Len(d) - o >= 1
    BY <1>2, <1>3
  <2> QED
    BY <2>1
<1>4. PICK b : /\ b = SubSeq(d, s, Len(d)) /\ Array(b) /\ Len(b) = l
               /\ \A i \in 1 .. l : b[i] = d[o + i]
  <2>1. PICK b : b = SubSeq(d, s, Len(d)) /\ IsPart(b, d, s, Len(d))
    <3>1. PICK last \in Int : last = Len(d) /\ last <= Len(d)
      BY <1>2
    <3>2. s > 0
      BY <1>3
    <3>3. IsPart(SubSeq(d, s, last), d, s, last)
      BY <1>2, <3>1, <3>2, SubSeqArray
    <3> QED
      BY <3>1, <3>3
  <2>2. s - 1 = o /\ Len(d) - s + 1 = l /\ s <= Len(d)
    BY <1>2, <1>3, <1>9
  <2> QED
    BY <2>1, <2>2 DEF IsPart
<1>5. PICK a : a = <<[kind |-> "SOI"]>> /\ Array(a) /\ Len(a) = 1 /\ a[1] = [kind |-> "SOI"]
  BY SingleArray
<1>6. PICK h : h = a \o m /\ Joined(h, a, m) /\ NoScan(h)
  <2>1. Array(m) /\ NoScan(a)
    BY <1>5 DEF NoScan
  <2> QED
    BY <1>5, <2>1, ConcatArray, NoScanConcat
<1>7. PICK k \in Nat : k = Len(h) /\ k >= 1 /\ h[1].kind = "SOI"
  <2>1. Len(m) \in Nat
    BY ArrayFacts DEF NoScan
  <2>2. Len(h) = 1 + Len(m) /\ h[1] = a[1]
    BY <1>5, <1>6 DEF Joined
  <2> QED
    BY <1>5, <2>1, <2>2
<1>8. Joined(g, h, b)
  <2>1. Array(h) /\ g = h \o b
    BY <1>3, <1>4, <1>5, <1>6 DEF NoScan
  <2> QED
    BY <1>4, <2>1, ConcatArray
<1>10. /\ Array(g) /\ Len(g) = k + l
       /\ \A i \in 1 .. k : g[i] = h[i]
       /\ \A i \in 1 .. l : g[k + i] = d[o + i]
  BY <1>4, <1>7, <1>8, <1>9 DEF Joined
<1>11. g[1].kind = "SOI" /\ k + 1 \in 1 .. Len(g) /\ g[k + 1] = d[s]
  <2>1. 1 \in 1 .. k /\ 1 \in 1 .. l /\ k + 1 \in 1 .. k + l /\ o + 1 = s
    BY <1>3, <1>7, <1>9
  <2>2. g[1] = h[1] /\ g[k + 1] = d[o + 1]
    BY <1>10, <2>1
  <2> QED
    BY <1>7, <1>10, <2>1, <2>2
<1>12. ASSUME NEW i \in 1 .. Len(g), g[i].kind = "SOS"
       PROVE  /\ g[i].rows = n
              /\ \A j \in 1 .. n : i + j <= Len(g) => g[i + j] \in {Row(p, j), Torn}
  <2>1. i > k /\ i \in Nat /\ i <= k + l
    <3>1. i \in Nat /\ i >= 1 /\ i <= k + l
      <4>1. Len(g) = k + l /\ i \in 1 .. Len(g)
        BY <1>10
      <4>2. i \in 1 .. k + l
        BY <4>1
      <4> QED
        BY <4>2
    <3>2. ASSUME i <= k PROVE FALSE
      <4>1. i \in 1 .. k
        BY <3>1, <3>2
      <4>2. g[i] = h[i] /\ h[i].kind # "SOS"
        BY <1>6, <1>7, <1>10, <4>1 DEF NoScan
      <4> QED
        BY <1>12, <4>2
    <3> QED
      BY <3>1, <3>2
  <2>2. PICK q \in 1 .. l, t \in Nat : i = k + q /\ t = o + q
    <3>1. i - k \in 1 .. l /\ i = k + (i - k) /\ o + (i - k) \in Nat
      BY <2>1
    <3> QED
      BY <3>1
  <2>3. t \in 1 .. Len(d) /\ g[i] = d[t]
    BY <1>2, <1>3, <1>9, <1>10, <2>2
  <2>4. d[t].rows = n /\ \A j \in 1 .. n : t + j <= Len(d) => d[t + j] \in {Row(p, j), Torn}
    BY <1>1, <1>12, <2>3 DEF ScanShape
  <2>5. ASSUME NEW j \in 1 .. n, i + j <= Len(g) PROVE g[i + j] \in {Row(p, j), Torn}
    <3>1. /\ q + j \in 1 .. l /\ i + j = k + (q + j) /\ o + (q + j) = t + j
          /\ t + j <= Len(d)
      BY <1>2, <1>3, <1>9, <1>10, <2>2, <2>5
    <3>2. g[i + j] = d[t + j]
      BY <1>10, <3>1
    <3> QED
      BY <2>4, <3>1, <3>2
  <2> QED
    BY <2>3, <2>4, <2>5
<1> QED
  BY <1>1, <1>3, <1>10, <1>11, <1>12 DEF ScanShape, HasScan

LEMMA MarkersNoScan ==
  ASSUME Array(disk), HasScan(disk)
  PROVE  NoScan(Markers)
<1>1. PICK s \in Nat : /\ s = ScanBegin(disk) /\ s \in 1 .. Len(disk)
                       /\ \A j \in 1 .. s - 1 : disk[j].kind # "SOS"
  <2>1. Len(disk) \in Nat
    BY ArrayFacts
  <2> QED
    BY <2>1, ScanFound DEF HasScan
<1>2. Len(disk) \in Nat
  BY ArrayFacts
<1>3. PICK two \in Nat, b \in Int : two = 2 /\ two > 0 /\ b = s - 1 /\ b <= Len(disk)
  <2>1. 2 \in Nat /\ s - 1 \in Int /\ s - 1 <= Len(disk)
    BY <1>1, <1>2
  <2> QED
    BY <2>1
<1>4. PICK m : m = SubSeq(disk, two, b) /\ IsPart(m, disk, two, b)
  BY <1>3, SubSeqArray
<1>5. ASSUME NEW i \in 1 .. Len(m) PROVE m[i].kind # "SOS"
  <2>1. i \in 1 .. b - two + 1 /\ (two - 1) + i \in 1 .. s - 1
    BY <1>1, <1>3, <1>4 DEF IsPart
  <2> QED
    BY <1>1, <1>4, <2>1 DEF IsPart
<1> QED
  BY <1>1, <1>3, <1>4, <1>5 DEF NoScan, Markers, IsPart

(* Whatever other programs do to them, the markers are followed by the     *)
(* picture.                                                                *)
LEMMA EditMarkersShape ==
  ASSUME NEW p, Array(p.rows), ScanShape(disk, p), HasScan(disk), EditMarkers
  PROVE  ScanShape(disk', p) /\ HasScan(disk')
<1>1. Array(disk) /\ NoScan(Markers) /\ Len(Markers) \in Nat
  BY MarkersNoScan, ArrayFacts DEF ScanShape, NoScan
<1>2. ASSUME NEW what, NEW m, NoScan(m), Edit(what, m)
      PROVE  ScanShape(disk', p) /\ HasScan(disk')
  <2>1. disk' = (<<[kind |-> "SOI"]>> \o m) \o SubSeq(disk, ScanBegin(disk), Len(disk))
    BY <1>2 DEF Edit, Behind
  <2> QED
    BY <1>2, <2>1, EditShape
<1>3. \A i \in 1 .. Len(Markers) : i \in Nat /\ i > 0 /\ i <= Len(Markers) /\ i <= Len(Markers) + 1
                                   /\ Markers[i].kind # "SOS"
  BY <1>1 DEF NoScan
<1>4. CASE \E i \in 1 .. Len(Markers) : Edit("lost", RemoveAt(Markers, i))
  BY <1>1, <1>2, <1>3, <1>4, NoScanRemove
<1>5. CASE \E i \in 1 .. Len(Markers) : Edit("doubled", InsertAt(Markers, i, Markers[i]))
  BY <1>1, <1>2, <1>3, <1>5, NoScanInsert
<1>6. CASE \E i \in 1 .. Len(Markers), j \in 1 .. Len(Markers) :
             Edit("moved", InsertAt(RemoveAt(Markers, i), j, Markers[i]))
  <2>1. PICK i \in 1 .. Len(Markers), j \in 1 .. Len(Markers) :
          Edit("moved", InsertAt(RemoveAt(Markers, i), j, Markers[i]))
    BY <1>6
  <2>2. PICK r : r = RemoveAt(Markers, i) /\ NoScan(r) /\ Len(r) = Len(Markers) - 1
    BY <1>1, <1>3, NoScanRemove
  <2>3. j \in Nat /\ j > 0 /\ j <= Len(r) + 1
    BY <1>1, <2>2
  <2>4. NoScan(InsertAt(r, j, Markers[i]))
    BY <1>3, <2>2, <2>3, NoScanInsert
  <2> QED
    BY <1>2, <2>1, <2>2, <2>4
<1>7. CASE \E i \in 1 .. Len(Markers) + 1 : Edit("EXIF", InsertAt(Markers, i, [kind |-> "APP1"]))
  <2>1. PICK i \in 1 .. Len(Markers) + 1 : Edit("EXIF", InsertAt(Markers, i, [kind |-> "APP1"]))
    BY <1>7
  <2>2. i \in Nat /\ i > 0 /\ i <= Len(Markers) + 1
    BY <1>1
  <2>3. PICK x : x = [kind |-> "APP1"]
    OBVIOUS
  <2>4. NoScan(InsertAt(Markers, i, x))
    <3>1. x.kind # "SOS"
      BY <2>3
    <3> QED
      BY <1>1, <2>2, <3>1, NoScanInsert
  <2> QED
    BY <1>2, <2>1, <2>3, <2>4
<1> QED
  BY <1>4, <1>5, <1>6, <1>7 DEF EditMarkers

(* Where a JPEG picture is while it is written, and when it has been: the  *)
(* writer knows of every loss.                                             *)
JpegInv ==
  suffix = ".jpg" =>
    /\ Array(picture.rows) /\ Array(picture.profile) /\ Streams
    /\ status = "writing" => InOrder /\ ~ferror /\ edited = <<>>
    /\ status = "success" /\ edited = <<>> => disk = Items
    /\ status = "success" => HasScan(disk)
    /\ status \in {"success", "killed"} => ScanShape(disk, picture)
    /\ got \notin {Nothing, Refused} => got.rows = picture.rows

LEMMA JpegInit == Init => JpegInv
<1> SUFFICES ASSUME Init, suffix = ".jpg" PROVE JpegInv
  BY DEF JpegInv
<1>1. PICK p \in JpegPicture \cup FragileJpeg : Given(p, JpegItems(p))
  BY DEF Init
<1>2. /\ picture = p /\ todo = Items /\ status = "writing" /\ buf = <<>> /\ disk = <<>>
      /\ got = Nothing /\ edited = <<>> /\ ~ferror /\ Items = JpegItems(p)
  BY <1>1 DEF Given, Init, Items
<1>3. Array(p.rows) /\ Array(p.profile)
  BY PictureAssumption DEF PictureAssumption
<1>4. Array(Items)
  BY <1>2, <1>3, JpegItemsAre DEF IsJpeg
<1>5. Streams /\ InOrder
  BY <1>2, <1>4, InOrderFirst
<1> QED
  BY <1>2, <1>3, <1>5 DEF JpegInv

LEMMA JpegScan ==
  ASSUME suffix = ".jpg", Array(picture.rows), Array(picture.profile)
  PROVE  /\ HasScan(Items) /\ ScanShape(Items, picture)
         /\ \A f : Damaged(f, Items) => ScanShape(f, picture)
<1>1. PICK g : g = Items /\ g = JpegItems(picture)
  BY DEF Items
<1>2. PICK s : IsJpeg(g, picture, s)
  BY <1>1, JpegItemsAre
<1>3. HasScan(g) /\ Damaged(g, g)
  BY <1>2, JpegHasScan
<1>4. \A f : Damaged(f, g) => ScanShape(f, picture)
  BY <1>2, ScanDamaged
<1> QED
  BY <1>1, <1>3, <1>4

LEMMA JpegStep ==
  ASSUME JpegInv, suffix = ".jpg", JpegNext \/ (Killed /\ UNCHANGED jpegvars)
  PROVE  JpegInv'
<1>1. /\ Array(picture.rows) /\ Array(picture.profile) /\ Streams
      /\ status = "writing" => InOrder /\ ~ferror /\ edited = <<>>
      /\ status = "success" /\ edited = <<>> => disk = Items
      /\ status = "success" => HasScan(disk)
      /\ status \in {"success", "killed"} => ScanShape(disk, picture)
      /\ got \notin {Nothing, Refused} => got.rows = picture.rows
  BY DEF JpegInv
<1>2. CASE WriteJpeg
  <2>1. /\ status = "writing" /\ todo # <<>> /\ Items' = Items
        /\ UNCHANGED <<suffix, picture, got, edited>>
    BY <1>2 DEF WriteJpeg, Writing, Items, jpegvars
  <2>2. CASE Put(FALSE) /\ UNCHANGED status
    <3>1. Streams' /\ InOrder' /\ ferror' = ferror
      BY <1>1, <2>1, <2>2, PutStep, InOrderPut
    <3> QED
      BY <1>1, <2>1, <2>2, <3>1 DEF JpegInv
  <2>3. CASE Put(TRUE) /\ status' = "failure"
    <3>1. Streams'
      BY <1>1, <2>1, <2>3, PutStep
    <3> QED
      BY <1>1, <2>1, <2>3, <3>1 DEF JpegInv
  <2>4. CASE status' = "failure" /\ UNCHANGED <<todo, stream>>
    <3>1. Streams'
      BY <1>1, <2>4 DEF Streams, stream
    <3> QED
      BY <1>1, <2>1, <2>4, <3>1 DEF JpegInv
  <2> QED
    BY <1>2, <2>2, <2>3, <2>4 DEF WriteJpeg
<1>3. CASE FinishJpeg
  <2>1. PICK failed \in BOOLEAN : Drain(failed) /\ status' = FinishStatus(failed)
    BY <1>3 DEF FinishJpeg
  <2>2. /\ status = "writing" /\ todo = <<>> /\ Items' = Items
        /\ UNCHANGED <<suffix, picture, got, edited>>
    BY <1>3 DEF FinishJpeg, Written, Items, jpegvars
  <2>3. Streams' /\ (~failed => disk' = Done)
    BY <1>1, <2>1, DrainStep
  <2>4. CASE failed
    <3>1. status' = "failure"
      BY <2>1, <2>4 DEF FinishStatus
    <3> QED
      BY <1>1, <2>2, <2>3, <3>1 DEF JpegInv
  <2>5. CASE ~failed
    <3>1. disk' = Items
      BY <1>1, <2>2, <2>3, <2>5, InOrderDone
    <3>2. HasScan(disk') /\ ScanShape(disk', picture)
      BY <1>1, <3>1, JpegScan
    <3>3. status' \in {"success", "failure"}
      BY <2>1 DEF FinishStatus
    <3> QED
      BY <1>1, <2>2, <2>3, <3>1, <3>2, <3>3 DEF JpegInv
  <2> QED
    BY <2>4, <2>5
<1>4. CASE Killed /\ UNCHANGED jpegvars
  <2>1. /\ status = "writing" /\ status' = "killed" /\ Items' = Items
        /\ UNCHANGED <<suffix, picture, got>>
    BY <1>4 DEF Killed, Items
  <2>2. Streams' /\ Damaged(disk', Items)
    BY <1>1, <1>4, <2>1, KilledStep, InOrderDamaged
  <2>3. ScanShape(disk', picture)
    BY <1>1, <2>2, JpegScan
  <2> QED
    BY <1>1, <2>1, <2>2, <2>3 DEF JpegInv
<1>5. CASE EditMarkers
  <2>1. status = "success" /\ got = Nothing
    BY <1>5 DEF EditMarkers
  <2>2. PICK what, m : Edit(what, m)
    BY <1>5 DEF EditMarkers
  <2>3. ScanShape(disk', picture) /\ HasScan(disk')
    BY <1>1, <1>5, <2>1, EditMarkersShape
  <2>4. edited' # <<>> /\ UNCHANGED <<suffix, picture, status, got>> /\ Streams'
    <3>1. Append(edited, what) # <<>>
      OBVIOUS
    <3>2. edited' = Append(edited, what) /\ UNCHANGED <<suffix, picture, status, got, todo, buf>>
      BY <2>2 DEF Edit
    <3>3. Array(disk') /\ Array(buf) /\ Array(todo)
      BY <1>1, <2>3 DEF ScanShape, Streams
    <3> QED
      BY <3>1, <3>2, <3>3 DEF Streams
  <2> QED
    BY <1>1, <2>1, <2>3, <2>4 DEF JpegInv
<1>6. CASE ReadJpeg
  <2>1. /\ status \in {"success", "killed"} /\ Items' = Items /\ Streams'
        /\ UNCHANGED <<suffix, picture, status, disk, edited>>
    BY <1>1, <1>6 DEF ReadJpeg, Closed, Items, stream, Streams, jpegvars
  <2>2. got' = Refused \/ got'.rows = picture.rows
    <3>1. CASE ~(HeaderRead(disk) /\ NoWarnings(disk))
      BY <1>6, <3>1 DEF ReadJpeg
    <3>2. CASE HeaderRead(disk) /\ NoWarnings(disk)
      <4>1. got'.rows = [i \in 1 .. disk[ScanBegin(disk)].rows |-> disk[ScanBegin(disk) + i].row]
        BY <1>6, <3>2 DEF ReadJpeg
      <4> QED
        BY <1>1, <2>1, <3>2, <4>1, ScanRead
    <3> QED
      BY <3>1, <3>2
  <2> QED
    BY <1>1, <2>1, <2>2 DEF JpegInv
<1>7. CASE ReadProfile
  <2>1. UNCHANGED <<suffix, picture, status, disk, buf, todo, ferror, edited, got>> /\ Items' = Items
    BY <1>7 DEF ReadProfile, streamvars, stream, Items
  <2> QED
    BY <1>1, <2>1 DEF JpegInv, Streams, InOrder, Left, Done
<1> QED
  BY <1>2, <1>3, <1>4, <1>5, <1>6, <1>7 DEF JpegNext

-----------------------------------------------------------------------------
(* Radiance pictures.  The lines of a header go on after an error, and so  *)
(* do the rows of a flat picture: lines may be missing.  What stays true   *)
(* is that nothing but the resolution line and rows comes behind the empty *)
(* line, and that the rows follow the resolution line, all of them as long *)
(* as the writer goes on.                                                  *)
AllKinds(f, K) == Array(f) /\ \A i \in 1 .. Len(f) : f[i].kind \in K

LEMMA KindsConcat ==
  ASSUME NEW K, NEW s, NEW t, AllKinds(s, K), AllKinds(t, K)
  PROVE  AllKinds(s \o t, K)
<1>1. Array(s) /\ Array(t)
  BY DEF AllKinds
<1>2. PICK r : r = s \o t /\ Joined(r, s, t)
  BY <1>1, ConcatArray
<1>3. Len(s) \in Nat /\ Len(t) \in Nat
  BY <1>1, ArrayFacts
<1>4. ASSUME NEW i \in 1 .. Len(r) PROVE r[i].kind \in K
  <2>1. CASE i <= Len(s)
    BY <1>2, <1>3, <1>4, <2>1 DEF Joined, AllKinds
  <2>2. CASE i > Len(s)
    <3>1. i - Len(s) \in 1 .. Len(t) /\ i = Len(s) + (i - Len(s))
      BY <1>2, <1>3, <1>4, <2>2 DEF Joined
    <3> QED
      BY <1>2, <3>1 DEF Joined, AllKinds
  <2> QED
    BY <1>2, <1>3, <1>4, <2>1, <2>2 DEF Joined
<1> QED
  BY <1>2, <1>4 DEF AllKinds, Joined

LEMMA KindsSingle ==
  ASSUME NEW K
  PROVE  AllKinds(<<>>, K) /\ \A x : x.kind \in K => AllKinds(<<x>>, K)
<1>1. AllKinds(<<>>, K)
  BY SingleArray DEF AllKinds
<1>2. ASSUME NEW x, x.kind \in K PROVE AllKinds(<<x>>, K)
  <2>1. PICK f : f = <<x>> /\ Array(f) /\ Len(f) = 1 /\ f[1] = x
    BY SingleArray
  <2> QED
    BY <1>2, <2>1 DEF AllKinds
<1> QED
  BY <1>1, <1>2

DescriptionKinds == {"text", "blank", "format", "exposure", "view", "indented view"}
PlainKinds == {"text", "format", "exposure", "view"}

LEMMA RecordsKinds ==
  ASSUME NEW p, Describable(p)
  PROVE  /\ AllKinds(HeaderRecords(p), DescriptionKinds)
         /\ Plain(p) => AllKinds(HeaderRecords(p), PlainKinds)
<1>1. ASSUME NEW K, {"text", "format", "exposure", "view"} \subseteq K, AllKinds(p.text, K)
      PROVE  AllKinds(HeaderRecords(p), K)
  <2>1. AllKinds(ExposureLines(p), K)
    <3>1. Line("exposure", Printed(p.exposure)).kind \in K
      BY <1>1 DEF Line
    <3> QED
      BY <3>1, KindsSingle DEF ExposureLines
  <2>2. AllKinds(ViewLines(p), K)
    <3>1. Line("view", ViewWritten(p)).kind \in K
      BY <1>1 DEF Line
    <3> QED
      BY <3>1, KindsSingle DEF ViewLines
  <2>3. AllKinds(<<Line("format", "rgbe")>>, K)
    <3>1. Line("format", "rgbe").kind \in K
      BY <1>1 DEF Line
    <3> QED
      BY <3>1, KindsSingle
  <2> QED
    BY <1>1, <2>1, <2>2, <2>3, KindsConcat DEF HeaderRecords
<1>2. AllKinds(p.text, DescriptionKinds)
  BY DEF AllKinds, Describable, DescriptionLine, DescriptionKinds
<1>3. Plain(p) => AllKinds(p.text, PlainKinds)
  BY DEF AllKinds, Describable, DescriptionLine, Plain, PlainKinds
<1>4. AllKinds(HeaderRecords(p), DescriptionKinds)
  BY <1>1, <1>2 DEF DescriptionKinds
<1>5. Plain(p) => AllKinds(HeaderRecords(p), PlainKinds)
  BY <1>1, <1>3 DEF PlainKinds
<1> QED
  BY <1>4, <1>5

(* f is the file of p: its header has h lines. *)
IsRadiance(f, p, h) ==
  /\ Array(f) /\ h \in Nat /\ h = Len(HeaderRecords(p)) + 3 /\ Len(f) = h + Len(p.rows)
  /\ f[1].kind = "magic"
  /\ \A i \in 1 .. Len(HeaderRecords(p)) : f[1 + i] = HeaderRecords(p)[i]
  /\ f[h - 1].kind = "blank" /\ f[h] = Line("resolution", Len(p.rows))
  /\ \A j \in 1 .. Len(p.rows) : f[h + j] = Row(p, j)

LEMMA RadianceItemsAre ==
  ASSUME NEW p, Describable(p)
  PROVE  \E h : IsRadiance(RadianceItems(p), p, h)
<1>1. PICK n \in Nat : n = Len(p.rows)
  BY ArrayFacts DEF Describable
<1>2. PICK x : x = Line("magic", "RADIANCE")
  OBVIOUS
<1>3. PICK a : a = <<x>> /\ Array(a) /\ Len(a) = 1 /\ a[1] = x
  BY SingleArray
<1>4. PICK m : m = HeaderRecords(p) /\ Array(m)
  BY RecordsKinds DEF AllKinds
<1>5. PICK k \in Nat : k = Len(m)
  BY <1>4, ArrayFacts
<1>6. PICK y, z : y = Line("blank", "") /\ z = Line("resolution", n)
  OBVIOUS
<1>7. PICK e : e = <<y, z>> /\ Array(e) /\ Len(e) = 2 /\ e[1] = y /\ e[2] = z
  <2>1. <<y, z>> \in Seq({y, z})
    OBVIOUS
  <2>2. Len(<<y, z>>) = 2 /\ <<y, z>>[1] = y /\ <<y, z>>[2] = z
    OBVIOUS
  <2>3. Array(<<y, z>>)
    BY <2>1, ArrayOf
  <2> QED
    BY <2>2, <2>3
<1>8. PICK r : /\ r = RowItems(p.rows) /\ Array(r) /\ Len(r) = n
               /\ \A j \in 1 .. n : r[j] = Row(p, j)
  BY <1>1, RowItemsArray DEF Describable
<1>9. PICK g : g = a \o m /\ Joined(g, a, m)
  BY <1>3, <1>4, ConcatArray
<1>10. Array(g) /\ Len(g) = 1 + k /\ g[1] = x /\ \A i \in 1 .. k : g[1 + i] = m[i]
  BY <1>3, <1>5, <1>9 DEF Joined
<1>11. PICK b : b = g \o e /\ Joined(b, g, e)
  BY <1>7, <1>10, ConcatArray
<1>12. /\ Array(b) /\ Len(b) = k + 3 /\ \A i \in 1 .. 1 + k : b[i] = g[i]
       /\ b[(1 + k) + 1] = y /\ b[(1 + k) + 2] = z
  BY <1>5, <1>7, <1>10, <1>11 DEF Joined
<1>13. PICK f : f = b \o r /\ Joined(f, b, r)
  BY <1>8, <1>12, ConcatArray
<1>14. PICK h \in Nat : h = k + 3
  <2>1. k + 3 \in Nat
    BY <1>5
  <2> QED
    BY <2>1
<1>15. /\ Array(f) /\ Len(f) = h + n
       /\ \A i \in 1 .. h : f[i] = b[i]
       /\ \A j \in 1 .. n : f[h + j] = Row(p, j)
  BY <1>8, <1>12, <1>13, <1>14 DEF Joined
<1>16. f[1] = x
  <2>1. 1 \in 1 .. h /\ 1 \in 1 .. 1 + k
    BY <1>14
  <2> QED
    BY <1>10, <1>12, <1>15, <2>1
<1>17. f[h - 1] = y /\ f[h] = z
  <2>1. h - 1 = (1 + k) + 1 /\ h = (1 + k) + 2 /\ h - 1 \in 1 .. h /\ h \in 1 .. h
    BY <1>14
  <2> QED
    BY <1>12, <1>15, <2>1
<1>18. ASSUME NEW i \in 1 .. k PROVE f[1 + i] = m[i]
  <2>1. 1 + i \in 1 .. h /\ 1 + i \in 1 .. 1 + k
    BY <1>14
  <2> QED
    BY <1>10, <1>12, <1>15, <2>1
<1>19. f = RadianceItems(p)
  BY <1>1, <1>2, <1>3, <1>4, <1>6, <1>7, <1>8, <1>9, <1>11, <1>13
  DEF RadianceItems, write_radiance_header
<1>20. x.kind = "magic" /\ y.kind = "blank"
  BY <1>2, <1>6 DEF Line
<1>21. IsRadiance(f, p, h)
  BY <1>1, <1>4, <1>5, <1>6, <1>14, <1>15, <1>16, <1>17, <1>18, <1>20 DEF IsRadiance
<1> QED
  BY <1>19, <1>21

HeadLength(p) == Len(HeaderRecords(p)) + 3

LEMMA RadianceKinds ==
  ASSUME NEW p, Describable(p), NEW f, NEW h, IsRadiance(f, p, h), NEW i \in 1 .. Len(f)
  PROVE  /\ f[i].kind = "resolution" => i = h /\ f[i].arg = Len(p.rows)
         /\ f[i].kind = "row" <=> i > h
         /\ i = h => f[i].kind = "resolution"
         /\ Plain(p) /\ f[i].kind = "blank" => i = h - 1
<1>1. PICK n \in Nat, k \in Nat : n = Len(p.rows) /\ k = Len(HeaderRecords(p))
  <2>1. Array(p.rows) /\ Array(HeaderRecords(p))
    BY RecordsKinds DEF Describable, AllKinds
  <2> QED
    BY <2>1, ArrayFacts
<1>2. /\ h = k + 3 /\ Len(f) = h + n /\ f[1].kind = "magic"
      /\ \A j \in 1 .. k : f[1 + j] = HeaderRecords(p)[j]
      /\ f[h - 1].kind = "blank" /\ f[h] = Line("resolution", n)
      /\ \A j \in 1 .. n : f[h + j] = Row(p, j)
  BY <1>1 DEF IsRadiance
<1>3. CASE i = 1
  BY <1>2, <1>3
<1>4. CASE i > 1 /\ i <= 1 + k
  <2>1. PICK j \in 1 .. k : i = 1 + j
    <3>1. i - 1 \in 1 .. k /\ i = 1 + (i - 1)
      BY <1>4
    <3> QED
      BY <3>1
  <2>2. f[i].kind \in DescriptionKinds /\ (Plain(p) => f[i].kind \in PlainKinds)
    BY <1>1, <1>2, <2>1, RecordsKinds DEF AllKinds
  <2>3. i # h /\ ~(i > h)
    BY <1>2, <1>4
  <2>4. /\ f[i].kind # "resolution" /\ f[i].kind # "row"
        /\ Plain(p) => f[i].kind # "blank"
    BY <2>2 DEF DescriptionKinds, PlainKinds
  <2> QED
    BY <2>3, <2>4
<1>5. CASE i = h - 1
  BY <1>2, <1>5
<1>6. CASE i = h
  BY <1>1, <1>2, <1>6 DEF Line
<1>7. CASE i > h
  <2>1. PICK j \in 1 .. n : i = h + j
    <3>1. i - h \in 1 .. n /\ i = h + (i - h)
      BY <1>2, <1>7
    <3> QED
      BY <3>1
  <2>2. f[i] = Row(p, j)
    BY <1>2, <2>1
  <2>3. f[i].kind = "row"
    BY <2>2 DEF Row
  <2> QED
    BY <1>2, <1>7, <2>3
<1>8. i = 1 \/ (i > 1 /\ i <= 1 + k) \/ i = h - 1 \/ i = h \/ i > h
  BY <1>2
<1> QED
  BY <1>3, <1>4, <1>5, <1>6, <1>7, <1>8

Behindblank == {"resolution", "row", "torn"}

(* What has been written of p when k of its items have been tried.         *)
WritingShape(f, k, p) ==
  LET h == HeadLength(p) IN
  /\ Array(f)
  /\ \A i \in 1 .. Len(f) :
       /\ f[i].kind = "resolution" => k >= h /\ f[i].arg = Len(p.rows)
       /\ f[i].kind = "row" => k > h
       /\ Plain(p) /\ f[i].kind = "blank" =>
            k >= h - 1 /\ (i < Len(f) => f[i + 1].kind \in Behindblank)
  /\ k >= h => \E g \in Nat :
       /\ Len(f) = g + (k - h)
       /\ \A i \in 1 .. Len(f) : f[i].kind = "resolution" => i = g
       /\ \A j \in 1 .. k - h : f[g + j] = Row(p, j)

(* What a file may look like when its writer is gone.                      *)
DiskShape(f, p) ==
  /\ Array(f)
  /\ \A i \in 1 .. Len(f) :
       /\ f[i].kind = "resolution" => f[i].arg = Len(p.rows)
       /\ Plain(p) /\ f[i].kind = "blank" /\ i < Len(f) => f[i + 1].kind \in Behindblank
  /\ \E g \in Nat :
       /\ \A i \in 1 .. Len(f) : f[i].kind = "resolution" => i = g
       /\ \A j \in 1 .. Len(p.rows) : g + j <= Len(f) => f[g + j] \in {Row(p, j), Torn}

LEMMA WritingGrown ==
  ASSUME NEW p, Describable(p), NEW items, IsRadiance(items, p, HeadLength(p)),
         NEW k \in Nat, k + 1 <= Len(items),
         NEW f, WritingShape(f, k, p), NEW g, Grown(g, f, items[k + 1])
  PROVE  WritingShape(g, k + 1, p)
<1>1. PICK h \in Nat, n \in Nat : h = HeadLength(p) /\ n = Len(p.rows) /\ Len(items) = h + n
  BY ArrayFacts DEF IsRadiance, Describable
<1>2. PICK l \in Nat : l = Len(f)
  BY ArrayFacts DEF WritingShape
<1>3. PICK x : x = items[k + 1]
  OBVIOUS
<1>4. /\ x.kind = "resolution" => k + 1 = h /\ x.arg = n
      /\ x.kind = "row" <=> k + 1 > h
      /\ k + 1 = h => x.kind = "resolution"
      /\ Plain(p) /\ x.kind = "blank" => k + 1 = h - 1
  <2>1. IsRadiance(items, p, h)
    BY <1>1
  <2>2. PICK j \in 1 .. Len(items) : j = k + 1
    <3>1. k + 1 \in 1 .. Len(items)
      BY <1>1
    <3> QED
      BY <3>1
  <2>3. /\ items[j].kind = "resolution" => j = h /\ items[j].arg = Len(p.rows)
        /\ items[j].kind = "row" <=> j > h
        /\ j = h => items[j].kind = "resolution"
        /\ Plain(p) /\ items[j].kind = "blank" => j = h - 1
    BY <2>1, RadianceKinds
  <2>4. x = items[j] /\ n = Len(p.rows)
    BY <1>1, <1>3, <2>2
  <2> QED
    BY <2>2, <2>3, <2>4
<1>5. /\ Array(g) /\ Len(g) = l + 1 /\ g[l + 1] = x
      /\ \A i \in 1 .. l : g[i] = f[i]
  BY <1>2, <1>3 DEF Grown
<1>6. ASSUME NEW i \in 1 .. l
      PROVE  /\ f[i].kind = "resolution" => k >= h /\ f[i].arg = n
             /\ f[i].kind = "row" => k > h
             /\ Plain(p) /\ f[i].kind = "blank" =>
                  k >= h - 1 /\ (i < l => f[i + 1].kind \in Behindblank)
  BY <1>1, <1>2 DEF WritingShape
<1>7. ASSUME NEW i \in 1 .. Len(g)
      PROVE  /\ g[i].kind = "resolution" => k + 1 >= h /\ g[i].arg = n
             /\ g[i].kind = "row" => k + 1 > h
             /\ Plain(p) /\ g[i].kind = "blank" =>
                  k + 1 >= h - 1 /\ (i < Len(g) => g[i + 1].kind \in Behindblank)
  <2>1. CASE i = l + 1
    BY <1>4, <1>5, <2>1
  <2>2. CASE i < l
    <3>1. i \in 1 .. l /\ i + 1 \in 1 .. l /\ g[i] = f[i] /\ g[i + 1] = f[i + 1]
      BY <1>5, <2>2
    <3> QED
      BY <1>6, <2>2, <3>1
  <2>3. CASE i = l
    <3>1. i \in 1 .. l /\ g[i] = f[i] /\ g[i + 1] = x
      BY <1>5, <2>3
    <3>2. k >= h - 1 => x.kind \in Behindblank
      BY <1>4 DEF Behindblank
    <3> QED
      BY <1>6, <3>1, <3>2
  <2> QED
    BY <1>5, <2>1, <2>2, <2>3
<1>8. ASSUME k + 1 >= h
      PROVE  \E b \in Nat :
               /\ Len(g) = b + ((k + 1) - h)
               /\ \A i \in 1 .. Len(g) : g[i].kind = "resolution" => i = b
               /\ \A j \in 1 .. (k + 1) - h : g[b + j] = Row(p, j)
  <2>1. CASE k + 1 = h
    <3>1. \A i \in 1 .. Len(g) : g[i].kind = "resolution" => i = l + 1
      <4>1. ASSUME NEW i \in 1 .. Len(g), g[i].kind = "resolution", i # l + 1 PROVE FALSE
        <5>1. i \in 1 .. l
          BY <1>5, <4>1
        <5> QED
          BY <1>5, <1>6, <2>1, <4>1, <5>1
      <4> QED
        BY <4>1
    <3>2. l + 1 \in Nat /\ Len(g) = (l + 1) + ((k + 1) - h)
      BY <1>5, <2>1
    <3>3. \A j \in 1 .. (k + 1) - h : FALSE
      BY <2>1
    <3> QED
      BY <3>1, <3>2, <3>3
  <2>2. CASE k >= h
    <3>1. PICK b \in Nat : /\ l = b + (k - h)
                           /\ \A i \in 1 .. l : f[i].kind = "resolution" => i = b
                           /\ \A j \in 1 .. k - h : f[b + j] = Row(p, j)
      BY <1>1, <1>2, <2>2 DEF WritingShape
    <3>2. Len(g) = b + ((k + 1) - h)
      BY <1>5, <3>1
    <3>3. \A i \in 1 .. Len(g) : g[i].kind = "resolution" => i = b
      <4>1. x.kind # "resolution"
        BY <1>4, <2>2
      <4>2. ASSUME NEW i \in 1 .. Len(g), g[i].kind = "resolution" PROVE i = b
        <5>1. i # l + 1
          BY <1>5, <4>1, <4>2
        <5>2. i \in 1 .. l /\ g[i] = f[i]
          BY <1>5, <5>1
        <5> QED
          BY <3>1, <4>2, <5>2
      <4> QED
        BY <4>2
    <3>4. ASSUME NEW j \in 1 .. (k + 1) - h PROVE g[b + j] = Row(p, j)
      <4>1. CASE j <= k - h
        <5>1. b + j \in 1 .. l /\ j \in 1 .. k - h
          BY <3>1, <4>1
        <5> QED
          BY <1>5, <3>1, <5>1
      <4>2. CASE j = (k + 1) - h
        <5>1. b + j = l + 1 /\ h + j = k + 1 /\ j \in 1 .. n
          <6>1. k + 1 <= h + n /\ l = b + (k - h) /\ j = (k + 1) - h
            BY <1>1, <3>1, <4>2
          <6>2. j <= n /\ j >= 1 /\ j \in Int
            BY <2>2, <6>1
          <6>3. b + j = l + 1 /\ h + j = k + 1
            BY <6>1
          <6> QED
            BY <6>2, <6>3
        <5>2. items[h + j] = Row(p, j)
          BY <1>1, <5>1 DEF IsRadiance
        <5> QED
          BY <1>3, <1>5, <5>1, <5>2
      <4> QED
        BY <2>2, <4>1, <4>2
    <3> QED
      BY <3>2, <3>3, <3>4
  <2> QED
    BY <1>8, <2>1, <2>2
<1> QED
  BY <1>1, <1>5, <1>7, <1>8 DEF WritingShape


(* A line that is lost with what was in the buffer before it. *)
LEMMA WritingLost ==
  ASSUME NEW p, NEW k \in Nat, HeadLength(p) \in Nat, k <= HeadLength(p),
         NEW f, WritingShape(f, k, p), NEW d, Damaged(d, f)
  PROVE  WritingShape(d, k, p)
<1>1. PICK h \in Nat : h = HeadLength(p)
  OBVIOUS
<1>2. PICK l \in Nat, c \in Nat : l = Len(f) /\ c = Len(d) /\ c <= l /\ Array(d)
  <2>1. Array(f) /\ Array(d) /\ Len(d) <= Len(f)
    BY DEF WritingShape, Damaged
  <2> QED
    BY <2>1, ArrayFacts
<1>3. ASSUME NEW i \in 1 .. c
      PROVE  i \in 1 .. l /\ (d[i] = f[i] \/ d[i].kind = "torn")
  <2>1. d[i] \in {f[i], Torn}
    BY <1>2 DEF Damaged
  <2> QED
    BY <1>2, <2>1 DEF Torn
<1>4. ASSUME NEW i \in 1 .. l
      PROVE  /\ f[i].kind = "resolution" => k >= h /\ f[i].arg = Len(p.rows)
             /\ f[i].kind = "row" => k > h
             /\ Plain(p) /\ f[i].kind = "blank" =>
                  k >= h - 1 /\ (i < l => f[i + 1].kind \in Behindblank)
  BY <1>1, <1>2 DEF WritingShape
<1>5. ASSUME NEW i \in 1 .. c
      PROVE  /\ d[i].kind = "resolution" => k >= h /\ d[i].arg = Len(p.rows)
             /\ d[i].kind = "row" => k > h
             /\ Plain(p) /\ d[i].kind = "blank" =>
                  k >= h - 1 /\ (i < c => d[i + 1].kind \in Behindblank)
  <2>1. i < c => d[i + 1] = f[i + 1] \/ d[i + 1].kind \in Behindblank
    <3>1. i < c => i + 1 \in 1 .. c
      BY <1>2
    <3> QED
      BY <1>3, <3>1 DEF Behindblank
  <2> QED
    BY <1>2, <1>3, <1>4, <2>1
<1>6. ASSUME k >= h
      PROVE  \E b \in Nat : /\ c = b + (k - h)
                            /\ \A i \in 1 .. c : d[i].kind = "resolution" => i = b
                            /\ \A j \in 1 .. k - h : d[b + j] = Row(p, j)
  <2>1. k = h
    BY <1>1, <1>6
  <2>2. PICK b \in Nat : /\ l = b + (k - h)
                         /\ \A i \in 1 .. l : f[i].kind = "resolution" => i = b
    BY <1>1, <1>2, <1>6 DEF WritingShape
  <2>3. b = l
    BY <2>1, <2>2
  <2>4. \A i \in 1 .. c : d[i].kind = "resolution" => i = c
    <3>1. ASSUME NEW i \in 1 .. c, d[i].kind = "resolution" PROVE i = c
      <4>1. i = l
        BY <1>3, <2>2, <2>3, <3>1
      <4> QED
        BY <1>2, <4>1
    <3> QED
      BY <3>1
  <2>5. c = c + (k - h)
    BY <2>1
  <2>6. \A j \in 1 .. k - h : FALSE
    BY <2>1
  <2> QED
    BY <2>4, <2>5, <2>6
<1> QED
  BY <1>1, <1>2, <1>5, <1>6 DEF WritingShape

(* What is left of a file when its writer is gone. *)
LEMMA WritingDisk ==
  ASSUME NEW p, NEW k \in Nat, HeadLength(p) \in Nat,
         NEW f, WritingShape(f, k, p), NEW d, Damaged(d, f)
  PROVE  DiskShape(d, p)
<1>1. PICK h \in Nat : h = HeadLength(p)
  OBVIOUS
<1>2. PICK l \in Nat, c \in Nat : l = Len(f) /\ c = Len(d) /\ c <= l /\ Array(d)
  <2>1. Array(f) /\ Array(d) /\ Len(d) <= Len(f)
    BY DEF WritingShape, Damaged
  <2> QED
    BY <2>1, ArrayFacts
<1>3. ASSUME NEW i \in 1 .. c
      PROVE  i \in 1 .. l /\ d[i] \in {f[i], Torn} /\ (d[i] = f[i] \/ d[i].kind = "torn")
  <2>1. d[i] \in {f[i], Torn}
    BY <1>2 DEF Damaged
  <2> QED
    BY <1>2, <2>1 DEF Torn
<1>4. ASSUME NEW i \in 1 .. l
      PROVE  /\ f[i].kind = "resolution" => k >= h /\ f[i].arg = Len(p.rows)
             /\ Plain(p) /\ f[i].kind = "blank" /\ i < l => f[i + 1].kind \in Behindblank
  BY <1>1, <1>2 DEF WritingShape
<1>5. ASSUME NEW i \in 1 .. c
      PROVE  /\ d[i].kind = "resolution" => d[i].arg = Len(p.rows)
             /\ Plain(p) /\ d[i].kind = "blank" /\ i < c => d[i + 1].kind \in Behindblank
  <2>1. i < c => d[i + 1] = f[i + 1] \/ d[i + 1].kind \in Behindblank
    <3>1. i < c => i + 1 \in 1 .. c
      BY <1>2
    <3> QED
      BY <1>3, <3>1 DEF Behindblank
  <2> QED
    BY <1>2, <1>3, <1>4, <2>1
<1>6. \E g \in Nat :
        /\ \A i \in 1 .. c : d[i].kind = "resolution" => i = g
        /\ \A j \in 1 .. Len(p.rows) : g + j <= c => d[g + j] \in {Row(p, j), Torn}
  <2>1. CASE k < h
    <3>1. \A i \in 1 .. c : d[i].kind = "resolution" => i = c
      BY <1>3, <1>4, <2>1
    <3>2. \A j \in 1 .. Len(p.rows) : c + j <= c => FALSE
      OBVIOUS
    <3> QED
      BY <3>1, <3>2
  <2>2. CASE k >= h
    <3>1. PICK b \in Nat : /\ l = b + (k - h)
                           /\ \A i \in 1 .. l : f[i].kind = "resolution" => i = b
                           /\ \A j \in 1 .. k - h : f[b + j] = Row(p, j)
      BY <1>1, <1>2, <2>2 DEF WritingShape
    <3>2. \A i \in 1 .. c : d[i].kind = "resolution" => i = b
      BY <1>3, <3>1
    <3>3. ASSUME NEW j \in 1 .. Len(p.rows), b + j <= c
          PROVE  d[b + j] \in {Row(p, j), Torn}
      <4>1. b + j \in 1 .. c /\ j \in 1 .. k - h
        BY <1>1, <1>2, <3>1, <3>3
      <4> QED
        BY <1>3, <3>1, <4>1
    <3> QED
      BY <3>2, <3>3
  <2>3. k < h \/ k >= h
    BY <1>1
  <2> QED
    BY <2>1, <2>2, <2>3
<1> QED
  BY <1>2, <1>5, <1>6 DEF DiskShape

LEMMA WritingFirst ==
  ASSUME NEW p, HeadLength(p) \in Nat, HeadLength(p) > 0, NEW f, f = <<>>
  PROVE  WritingShape(f, 0, p)
<1>1. Array(f) /\ Len(f) = 0
  BY SingleArray
<1>2. ~(0 >= HeadLength(p))
  OBVIOUS
<1>3. \A i \in 1 .. Len(f) : FALSE
  BY <1>1
<1> QED
  BY <1>1, <1>2, <1>3 DEF WritingShape

-----------------------------------------------------------------------------
(* What a reader makes of a Radiance file.  Its header ends at the first   *)
(* empty line.                                                             *)
EndsAt(f, b) == /\ b \in 1 .. Len(f) /\ f[b].kind = "blank"
                /\ \A i \in 1 .. b - 1 : f[i].kind # "blank"

LEMMA EndFound ==
  ASSUME NEW f, Array(f), OfKind(f, "blank") # {}
  PROVE  \E b \in 1 .. Len(f) : /\ EndsAt(f, b)
                                /\ IsPart(HeaderOf(f), f, 2, b - 1)
                                /\ IsPart(BehindHeader(f), f, b + 1, Len(f))
<1>1. PICK n \in Nat : n = Len(f)
  BY ArrayFacts
<1>2. PICK S : S = OfKind(f, "blank")
  OBVIOUS
<1>3. S \in SUBSET (1 .. n) /\ S # {}
  BY <1>1, <1>2 DEF OfKind
<1>4. PICK b \in S : \A i \in S : b <= i
  BY <1>3, SmallestElement
<1>5. b \in 1 .. n /\ f[b].kind = "blank"
  BY <1>1, <1>2, <1>4 DEF OfKind
<1>6. \A i \in 1 .. b - 1 : f[i].kind # "blank"
  <2>1. ASSUME NEW i \in 1 .. b - 1, f[i].kind = "blank" PROVE FALSE
    <3>1. i \in S
      BY <1>1, <1>2, <1>5, <2>1 DEF OfKind
    <3> QED
      BY <1>4, <1>5, <3>1
  <2> QED
    BY <2>1
<1>7. Least(S) = b
  <2>1. \A c \in S : (\A i \in S : c <= i) => c = b
    <3>1. \A c \in S : c \in Int
      BY <1>3
    <3> QED
      BY <1>4, <3>1
  <2> QED
    BY <1>4, <2>1 DEF Least
<1>8. PICK two \in Nat, e \in Int : two = 2 /\ e = b - 1
  <2>1. b - 1 \in Int
    BY <1>5
  <2> QED
    BY <2>1
<1>9. PICK s \in Nat : s = b + 1
  <2>1. b + 1 \in Nat
    BY <1>5
  <2> QED
    BY <2>1
<1>10. two > 0 /\ e <= Len(f) /\ s > 0 /\ n <= Len(f) /\ n \in Int
  BY <1>1, <1>5, <1>8, <1>9
<1>11. IsPart(SubSeq(f, two, e), f, two, e) /\ IsPart(SubSeq(f, s, n), f, s, n)
  BY <1>10, SubSeqArray
<1>12. HeaderOf(f) = SubSeq(f, two, e) /\ BehindHeader(f) = SubSeq(f, s, n)
  BY <1>1, <1>2, <1>7, <1>8, <1>9 DEF HeaderOf, BehindHeader
<1>13. EndsAt(f, b)
  BY <1>1, <1>5, <1>6 DEF EndsAt
<1> QED
  BY <1>1, <1>5, <1>8, <1>9, <1>11, <1>12, <1>13

(* What stands behind the header. *)
LEMMA BehindFacts ==
  ASSUME NEW f, Array(f), NEW b \in 1 .. Len(f),
         IsPart(BehindHeader(f), f, b + 1, Len(f)), BehindHeader(f) # <<>>
  PROVE  /\ b < Len(f) /\ BehindHeader(f)[1] = f[b + 1]
         /\ Array(Tail(BehindHeader(f)))
         /\ Len(Tail(BehindHeader(f))) = Len(f) - (b + 1)
         /\ \A i \in 1 .. Len(f) - (b + 1) : Tail(BehindHeader(f))[i] = f[(b + 1) + i]
<1>1. PICK n \in Nat : n = Len(f)
  BY ArrayFacts
<1>2. PICK g : g = BehindHeader(f)
  OBVIOUS
<1>3. /\ Array(g) /\ Len(g) = IF b + 1 <= n THEN n - (b + 1) + 1 ELSE 0
      /\ \A i \in 1 .. n - (b + 1) + 1 : g[i] = f[((b + 1) - 1) + i]
  BY <1>1, <1>2 DEF IsPart
<1>4. /\ Len(g) > 0 /\ Array(Tail(g)) /\ Len(Tail(g)) = Len(g) - 1
      /\ \A i \in 1 .. Len(g) - 1 : Tail(g)[i] = g[i + 1]
  BY <1>2, <1>3, TailArray
<1>5. b < n /\ Len(g) = n - b
  BY <1>1, <1>3, <1>4
<1>6. g[1] = f[b + 1]
  <2>1. 1 \in 1 .. n - (b + 1) + 1 /\ ((b + 1) - 1) + 1 = b + 1
    BY <1>1, <1>5
  <2> QED
    BY <1>3, <2>1
<1>7. ASSUME NEW i \in 1 .. n - (b + 1) PROVE Tail(g)[i] = f[(b + 1) + i]
  <2>1. /\ i \in 1 .. Len(g) - 1 /\ i + 1 \in 1 .. n - (b + 1) + 1
        /\ ((b + 1) - 1) + (i + 1) = (b + 1) + i
    BY <1>1, <1>5
  <2> QED
    BY <1>3, <1>4, <2>1
<1>8. Len(Tail(g)) = n - (b + 1)
  BY <1>1, <1>4, <1>5
<1> QED
  BY <1>1, <1>2, <1>4, <1>5, <1>6, <1>7, <1>8

NoRows(f) == \A i \in 1 .. Len(f) : f[i].kind # "row"

(* The rows of what DiskShape allows: those of the picture, if its         *)
(* description is plain.                                                   *)
LEMMA RowsFound ==
  ASSUME NEW p, Describable(p), NEW f, DiskShape(f, p), GoodHeader(f),
         NEW rows \in RowsRead(Tail(BehindHeader(f)), str2resolu(BehindHeader(f)[1])),
         rows # <<>>
  PROVE  /\ Array(rows) /\ Len(rows) > 0
         /\ Plain(p) => rows = p.rows /\ ~NoRows(f)
<1>1. Array(f)
  BY DEF DiskShape
<1>2. /\ OfKind(f, "blank") # {} /\ BehindHeader(f) # <<>>
      /\ str2resolu(BehindHeader(f)[1]) > 0
  BY DEF GoodHeader
<1>3. PICK b \in 1 .. Len(f) : EndsAt(f, b) /\ IsPart(BehindHeader(f), f, b + 1, Len(f))
  BY <1>1, <1>2, EndFound
<1>4. PICK l \in Nat, n \in Nat : l = Len(f) /\ n = Len(p.rows)
  BY <1>1, ArrayFacts DEF Describable
<1>5. PICK t : /\ t = Tail(BehindHeader(f)) /\ Array(t) /\ Len(t) = l - (b + 1)
               /\ \A i \in 1 .. l - (b + 1) : t[i] = f[(b + 1) + i]
               /\ b < l /\ BehindHeader(f)[1] = f[b + 1]
  BY <1>1, <1>2, <1>3, <1>4, BehindFacts
<1>6. PICK x : x = f[b + 1]
  OBVIOUS
<1>7. PICK m : m = str2resolu(x)
  OBVIOUS
<1>8. b + 1 \in 1 .. l /\ b < Len(f)
  BY <1>4, <1>5
<1>9. x.kind = "resolution" => x.arg = n
  BY <1>4, <1>6, <1>8 DEF DiskShape
<1>10. m \in Nat /\ m > 0 /\ (x.kind # "text" => x.kind = "resolution" /\ m = n)
  <2>1. m > 0
    BY <1>2, <1>5, <1>6, <1>7
  <2>2. CASE x.kind = "resolution"
    BY <1>7, <1>9, <2>1, <2>2 DEF str2resolu
  <2>3. CASE x.kind # "resolution"
    <3>1. x.kind = "text" /\ m = 1
      BY <1>7, <2>1, <2>3 DEF str2resolu
    <3> QED
      BY <2>3, <3>1
  <2> QED
    BY <2>2, <2>3
<1>11. PICK odd : odd = (\E i \in 1 .. Len(t) : i <= m /\ t[i].kind \notin {"row", "torn"})
  OBVIOUS
<1>12. \/ odd /\ rows = [i \in 1 .. m |-> Garbage]
       \/ /\ Len(t) >= m /\ \A i \in 1 .. m : t[i].kind = "row"
          /\ rows = [i \in 1 .. m |-> t[i].row]
  BY <1>5, <1>6, <1>7, <1>11 DEF RowsRead
<1>13. Array(rows) /\ Len(rows) > 0
  <2>1. rows = [i \in 1 .. m |-> rows[i]]
    BY <1>12
  <2> QED
    BY <1>10, <2>1, FunctionArray
<1>14. ASSUME Plain(p) PROVE rows = p.rows /\ ~NoRows(f)
  <2>1. x.kind \in Behindblank
    <3>1. f[b].kind = "blank"
      BY <1>3 DEF EndsAt
    <3> QED
      BY <1>6, <1>8, <1>14, <3>1 DEF DiskShape
  <2>2. x.kind = "resolution" /\ m = n
    BY <1>10, <2>1 DEF Behindblank
  <2>3. PICK g \in Nat :
          /\ \A i \in 1 .. Len(f) : f[i].kind = "resolution" => i = g
          /\ \A j \in 1 .. Len(p.rows) : g + j <= Len(f) => f[g + j] \in {Row(p, j), Torn}
    BY DEF DiskShape
  <2>4. g = b + 1
    BY <1>4, <1>6, <1>8, <2>2, <2>3
  <2>5. ASSUME NEW i \in 1 .. Len(t), i <= m PROVE t[i] \in {Row(p, i), Torn}
    <3>1. i \in 1 .. l - (b + 1) /\ (b + 1) + i <= l /\ i \in 1 .. n
      BY <1>4, <1>5, <2>2, <2>5
    <3>2. t[i] = f[g + i]
      BY <1>5, <2>4, <3>1
    <3>3. f[g + i] \in {Row(p, i), Torn}
      BY <1>4, <2>3, <2>4, <3>1
    <3> QED
      BY <3>2, <3>3
  <2>6. ~odd
    <3>1. ASSUME NEW i \in 1 .. Len(t), i <= m PROVE t[i].kind \in {"row", "torn"}
      BY <2>5, <3>1 DEF Row, Torn
    <3> QED
      BY <1>11, <3>1
  <2>7. /\ Len(t) >= n /\ \A i \in 1 .. n : t[i].kind = "row"
        /\ rows = [i \in 1 .. n |-> t[i].row]
    BY <1>12, <2>2, <2>6
  <2>8. ASSUME NEW i \in 1 .. n PROVE t[i].row = p.rows[i]
    <3>1. i \in 1 .. Len(t) /\ i <= m
      BY <1>4, <1>5, <2>2, <2>7
    <3>2. t[i] \in {Row(p, i), Torn} /\ t[i].kind = "row"
      BY <2>5, <2>7, <3>1
    <3>3. t[i] = Row(p, i)
      BY <3>2 DEF Torn
    <3> QED
      BY <3>3 DEF Row
  <2>9. p.rows = [i \in 1 .. n |-> p.rows[i]]
    BY <1>4, ArrayFacts DEF Describable
  <2>10. ~NoRows(f)
    <3>1. 1 \in 1 .. n /\ 1 \in 1 .. l - (b + 1) /\ (b + 1) + 1 \in 1 .. l
      BY <1>4, <1>5, <1>10, <2>2, <2>7
    <3>2. f[(b + 1) + 1].kind = "row"
      BY <1>5, <2>7, <3>1
    <3> QED
      BY <1>4, <3>1, <3>2 DEF NoRows
  <2> QED
    BY <2>7, <2>8, <2>9, <2>10
<1> QED
  BY <1>13, <1>14

(* The text of a header, line by line. *)
WithText(t, l) == IF l.kind = "text" THEN Append(t, l) ELSE t

LEMMA TextRunFound ==
  ASSUME NEW f, Array(f), NEW n \in Nat, n = Len(f)
  PROVE  \E T : /\ T[0] = <<>> /\ \A i \in 1 .. n : T[i] = WithText(T[i - 1], f[i])
                /\ TextLines(f) = T[n]
<1>1. PICK X : f \in Seq(X)
  BY DEF Array
<1>2. PICK S : S = Seq(X)
  OBVIOUS
<1>3. PICK g : g = [i \in 1 .. n |-> [t \in S |-> WithText(t, f[i])]]
  OBVIOUS
<1>4. g \in [1 .. n -> [S -> S]]
  <2>1. \A i \in 1 .. n : f[i] \in X
    BY <1>1
  <2> QED
    BY <1>2, <1>3, <2>1, AppendProperties DEF WithText
<1>5. PICK nothing : nothing \in S /\ nothing = <<>>
  <2>1. <<>> \in Seq(X)
    OBVIOUS
  <2> QED
    BY <1>2, <2>1
<1>6. PICK T : RunOf(n, S, nothing, g, T)
  BY <1>4, <1>5, RunExists
<1>7. T = [i \in 0 .. n |-> T[i]] /\ T[0] = <<>>
  BY <1>5, <1>6 DEF RunOf
<1>8. ASSUME NEW i \in 1 .. n PROVE T[i] = WithText(T[i - 1], f[i])
  <2>1. T[i] = g[i][T[i - 1]] /\ T[i - 1] \in S
    BY <1>6 DEF RunOf
  <2> QED
    BY <1>3, <2>1
<1>9. PICK P : P = [i \in 0 .. n |->
                     IF i = 0 THEN <<>>
                     ELSE IF f[i].kind = "text" THEN Append(P[i - 1], f[i]) ELSE P[i - 1]]
  <2>1. \A i \in 0 .. n : i # 0 => i \in 1 .. n
    OBVIOUS
  <2>2. \A i \in 0 .. n : T[i] = IF i = 0 THEN <<>>
                     ELSE IF f[i].kind = "text" THEN Append(T[i - 1], f[i]) ELSE T[i - 1]
    BY <1>7, <1>8, <2>1 DEF WithText
  <2>3. T = [i \in 0 .. n |->
                     IF i = 0 THEN <<>>
                     ELSE IF f[i].kind = "text" THEN Append(T[i - 1], f[i]) ELSE T[i - 1]]
    BY <1>7, <2>2
  <2> QED
    BY <2>3
<1>10. PICK U : /\ U = [i \in 0 .. n |->
                     IF i = 0 THEN <<>>
                     ELSE IF f[i].kind = "text" THEN Append(U[i - 1], f[i]) ELSE U[i - 1]]
                /\ TextLines(f) = U[n]
  BY <1>9 DEF TextLines
<1>11. ASSUME NEW i \in 0 .. n
       PROVE  U[i] = IF i = 0 THEN <<>>
                     ELSE IF f[i].kind = "text" THEN Append(U[i - 1], f[i]) ELSE U[i - 1]
  BY <1>10
<1>12. U[0] = <<>> /\ \A i \in 1 .. n : U[i] = WithText(U[i - 1], f[i])
  <2>1. 0 \in 0 .. n /\ \A i \in 1 .. n : i \in 0 .. n /\ i # 0
    OBVIOUS
  <2> QED
    BY <1>11, <2>1 DEF WithText
<1> QED
  BY <1>10, <1>12

(* What a reader takes for a description is text.                          *)
LEMMA TextLinesKinds ==
  ASSUME NEW f, Array(f)
  PROVE  AllKinds(TextLines(f), {"text"})
<1>1. PICK n \in Nat : n = Len(f)
  BY ArrayFacts
<1>2. PICK T : /\ T[0] = <<>> /\ \A i \in 1 .. n : T[i] = WithText(T[i - 1], f[i])
               /\ TextLines(f) = T[n]
  BY <1>1, TextRunFound
<1>3. PICK K : K = {i \in 0 .. n : AllKinds(T[i], {"text"})}
  OBVIOUS
<1>4. 0 \in K
  BY <1>2, <1>3, KindsSingle
<1>5. ASSUME NEW i \in 0 .. n - 1, i \in K PROVE i + 1 \in K
  <2>1. i + 1 \in 1 .. n /\ i + 1 \in 0 .. n /\ (i + 1) - 1 = i
    OBVIOUS
  <2>2. T[i + 1] = WithText(T[i], f[i + 1])
    BY <1>2, <2>1
  <2>3. AllKinds(T[i], {"text"})
    BY <1>3, <1>5
  <2>4. AllKinds(T[i + 1], {"text"})
    <3>1. CASE f[i + 1].kind = "text"
      <4>1. T[i + 1] = Append(T[i], f[i + 1])
        BY <2>2, <3>1 DEF WithText
      <4>2. Array(T[i])
        BY <2>3 DEF AllKinds
      <4>3. PICK a, x : a = T[i] /\ x = f[i + 1]
        OBVIOUS
      <4>4. PICK c : /\ c = Append(a, x) /\ Array(c) /\ Len(c) = Len(a) + 1
                     /\ \A j \in 1 .. Len(a) : c[j] = a[j]
                     /\ c[Len(a) + 1] = x
        <5>1. Array(a)
          BY <4>2, <4>3
        <5> QED
          BY <5>1, AppendArray
      <4>5. Len(a) \in Nat
        BY <4>2, <4>3, ArrayFacts
      <4>6. ASSUME NEW j \in 1 .. Len(c) PROVE c[j].kind \in {"text"}
        <5>1. j \in 1 .. Len(a) \/ j = Len(a) + 1
          BY <4>4, <4>5
        <5>2. \A q \in 1 .. Len(a) : a[q].kind \in {"text"}
          BY <2>3, <4>3 DEF AllKinds
        <5> QED
          BY <3>1, <4>3, <4>4, <5>1, <5>2
      <4> QED
        BY <4>1, <4>3, <4>4, <4>6 DEF AllKinds
    <3>2. CASE f[i + 1].kind # "text"
      BY <2>2, <2>3, <3>2 DEF WithText
    <3> QED
      BY <3>1, <3>2
  <2> QED
    BY <1>3, <2>1, <2>4
<1>6. n \in K
  BY <1>4, <1>5, FromZero
<1> QED
  BY <1>2, <1>3, <1>6

-----------------------------------------------------------------------------
(* The meaning of the header that is written, of a picture with a plain    *)
(* description: x is 1 if there is an EXPOSURE, y if there is a VIEW.      *)
IsRecords(R, p, x, y) ==
  /\ Array(R) /\ x \in Nat /\ y \in Nat /\ Len(R) = (Len(p.text) + x) + y + 1
  /\ \A i \in 1 .. Len(p.text) : R[i] = p.text[i]
  /\ x = 0 \/ x = 1
  /\ x = 1 <=> p.exposure_set
  /\ x = 1 => R[Len(p.text) + 1] = Line("exposure", Printed(p.exposure))
  /\ y = 0 \/ y = 1
  /\ y = 1 <=> ViewWritten(p).type # NullView.type
  /\ y = 1 => R[(Len(p.text) + x) + 1] = Line("view", ViewWritten(p))
  /\ R[(Len(p.text) + x) + y + 1] = Line("format", "rgbe")

LEMMA RecordsAre ==
  ASSUME NEW p, Describable(p)
  PROVE  \E x, y : IsRecords(HeaderRecords(p), p, x, y)
<1>1. Array(p.text)
  BY DEF Describable
<1>2. PICK t \in Nat : t = Len(p.text)
  BY <1>1, ArrayFacts
<1>3. PICK e : e = ExposureLines(p)
  OBVIOUS
<1>4. PICK x \in Nat : /\ Array(e) /\ Len(e) = x
                       /\ x = 0 \/ x = 1
                       /\ x = 1 <=> p.exposure_set
                       /\ x = 1 => e[1] = Line("exposure", Printed(p.exposure))
  <2>1. CASE p.exposure_set
    <3>1. e = <<Line("exposure", Printed(p.exposure))>>
      BY <1>3, <2>1 DEF ExposureLines
    <3>2. Array(e) /\ Len(e) = 1 /\ e[1] = Line("exposure", Printed(p.exposure))
      BY <3>1, SingleArray
    <3> QED
      BY <2>1, <3>2
  <2>2. CASE ~p.exposure_set
    <3>1. e = <<>>
      BY <1>3, <2>2 DEF ExposureLines
    <3>2. Array(e) /\ Len(e) = 0
      BY <3>1, SingleArray
    <3> QED
      BY <2>2, <3>2
  <2> QED
    BY <2>1, <2>2
<1>5. PICK v : v = ViewLines(p)
  OBVIOUS
<1>6. PICK y \in Nat : /\ Array(v) /\ Len(v) = y
                       /\ y = 0 \/ y = 1
                       /\ y = 1 <=> ViewWritten(p).type # NullView.type
                       /\ y = 1 => v[1] = Line("view", ViewWritten(p))
  <2>1. CASE ViewWritten(p).type # NullView.type
    <3>1. v = <<Line("view", ViewWritten(p))>>
      BY <1>5, <2>1 DEF ViewLines
    <3>2. Array(v) /\ Len(v) = 1 /\ v[1] = Line("view", ViewWritten(p))
      BY <3>1, SingleArray
    <3> QED
      BY <2>1, <3>2
  <2>2. CASE ViewWritten(p).type = NullView.type
    <3>1. v = <<>>
      BY <1>5, <2>2 DEF ViewLines
    <3>2. Array(v) /\ Len(v) = 0
      BY <3>1, SingleArray
    <3> QED
      BY <2>2, <3>2
  <2> QED
    BY <2>1, <2>2
<1>7. PICK z : z = Line("format", "rgbe")
  OBVIOUS
<1>8. PICK g : g = <<z>> /\ Array(g) /\ Len(g) = 1 /\ g[1] = z
  BY SingleArray
<1>9. PICK a : a = p.text \o e /\ Joined(a, p.text, e)
  BY <1>1, <1>4, ConcatArray
<1>10. /\ Array(a) /\ Len(a) = t + x
       /\ \A i \in 1 .. t : a[i] = p.text[i]
       /\ \A i \in 1 .. x : a[t + i] = e[i]
  BY <1>2, <1>4, <1>9 DEF Joined
<1>11. PICK b : b = a \o v /\ Joined(b, a, v)
  BY <1>6, <1>10, ConcatArray
<1>12. /\ Array(b) /\ Len(b) = (t + x) + y
       /\ \A i \in 1 .. t + x : b[i] = a[i]
       /\ \A i \in 1 .. y : b[(t + x) + i] = v[i]
  BY <1>6, <1>10, <1>11 DEF Joined
<1>13. PICK R : R = b \o g /\ Joined(R, b, g)
  BY <1>8, <1>12, ConcatArray
<1>14. /\ Array(R) /\ Len(R) = (t + x) + y + 1
       /\ \A i \in 1 .. (t + x) + y : R[i] = b[i]
       /\ R[(t + x) + y + 1] = z
  BY <1>8, <1>12, <1>13 DEF Joined
<1>15. R = HeaderRecords(p)
  BY <1>3, <1>5, <1>7, <1>8, <1>9, <1>11, <1>13 DEF HeaderRecords
<1>16. \A i \in 1 .. t : R[i] = p.text[i]
  <2>1. ASSUME NEW i \in 1 .. t PROVE R[i] = p.text[i]
    <3>1. i \in 1 .. (t + x) + y /\ i \in 1 .. t + x
      OBVIOUS
    <3> QED
      BY <1>10, <1>12, <1>14, <3>1
  <2> QED
    BY <2>1
<1>17. x = 1 => R[t + 1] = e[1]
  <2>1. x = 1 => t + 1 \in 1 .. (t + x) + y /\ t + 1 \in 1 .. t + x /\ 1 \in 1 .. x
    OBVIOUS
  <2> QED
    BY <1>10, <1>12, <1>14, <2>1
<1>18. y = 1 => R[(t + x) + 1] = v[1]
  <2>1. y = 1 => (t + x) + 1 \in 1 .. (t + x) + y /\ 1 \in 1 .. y
    OBVIOUS
  <2> QED
    BY <1>12, <1>14, <2>1
<1>19. IsRecords(R, p, x, y)
  BY <1>2, <1>4, <1>6, <1>7, <1>14, <1>16, <1>17, <1>18 DEF IsRecords
<1> QED
  BY <1>15, <1>19

(* The kind of each of its lines. *)
KindsRight(R, i, t, x, y) ==
  /\ R[i].kind = "text" <=> i <= t
  /\ R[i].kind = "exposure" <=> x = 1 /\ i = t + 1
  /\ R[i].kind = "view" <=> y = 1 /\ i = (t + x) + 1
  /\ R[i].kind = "format" <=> i = (t + x) + y + 1
  /\ R[i].kind # "indented view"

LEMMA RecordKinds ==
  ASSUME NEW p, Describable(p), Plain(p), NEW R, NEW x, NEW y, IsRecords(R, p, x, y),
         NEW t \in Nat, t = Len(p.text), NEW i \in 1 .. Len(R)
  PROVE  KindsRight(R, i, t, x, y)
<1> USE DEF KindsRight
<1>1. x \in Nat /\ y \in Nat /\ Len(R) = (t + x) + y + 1 /\ (x = 0 \/ x = 1) /\ (y = 0 \/ y = 1)
  BY DEF IsRecords
<1>2. CASE i <= t
  <2>1. i \in 1 .. t
    BY <1>2
  <2>2. R[i] = p.text[i] /\ p.text[i].kind = "text"
    BY <2>1 DEF IsRecords, Plain
  <2>3. R[i].kind = "text"
    BY <2>2
  <2>4. i # t + 1 /\ i # (t + x) + 1 /\ i # (t + x) + y + 1
    BY <1>1, <1>2
  <2> QED
    BY <1>2, <2>3, <2>4
<1>3. CASE x = 1 /\ i = t + 1
  <2>1. R[i] = Line("exposure", Printed(p.exposure))
    BY <1>3 DEF IsRecords
  <2>2. R[i].kind = "exposure"
    BY <2>1 DEF Line
  <2>3. ~(i <= t) /\ i # (t + x) + 1 /\ i # (t + x) + y + 1
    BY <1>1, <1>3
  <2> QED
    BY <1>3, <2>2, <2>3
<1>4. CASE y = 1 /\ i = (t + x) + 1
  <2>1. R[i] = Line("view", ViewWritten(p))
    BY <1>4 DEF IsRecords
  <2>2. R[i].kind = "view"
    BY <2>1 DEF Line
  <2>3. ~(i <= t) /\ (x = 1 => i # t + 1) /\ i # (t + x) + y + 1
    BY <1>1, <1>4
  <2> QED
    BY <1>4, <2>2, <2>3
<1>5. CASE i = (t + x) + y + 1
  <2>1. R[i] = Line("format", "rgbe")
    BY <1>5 DEF IsRecords
  <2>2. R[i].kind = "format"
    BY <2>1 DEF Line
  <2>3. ~(i <= t) /\ (x = 1 => i # t + 1) /\ (y = 1 => i # (t + x) + 1)
    BY <1>1, <1>5
  <2> QED
    BY <1>5, <2>2, <2>3
<1>6. i <= t \/ (x = 1 /\ i = t + 1) \/ (y = 1 /\ i = (t + x) + 1) \/ i = (t + x) + y + 1
  <2>1. i \in Nat /\ i <= (t + x) + y + 1
    BY <1>1
  <2> QED
    BY <1>1, <2>1
<1> QED
  BY <1>2, <1>3, <1>4, <1>5, <1>6

(* A line of every kind but text is there at most once.                    *)
OncePerKind(R, t, x, y) ==
  /\ OfKind(R, "format") = {(t + x) + y + 1}
  /\ OfKind(R, "exposure") = IF x = 1 THEN {t + 1} ELSE {}
  /\ OfKind(R, "view") = IF y = 1 THEN {(t + x) + 1} ELSE {}
  /\ OfKind(R, "indented view") = {}

LEMMA RecordsOfKind ==
  ASSUME NEW p, Describable(p), Plain(p), NEW R, NEW x, NEW y, IsRecords(R, p, x, y),
         NEW t \in Nat, t = Len(p.text)
  PROVE  OncePerKind(R, t, x, y)
<1>1. /\ x \in Nat /\ y \in Nat /\ (x = 0 \/ x = 1) /\ (y = 0 \/ y = 1)
  BY DEF IsRecords
<1>2. Len(R) = (t + x) + y + 1
  BY DEF IsRecords
<1>3. (t + x) + y + 1 \in 1 .. Len(R)
  BY <1>1, <1>2
<1>4. x = 1 => t + 1 \in 1 .. Len(R)
  BY <1>1, <1>2
<1>5. y = 1 => (t + x) + 1 \in 1 .. Len(R)
  BY <1>1, <1>2
<1>6. PICK n \in Nat : n = Len(R)
  BY <1>1, <1>2
<1>7. ASSUME NEW i \in 1 .. n
      PROVE  /\ R[i].kind = "exposure" <=> x = 1 /\ i = t + 1
             /\ R[i].kind = "view" <=> y = 1 /\ i = (t + x) + 1
             /\ R[i].kind = "format" <=> i = (t + x) + y + 1
             /\ R[i].kind # "indented view"
  <2>1. i \in 1 .. Len(R)
    BY <1>6
  <2>2. KindsRight(R, i, t, x, y)
    BY <2>1, RecordKinds
  <2> QED
    BY <2>2 DEF KindsRight
<1>8. OfKind(R, "format") = {(t + x) + y + 1}
  BY <1>3, <1>6, <1>7 DEF OfKind
<1>9. OfKind(R, "exposure") = IF x = 1 THEN {t + 1} ELSE {}
  BY <1>4, <1>6, <1>7 DEF OfKind
<1>10. OfKind(R, "view") = IF y = 1 THEN {(t + x) + 1} ELSE {}
  BY <1>5, <1>6, <1>7 DEF OfKind
<1>11. OfKind(R, "indented view") = {}
  BY <1>6, <1>7 DEF OfKind
<1> QED
  BY <1>8, <1>9, <1>10, <1>11 DEF OncePerKind

(* Its text is the description. *)
LEMMA RecordsText ==
  ASSUME NEW p, Describable(p), Plain(p), NEW R, NEW x, NEW y, IsRecords(R, p, x, y)
  PROVE  TextLines(R) = p.text
<1>1. PICK t \in Nat : t = Len(p.text)
  BY ArrayFacts DEF Describable
<1>2. PICK n \in Nat : n = Len(R) /\ t < n
  BY <1>1 DEF IsRecords
<1>3. PICK T : /\ T[0] = <<>> /\ \A i \in 1 .. n : T[i] = WithText(T[i - 1], R[i])
               /\ TextLines(R) = T[n]
  BY <1>2, TextRunFound DEF IsRecords
<1>4. ASSUME NEW i \in 1 .. n PROVE R[i].kind = "text" <=> i <= t
  <2>1. i \in 1 .. Len(R)
    BY <1>2
  <2>2. KindsRight(R, i, t, x, y)
    BY <1>1, <2>1, RecordKinds
  <2> QED
    BY <2>2 DEF KindsRight
<1>5. \A i \in 1 .. t : R[i] = p.text[i]
  BY <1>1 DEF IsRecords
<1>6. PICK K : K = {i \in 0 .. n : /\ Array(T[i]) /\ Len(T[i]) = (IF i <= t THEN i ELSE t)
                                   /\ \A j \in 1 .. Len(T[i]) : T[i][j] = p.text[j]}
  OBVIOUS
<1>7. 0 \in K
  <2>1. Array(T[0]) /\ Len(T[0]) = 0
    BY <1>3, SingleArray
  <2>2. 0 <= t /\ 0 \in 0 .. n
    BY <1>1, <1>2
  <2>3. \A j \in 1 .. Len(T[0]) : FALSE
    BY <2>1
  <2> QED
    BY <1>6, <2>1, <2>2, <2>3
<1>8. ASSUME NEW i \in 0 .. n - 1, i \in K PROVE i + 1 \in K
  <2>1. i + 1 \in 1 .. n /\ i + 1 \in 0 .. n /\ (i + 1) - 1 = i
    OBVIOUS
  <2>2. PICK a, b : a = T[i] /\ b = T[i + 1] /\ b = WithText(a, R[i + 1])
    BY <1>3, <2>1
  <2>3. /\ Array(a) /\ Len(a) = (IF i <= t THEN i ELSE t)
        /\ \A j \in 1 .. Len(a) : a[j] = p.text[j]
    BY <1>6, <1>8, <2>2
  <2>4. CASE i + 1 <= t
    <3>1. b = Append(a, p.text[i + 1]) /\ Len(a) = i
      <4>1. R[i + 1].kind = "text" /\ R[i + 1] = p.text[i + 1]
        BY <1>4, <1>5, <2>1, <2>4
      <4> QED
        BY <2>2, <2>3, <2>4, <4>1 DEF WithText
    <3>2. PICK l : l = p.text[i + 1]
      OBVIOUS
    <3>3. /\ Array(b) /\ Len(b) = Len(a) + 1
          /\ \A j \in 1 .. Len(a) : b[j] = a[j]
          /\ b[Len(a) + 1] = l
      BY <2>3, <3>1, <3>2, AppendArray
    <3>4. Len(b) = i + 1 /\ \A j \in 1 .. i + 1 : b[j] = p.text[j]
      BY <2>3, <3>1, <3>2, <3>3
    <3> QED
      BY <1>6, <2>1, <2>2, <2>4, <3>3, <3>4
  <2>5. CASE i + 1 > t
    <3>1. b = a
      <4>1. R[i + 1].kind # "text"
        BY <1>1, <1>4, <2>1, <2>5
      <4> QED
        BY <2>2, <4>1 DEF WithText
    <3>2. Len(b) = t
      BY <1>1, <2>3, <2>5, <3>1
    <3>3. ~(i + 1 <= t)
      BY <1>1, <2>5
    <3> QED
      BY <1>6, <2>1, <2>2, <2>3, <3>1, <3>2, <3>3
  <2> QED
    BY <1>1, <2>4, <2>5
<1>9. n \in K
  BY <1>7, <1>8, FromZero
<1>10. PICK u : u = T[n]
  OBVIOUS
<1>11. Array(u) /\ Len(u) = t /\ \A j \in 1 .. t : u[j] = p.text[j]
  <2>1. ~(n <= t)
    BY <1>1, <1>2
  <2> QED
    BY <1>6, <1>9, <1>10, <2>1
<1>12. u = p.text
  BY <1>1, <1>11, ArraysEqual DEF Describable
<1> QED
  BY <1>3, <1>10, <1>12

(* The exposure of a header, line by line. *)
WithExposure(e, l) == IF l.kind = "exposure" THEN (e * l.arg) \div One ELSE e

LEMMA ExposureRunFound ==
  ASSUME NEW f, NEW n \in Nat, n = Len(f),
         \A i \in 1 .. n : f[i].kind = "exposure" => f[i].arg \in Int
  PROVE  \E T : /\ T[0] = One /\ \A i \in 1 .. n : T[i] = WithExposure(T[i - 1], f[i])
                /\ \A i \in 0 .. n : T[i] \in Int
                /\ ExposureOf(f) = T[n]
<1>1. One \in Int /\ \A a, b \in Int : (a * b) \div One \in Int
  <2>1. One \in Nat \ {0}
    BY GrainAssumption DEF GrainAssumption
  <2> QED
    BY <2>1
<1>2. PICK g : g = [i \in 1 .. n |-> [e \in Int |-> WithExposure(e, f[i])]]
  OBVIOUS
<1>3. \A i \in 1 .. n : \A e \in Int : WithExposure(e, f[i]) \in Int
  BY <1>1 DEF WithExposure
<1>4. g \in [1 .. n -> [Int -> Int]]
  BY <1>2, <1>3
<1>5. PICK T : RunOf(n, Int, One, g, T)
  BY <1>1, <1>4, RunExists
<1>6. T = [i \in 0 .. n |-> T[i]] /\ T[0] = One
  BY <1>5 DEF RunOf
<1>7. ASSUME NEW i \in 1 .. n PROVE T[i] = WithExposure(T[i - 1], f[i])
  <2>1. T[i] = g[i][T[i - 1]] /\ T[i - 1] \in Int
    BY <1>5 DEF RunOf
  <2> QED
    BY <1>2, <2>1
<1>8. PICK P : P = [i \in 0 .. n |->
                     IF i = 0 THEN One
                     ELSE IF f[i].kind = "exposure" THEN (P[i - 1] * f[i].arg) \div One
                     ELSE P[i - 1]]
  <2>1. \A i \in 0 .. n : i # 0 => i \in 1 .. n
    OBVIOUS
  <2>2. \A i \in 0 .. n : T[i] = IF i = 0 THEN One
                     ELSE IF f[i].kind = "exposure" THEN (T[i - 1] * f[i].arg) \div One
                     ELSE T[i - 1]
    BY <1>6, <1>7, <2>1 DEF WithExposure
  <2>3. T = [i \in 0 .. n |->
                     IF i = 0 THEN One
                     ELSE IF f[i].kind = "exposure" THEN (T[i - 1] * f[i].arg) \div One
                     ELSE T[i - 1]]
    BY <1>6, <2>2
  <2> QED
    BY <2>3
<1>9. PICK U : /\ U = [i \in 0 .. n |->
                     IF i = 0 THEN One
                     ELSE IF f[i].kind = "exposure" THEN (U[i - 1] * f[i].arg) \div One
                     ELSE U[i - 1]]
               /\ ExposureOf(f) = U[n]
  BY <1>8 DEF ExposureOf
<1>10. ASSUME NEW i \in 0 .. n
       PROVE  U[i] = IF i = 0 THEN One
                     ELSE IF f[i].kind = "exposure" THEN (U[i - 1] * f[i].arg) \div One
                     ELSE U[i - 1]
  BY <1>9
<1>11. U[0] = One /\ \A i \in 1 .. n : U[i] = WithExposure(U[i - 1], f[i])
  <2>1. 0 \in 0 .. n /\ \A i \in 1 .. n : i \in 0 .. n /\ i # 0
    OBVIOUS
  <2> QED
    BY <1>10, <2>1 DEF WithExposure
<1>12. ASSUME NEW k \in 0 .. n PROVE U[k] \in Int
  <2>1. PICK K : K = {i \in 0 .. n : U[i] \in Int}
    OBVIOUS
  <2>2. 0 \in K
    BY <1>1, <1>11, <2>1
  <2>3. ASSUME NEW i \in 0 .. k - 1, i \in K PROVE i + 1 \in K
    <3>1. i + 1 \in 1 .. n /\ i + 1 \in 0 .. n /\ (i + 1) - 1 = i
      OBVIOUS
    <3>2. U[i + 1] = WithExposure(U[i], f[i + 1]) /\ U[i] \in Int
      BY <1>11, <2>1, <2>3, <3>1
    <3> QED
      BY <1>3, <2>1, <3>1, <3>2
  <2>4. k \in K
    BY <2>2, <2>3, FromZero
  <2> QED
    BY <2>1, <2>4
<1> QED
  BY <1>9, <1>11, <1>12

(* That of the header that is written is the one printed.                  *)
LEMMA RecordsExposure ==
  ASSUME NEW p, Describable(p), Plain(p), NEW R, NEW x, NEW y, IsRecords(R, p, x, y),
         p.exposure_set, Printed(p.exposure) \in Int
  PROVE  ExposureOf(R) = Printed(p.exposure)
<1>1. PICK t \in Nat : t = Len(p.text)
  BY ArrayFacts DEF Describable
<1>2. PICK e \in Int : e = Printed(p.exposure)
  OBVIOUS
<1>3. x = 1 /\ y \in Nat
  BY DEF IsRecords
<1>4. PICK n \in Nat : n = Len(R) /\ t + 1 <= n
  BY <1>1, <1>3 DEF IsRecords
<1>5. ASSUME NEW i \in 1 .. n
      PROVE  /\ R[i].kind = "exposure" <=> i = t + 1
             /\ i = t + 1 => R[i].arg = e
  <2>1. i \in 1 .. Len(R)
    BY <1>4
  <2>2. KindsRight(R, i, t, x, y)
    BY <1>1, <2>1, RecordKinds
  <2>3. R[t + 1] = Line("exposure", e)
    BY <1>1, <1>2, <1>3 DEF IsRecords
  <2>4. R[t + 1].arg = e
    BY <2>3 DEF Line
  <2> QED
    BY <1>3, <2>2, <2>4 DEF KindsRight
<1>6. PICK T : /\ T[0] = One /\ \A i \in 1 .. n : T[i] = WithExposure(T[i - 1], R[i])
               /\ ExposureOf(R) = T[n]
  <2>1. \A i \in 1 .. n : R[i].kind = "exposure" => R[i].arg \in Int
    BY <1>5
  <2> QED
    BY <1>4, <2>1, ExposureRunFound
<1>7. (One * e) \div One = e
  <2>1. One \in Nat \ {0}
    BY GrainAssumption DEF GrainAssumption
  <2>2. One * e = e * One
    BY <2>1
  <2>3. \A a \in Int, b \in Nat : b # 0 => (a * b) \div b = a
    OBVIOUS
  <2> QED
    BY <2>1, <2>2, <2>3
<1>8. PICK K : K = {i \in 0 .. n : T[i] = IF i <= t THEN One ELSE e}
  OBVIOUS
<1>9. 0 \in K
  BY <1>1, <1>6, <1>8
<1>10. ASSUME NEW i \in 0 .. n - 1, i \in K PROVE i + 1 \in K
  <2>1. i + 1 \in 1 .. n /\ i + 1 \in 0 .. n /\ (i + 1) - 1 = i
    OBVIOUS
  <2>2. T[i + 1] = WithExposure(T[i], R[i + 1]) /\ T[i] = IF i <= t THEN One ELSE e
    BY <1>6, <1>8, <1>10, <2>1
  <2>3. /\ R[i + 1].kind = "exposure" <=> i + 1 = t + 1
        /\ i + 1 = t + 1 => R[i + 1].arg = e
    BY <1>5, <2>1
  <2>4. CASE i = t
    <3>1. T[i] = One /\ R[i + 1].kind = "exposure" /\ R[i + 1].arg = e
      BY <1>1, <2>2, <2>3, <2>4
    <3>2. T[i + 1] = e /\ ~(i + 1 <= t)
      BY <1>1, <1>7, <2>2, <2>4, <3>1 DEF WithExposure
    <3> QED
      BY <1>8, <2>1, <3>2
  <2>5. CASE i # t
    <3>1. T[i + 1] = T[i]
      BY <1>1, <2>2, <2>3, <2>5 DEF WithExposure
    <3>2. (i <= t) = (i + 1 <= t)
      BY <1>1, <2>5
    <3> QED
      BY <1>8, <2>1, <2>2, <3>1, <3>2
  <2> QED
    BY <2>4, <2>5
<1>11. n \in K
  BY <1>9, <1>10, FromZero
<1>12. ~(n <= t)
  BY <1>1, <1>4
<1> QED
  BY <1>2, <1>6, <1>8, <1>11, <1>12

(* What is printed is within half a unit of the last decimal.              *)
LEMMA PrintedNear ==
  ASSUME NEW e \in Int
  PROVE  /\ Printed(e) \in Int
         /\ 2 * (Printed(e) - e) <= Grain /\ 2 * (Printed(e) - e) >= -Grain
<1>1. PICK g \in Nat \ {0} : g = Grain
  BY GrainAssumption DEF GrainAssumption
<1>2. PICK s \in Nat : s = g \div 2 /\ 2 * s <= g /\ 2 * s >= g - 1
  <2>1. g \div 2 \in Nat /\ 2 * (g \div 2) <= g /\ 2 * (g \div 2) >= g - 1
    OBVIOUS
  <2> QED
    BY <2>1
<1>3. PICK a \in Int : a = e + s
  <2>1. e + s \in Int
    OBVIOUS
  <2> QED
    BY <2>1
<1>4. PICK q \in Int, r \in Int : /\ q = a \div g /\ a = g * q + r /\ 0 <= r /\ r < g
  <2>1. a \div g \in Int /\ a % g \in Int /\ 0 <= a % g /\ a % g < g
    OBVIOUS
  <2>2. a = g * (a \div g) + (a % g)
    OBVIOUS
  <2> QED
    BY <2>1, <2>2
<1>5. PICK m \in Int : m = q * g /\ a = m + r
  <2>1. q * g \in Int /\ g * q = q * g
    OBVIOUS
  <2> QED
    BY <1>4, <2>1
<1>6. Printed(e) = m
  BY <1>1, <1>2, <1>3, <1>4, <1>5 DEF Printed
<1>7. m - e = s - r
  BY <1>3, <1>5
<1>8. 2 * (m - e) <= g /\ 2 * (m - e) >= -g
  BY <1>2, <1>4, <1>7
<1> QED
  BY <1>1, <1>6, <1>8

(* The view of the header that is written: a view without a type is lost.  *)
LEMMA RecordsView ==
  ASSUME NEW p, Describable(p), Plain(p), NEW R, NEW x, NEW y, IsRecords(R, p, x, y),
         ViewWritten(p) = [o \in DOMAIN NullView |-> ViewWritten(p)[o]]
  PROVE  ViewOf(R) = IF ViewWritten(p).type = NullView.type THEN NullView ELSE ViewWritten(p)
<1>1. PICK t \in Nat : t = Len(p.text)
  BY ArrayFacts DEF Describable
<1>2. /\ OfKind(R, "view") = IF y = 1 THEN {(t + x) + 1} ELSE {}
      /\ OfKind(R, "indented view") = {}
  <2>1. OncePerKind(R, t, x, y)
    BY <1>1, RecordsOfKind
  <2> QED
    BY <2>1 DEF OncePerKind
<1>3. /\ NullView = [o \in DOMAIN NullView |-> NullView[o]]
  BY NullViewAssumption DEF NullViewAssumption
<1>4. CASE y # 1
  <2>1. ViewWritten(p).type = NullView.type
    BY <1>4 DEF IsRecords
  <2>2. OfKind(R, "view") = {} /\ OfKind(R, "indented view") = {}
    BY <1>2, <1>4
  <2>3. \A o : Option(R, {}, o) = NullView[o]
    BY DEF Option
  <2>4. ViewOf(R) = [o \in DOMAIN NullView |-> Option(R, {}, o)]
    BY <2>2 DEF ViewOf
  <2> QED
    BY <1>3, <2>1, <2>3, <2>4
<1>5. CASE y = 1
  <2>1. ViewWritten(p).type # NullView.type
    BY <1>5 DEF IsRecords
  <2>2. PICK i, S : i = (t + x) + 1 /\ S = {i} /\ OfKind(R, "view") = S
    BY <1>2, <1>5
  <2>3. R[i].arg = ViewWritten(p)
    <3>1. R[i] = Line("view", ViewWritten(p))
      BY <1>1, <1>5, <2>2 DEF IsRecords
    <3> QED
      BY <3>1 DEF Line
  <2>4. ASSUME NEW o \in DOMAIN NullView PROVE Option(R, S, o) = ViewWritten(p)[o]
    <3>1. {j \in S : o \in DOMAIN R[j].arg} = S
      BY <2>2, <2>3
    <3>2. i \in Int
      BY <2>2, <1>1 DEF IsRecords
    <3>3. Greatest(S) = i
      BY <2>2, <3>2 DEF Greatest
    <3>4. S # {}
      BY <2>2
    <3> QED
      BY <2>3, <3>1, <3>3, <3>4 DEF Option
  <2>5. ViewOf(R) = [o \in DOMAIN NullView |-> Option(R, S, o)]
    <3>1. S # {}
      BY <2>2
    <3> QED
      BY <2>2, <3>1 DEF ViewOf
  <2> QED
    BY <2>1, <2>4, <2>5
<1> QED
  BY <1>4, <1>5

-----------------------------------------------------------------------------
(* Where a Radiance picture is.  An error that nobody looked at has cost   *)
(* lines of the header only, and no row follows it unless the picture is   *)
(* flat.                                                                   *)
Own(f) == \A i \in 1 .. Len(f) : f[i] = Torn \/ \E j \in 1 .. Len(Items) : f[i] = Items[j]

RadianceWriting(k) ==
  /\ Left(k) /\ WritingShape(Done, k, picture) /\ Own(Done)
  /\ ~ferror => InOrder
  /\ ferror => picture.flat \/ k <= HeadLength(picture)

RadianceLeft ==
  /\ DiskShape(disk, picture) /\ Own(disk)
  /\ Damaged(disk, Items) \/ (picture.flat /\ ferror) \/ NoRows(disk)

(* A picture that a reader has returned, and one that is the picture       *)
(* written as ReadBack has it.                                             *)
Returned(p) ==
  /\ Describable(p) /\ Plain(p) /\ Len(p.rows) > 0
  /\ p = [text |-> p.text, view |-> p.view, exposure_set |-> p.exposure_set,
          exposure |-> p.exposure, rows |-> p.rows, flat |-> p.flat]
  /\ tt => p.view = [NullView EXCEPT !.horiz = p.view.horiz] /\ p.view.horiz # NoFOV

BackAs(q, p) ==
  /\ q.rows = p.rows /\ q.text = p.text /\ q.flat = p.flat
  /\ IF tt
     THEN q.view.horiz = (IF p.view.horiz = NoFOV THEN NullView.horiz ELSE p.view.horiz)
     ELSE q.view = IF p.view.type = NullView.type THEN NullView ELSE p.view
  /\ q.exposure_set = p.exposure_set
  /\ p.exposure_set => Near(q, p)

GotRight ==
  got \notin {Nothing, Refused} =>
    /\ Returned(got)
    /\ Plain(picture) => got.rows = picture.rows
    /\ Plain(picture) /\ ~(picture.flat /\ ferror) => BackAs(got, picture)

LEMMA GotKept ==
  ASSUME GotRight, UNCHANGED <<got, picture, tt>>, ferror => ferror'
  PROVE  GotRight'
BY DEF GotRight, Returned, BackAs

RadianceInv ==
  suffix = ".hdr" =>
    /\ Describable(picture) /\ Streams
    /\ status = "writing" => \E k \in Nat : RadianceWriting(k)
    /\ status \in {"success", "killed"} => RadianceLeft
    /\ GotRight

LEMMA RadianceShape ==
  ASSUME NEW p, Describable(p)
  PROVE  /\ HeadLength(p) \in Nat /\ HeadLength(p) > 0
         /\ IsRadiance(RadianceItems(p), p, HeadLength(p)) /\ Array(RadianceItems(p))
<1>1. PICK h : IsRadiance(RadianceItems(p), p, h)
  BY RadianceItemsAre
<1>2. h = HeadLength(p) /\ h \in Nat
  BY <1>1 DEF IsRadiance, HeadLength
<1>3. Len(HeaderRecords(p)) \in Nat
  BY RecordsKinds, ArrayFacts DEF AllKinds
<1>4. Array(RadianceItems(p))
  BY <1>1 DEF IsRadiance
<1> QED
  BY <1>1, <1>2, <1>3, <1>4 DEF HeadLength

(* A picture that is about to be written. *)
RadianceBegins ==
  /\ suffix = ".hdr" /\ Describable(picture) /\ todo = Items
  /\ disk = <<>> /\ buf = <<>> /\ ~ferror

RadianceBegun == Streams /\ RadianceWriting(0)

LEMMA RadianceFirst == RadianceBegins => RadianceBegun
<1> SUFFICES ASSUME RadianceBegins PROVE RadianceBegun
  OBVIOUS
<1> USE DEF RadianceBegins
<1>1. Array(Items)
  BY RadianceShape DEF Items
<1>2. Streams /\ InOrder
  BY <1>1, InOrderFirst
<1>3. Done = <<>>
  <2>1. Array(disk)
    BY SingleArray
  <2>2. \A s : Array(s) => s \o <<>> = s
    BY ConcatEmptySeq DEF Array
  <2> QED
    BY <2>1, <2>2 DEF Done
<1>4. WritingShape(Done, 0, picture)
  BY <1>3, RadianceShape, WritingFirst
<1>5. Left(0)
  <2>1. Left(Len(Done)) /\ Len(Done) = 0
    BY <1>2, <1>3, SingleArray DEF InOrder
  <2> QED
    BY <2>1
<1>6. Own(Done)
  <2>1. \A i \in 1 .. Len(Done) : FALSE
    BY <1>3, SingleArray
  <2> QED
    BY <2>1 DEF Own
<1> QED
  BY <1>2, <1>4, <1>5, <1>6 DEF RadianceWriting, RadianceBegun

LEMMA RadianceInit == Init => RadianceInv
<1> SUFFICES ASSUME Init, suffix = ".hdr" PROVE RadianceInv
  BY DEF RadianceInv
<1>1. PICK p \in RadiancePicture \cup FragileRadiance : Given(p, RadianceItems(p))
  BY DEF Init
<1>2. /\ picture = p /\ todo = Items /\ status = "writing" /\ buf = <<>> /\ disk = <<>>
      /\ got = Nothing /\ ~ferror
  BY <1>1 DEF Given, Items
<1>3. Describable(p)
  BY PictureAssumption DEF PictureAssumption
<1>4. Streams /\ RadianceWriting(0)
  <2>1. RadianceBegins
    BY <1>2, <1>3 DEF RadianceBegins
  <2> QED
    BY <2>1, RadianceFirst DEF RadianceBegun
<1> QED
  BY <1>2, <1>3, <1>4 DEF RadianceInv, RadianceBegun, GotRight

(* The header of a picture is the same as long as the program is.          *)
LEMMA RadianceKept ==
  ASSUME suffix' = suffix, picture' = picture, tt' = tt
  PROVE  Items' = Items /\ HeadLength(picture)' = HeadLength(picture)
<1>1. HeaderRecords(picture)' = HeaderRecords(picture)
  BY DEF HeaderRecords, ViewLines, ViewWritten
<1>2. RadianceItems(picture)' = RadianceItems(picture)
  BY <1>1 DEF RadianceItems, write_radiance_header
<1>3. Items' = Items
  BY <1>2 DEF Items
<1> QED
  BY <1>1, <1>3 DEF HeadLength

LEMMA WritingKept ==
  ASSUME picture' = picture, HeadLength(picture)' = HeadLength(picture), Items' = Items, NEW k,
         WritingShape(Done', k, picture), Own(Done'), Left(k)', ~ferror' => InOrder',
         ferror' => picture.flat \/ k <= HeadLength(picture)
  PROVE  RadianceWriting(k)'
<1>1. WritingShape(Done, k, picture)'
  BY DEF WritingShape
<1>2. Own(Done)'
  BY DEF Own
<1> QED
  BY <1>1, <1>2 DEF RadianceWriting

LEMMA OwnDamaged ==
  ASSUME NEW f, Own(f), Array(f), NEW d, Damaged(d, f)
  PROVE  Own(d)
<1>1. PICK c \in Nat, l \in Nat : c = Len(d) /\ l = Len(f) /\ c <= l
  BY ArrayFacts DEF Damaged
<1>2. ASSUME NEW i \in 1 .. c
      PROVE  d[i] = Torn \/ \E j \in 1 .. Len(Items) : d[i] = Items[j]
  <2>1. i \in 1 .. Len(f) /\ d[i] \in {f[i], Torn}
    BY <1>1 DEF Damaged
  <2> QED
    BY <2>1 DEF Own
<1> QED
  BY <1>1, <1>2 DEF Own

LEMMA OwnGrown ==
  ASSUME NEW f, Own(f), Array(f), NEW j \in 1 .. Len(Items), NEW g, Grown(g, f, Items[j])
  PROVE  Own(g)
<1>1. PICK l \in Nat : l = Len(f) /\ Len(g) = l + 1
  BY ArrayFacts DEF Grown
<1>2. PICK x : x = Items[j]
  OBVIOUS
<1>3. ASSUME NEW i \in 1 .. l + 1
      PROVE  g[i] = Torn \/ \E q \in 1 .. Len(Items) : g[i] = Items[q]
  <2>1. CASE i = l + 1
    <3>1. g[i] = Items[j]
      BY <1>1, <2>1 DEF Grown
    <3> QED
      BY <3>1
  <2>2. CASE i # l + 1
    <3>1. i \in 1 .. Len(f)
      BY <1>1, <2>2
    <3>2. g[i] = f[i]
      BY <3>1 DEF Grown
    <3> QED
      BY <3>1, <3>2 DEF Own
  <2> QED
    BY <2>1, <2>2
<1> QED
  BY <1>1, <1>3 DEF Own

(* Any item that is written. *)
LEMMA RadiancePut ==
  ASSUME suffix = ".hdr", Describable(picture), Streams, NEW k \in Nat, RadianceWriting(k),
         todo # <<>>, NEW failed \in BOOLEAN, Put(failed), Items' = Items, picture' = picture
  PROVE  /\ k + 1 \in Nat /\ k + 1 <= Len(Items) /\ todo[1] = Items[k + 1]
         /\ Streams' /\ Left(k + 1)'
         /\ ~failed => WritingShape(Done', k + 1, picture) /\ Own(Done') /\ ferror' = ferror
         /\ ~failed /\ ~ferror => InOrder'
         /\ failed => /\ Done' = disk'
                      /\ \E f : /\ WritingShape(f, k + 1, picture) /\ Own(f)
                                /\ Damaged(disk', f)
<1>1. /\ Left(k) /\ WritingShape(Done, k, picture) /\ Own(Done) /\ (~ferror => InOrder)
  BY DEF RadianceWriting
<1>2. /\ Streams' /\ Len(todo') = Len(todo) - 1
      /\ \A i \in 1 .. Len(todo) - 1 : todo'[i] = todo[i + 1]
      /\ ~failed => Grown(Done', Done, todo[1]) /\ ferror' = ferror
      /\ failed => /\ Done' = disk'
                   /\ \E f : Grown(f, Done, todo[1]) /\ Damaged(disk', f)
  BY PutStep
<1>3. Left(k + 1)' /\ todo[1] = Items[k + 1] /\ k + 1 <= Len(Items)
  BY <1>1, <1>2, LeftStep
<1>4. ASSUME NEW f, Grown(f, Done, todo[1])
      PROVE  WritingShape(f, k + 1, picture) /\ Own(f)
  <2>1. PICK g : g = Items /\ IsRadiance(g, picture, HeadLength(picture))
    BY RadianceShape DEF Items
  <2>2. k + 1 <= Len(g) /\ Grown(f, Done, g[k + 1])
    BY <1>3, <1>4, <2>1
  <2>3. WritingShape(f, k + 1, picture)
    BY <1>1, <2>1, <2>2, WritingGrown
  <2>4. PICK j \in 1 .. Len(Items) : j = k + 1
    <3>1. Len(Items) \in Nat
      BY <2>1, ArrayFacts DEF IsRadiance
    <3> QED
      BY <1>3, <3>1
  <2>5. Own(f)
    <3>1. Grown(f, Done, Items[j]) /\ Array(Done)
      BY <1>3, <1>4, <2>4, DoneArray
    <3> QED
      BY <1>1, <3>1, OwnGrown
  <2> QED
    BY <2>3, <2>5
<1>5. ~failed /\ ~ferror => InOrder'
  BY <1>1, InOrderPut
<1> QED
  BY <1>2, <1>3, <1>4, <1>5

LEMMA WriteHeaderLineStep ==
  ASSUME RadianceInv, suffix = ".hdr", WriteHeaderLine
  PROVE  RadianceInv'
<1>1. /\ Describable(picture) /\ Streams /\ status = "writing" /\ todo # <<>>
      /\ \E k \in Nat : RadianceWriting(k)
      /\ GotRight
  BY DEF RadianceInv, WriteHeaderLine, Writing
<1>2. PICK k \in Nat : RadianceWriting(k)
  BY <1>1
<1>3. PICK failed \in BOOLEAN : Put(failed)
  BY DEF WriteHeaderLine
<1>4. /\ UNCHANGED <<suffix, picture, status, got, tt>> /\ Items' = Items /\ Head(todo).kind # "row"
      /\ HeadLength(picture)' = HeadLength(picture)
  BY RadianceKept DEF WriteHeaderLine, radiancevars
<1>5. /\ k + 1 \in Nat /\ k + 1 <= Len(Items) /\ todo[1] = Items[k + 1]
      /\ Streams' /\ Left(k + 1)'
      /\ ~failed => WritingShape(Done', k + 1, picture) /\ Own(Done') /\ ferror' = ferror
      /\ ~failed /\ ~ferror => InOrder'
      /\ failed => /\ Done' = disk'
                   /\ \E f : WritingShape(f, k + 1, picture) /\ Own(f) /\ Damaged(disk', f)
  BY <1>1, <1>2, <1>3, <1>4, RadiancePut
<1>got. GotRight'
  BY <1>1, <1>3, <1>4, GotKept DEF Put
<1>6. PICK h \in Nat : h = HeadLength(picture)
  BY <1>1, RadianceShape
<1>7. k + 1 <= h
  <2>1. PICK g : g = Items /\ IsRadiance(g, picture, h)
    BY <1>1, <1>6, RadianceShape DEF Items
  <2>2. k + 1 \in 1 .. Len(g)
    <3>1. Len(g) \in Nat
      BY <2>1, ArrayFacts DEF IsRadiance
    <3> QED
      BY <1>5, <2>1, <3>1
  <2>3. g[k + 1].kind = "row" <=> k + 1 > h
    BY <1>1, <2>1, <2>2, RadianceKinds
  <2>4. Head(todo) = todo[1]
    BY <1>1, TailArray DEF Streams
  <2>5. ~(k + 1 > h)
    BY <1>4, <1>5, <2>1, <2>3, <2>4
  <2> QED
    BY <1>5, <1>6, <2>5
<1>8. CASE ~failed
  <2>1. RadianceWriting(k + 1)'
    BY <1>2, <1>4, <1>5, <1>6, <1>7, <1>8, WritingKept DEF RadianceWriting
  <2> QED
    BY <1>1, <1>4, <1>5, <1>got, <2>1 DEF RadianceInv
<1>9. CASE failed
  <2>1. ferror'
    BY <1>3, <1>9 DEF Put
  <2>2. WritingShape(Done', k + 1, picture) /\ Own(Done')
    <3>1. PICK f : WritingShape(f, k + 1, picture) /\ Own(f) /\ Damaged(disk', f)
      BY <1>5, <1>9
    <3>2. WritingShape(disk', k + 1, picture)
      BY <1>5, <1>6, <1>7, <3>1, WritingLost
    <3>3. Own(disk')
      BY <3>1, OwnDamaged DEF WritingShape
    <3> QED
      BY <1>5, <1>9, <3>2, <3>3
  <2>3. RadianceWriting(k + 1)'
    BY <1>4, <1>5, <1>6, <1>7, <2>1, <2>2, WritingKept
  <2> QED
    BY <1>1, <1>4, <1>5, <1>got, <2>3 DEF RadianceInv
<1> QED
  BY <1>8, <1>9

LEMMA WriteRowStep ==
  ASSUME RadianceInv, suffix = ".hdr", WriteRow
  PROVE  RadianceInv'
<1>1. /\ Describable(picture) /\ Streams /\ status = "writing" /\ todo # <<>>
      /\ \E k \in Nat : RadianceWriting(k)
      /\ GotRight
  BY DEF RadianceInv, WriteRow, Writing
<1>2. PICK k \in Nat : RadianceWriting(k)
  BY <1>1
<1>3. PICK failed \in BOOLEAN : /\ Put(failed)
                                /\ status' = IF RowRefused(failed) THEN "failure" ELSE status
  BY DEF WriteRow
<1>4. /\ UNCHANGED <<suffix, picture, got, tt>> /\ Items' = Items
      /\ HeadLength(picture)' = HeadLength(picture)
  BY RadianceKept DEF WriteRow, radiancevars
<1>5. /\ k + 1 \in Nat /\ Streams' /\ Left(k + 1)'
      /\ ~failed => WritingShape(Done', k + 1, picture) /\ Own(Done') /\ ferror' = ferror
      /\ ~failed /\ ~ferror => InOrder'
  BY <1>1, <1>2, <1>3, <1>4, RadiancePut
<1>got. GotRight'
  BY <1>1, <1>3, <1>4, GotKept DEF Put
<1>6. CASE RowRefused(failed)
  <2>1. status' = "failure"
    BY <1>3, <1>6
  <2> QED
    BY <1>1, <1>4, <1>5, <1>got, <2>1 DEF RadianceInv
<1>7. CASE ~RowRefused(failed)
  <2>1. ~failed /\ (ferror => picture.flat) /\ status' = "writing"
    BY <1>1, <1>3, <1>7 DEF RowRefused
  <2>2. RadianceWriting(k + 1)'
    BY <1>4, <1>5, <2>1, WritingKept
  <2> QED
    BY <1>1, <1>4, <1>5, <1>got, <2>1, <2>2 DEF RadianceInv
<1> QED
  BY <1>6, <1>7

(* What is on the device when the writer is gone. *)
LEMMA RadianceEnd ==
  ASSUME suffix = ".hdr", Describable(picture), Streams, NEW k \in Nat, RadianceWriting(k),
         NEW f, Damaged(f, Done)
  PROVE  /\ DiskShape(f, picture) /\ Own(f)
         /\ Damaged(f, Items) \/ (picture.flat /\ ferror) \/ NoRows(f)
<1>1. HeadLength(picture) \in Nat
  BY RadianceShape
<1>2. WritingShape(Done, k, picture)
  BY DEF RadianceWriting
<1>3. DiskShape(f, picture) /\ Own(f)
  BY <1>1, <1>2, WritingDisk, OwnDamaged, DoneArray DEF RadianceWriting
<1>4. CASE ~ferror
  BY <1>3, <1>4, InOrderDamaged DEF RadianceWriting
<1>5. CASE ferror /\ k <= HeadLength(picture)
  <2>1. \A i \in 1 .. Len(Done) : Done[i].kind # "row"
    <3>1. ~(k > HeadLength(picture))
      BY <1>1, <1>5
    <3> QED
      BY <1>2, <3>1 DEF WritingShape
  <2>2. PICK c \in Nat, l \in Nat : c = Len(f) /\ l = Len(Done) /\ c <= l
    <3>1. Array(f) /\ Len(f) <= Len(Done)
      BY DEF Damaged
    <3> QED
      BY <3>1, ArrayFacts, DoneArray
  <2>3. ASSUME NEW i \in 1 .. c PROVE f[i].kind # "row"
    <3>1. i \in 1 .. Len(Done) /\ f[i] \in {Done[i], Torn}
      BY <2>2 DEF Damaged
    <3> QED
      BY <2>1, <3>1 DEF Torn
  <2>4. NoRows(f)
    BY <2>2, <2>3 DEF NoRows
  <2> QED
    BY <1>3, <2>4
<1>6. CASE ferror /\ picture.flat
  BY <1>3, <1>6
<1>7. ferror => picture.flat \/ k <= HeadLength(picture)
  BY DEF RadianceWriting
<1> QED
  BY <1>4, <1>5, <1>6, <1>7

(* The header of what is left of a file, if its empty line is there, is    *)
(* the one that was written.                                               *)
LEMMA HeaderBack ==
  ASSUME NEW p, Describable(p), Plain(p), NEW f, Damaged(f, RadianceItems(p)),
         OfKind(f, "blank") # {}
  PROVE  HeaderOf(f) = HeaderRecords(p)
<1>1. PICK g, h : /\ g = RadianceItems(p) /\ h = HeadLength(p) /\ h \in Nat
                  /\ IsRadiance(g, p, h) /\ Array(g)
  BY RadianceShape
<1>2. PICK l \in Nat, c \in Nat : l = Len(f) /\ c = Len(g) /\ l <= c /\ Array(f)
  BY <1>1, ArrayFacts DEF Damaged
<1>3. PICK b \in 1 .. l : f[b].kind = "blank" /\ IsPart(HeaderOf(f), f, 2, b - 1)
  <2>1. PICK b \in 1 .. Len(f) : EndsAt(f, b) /\ IsPart(HeaderOf(f), f, 2, b - 1)
    BY <1>2, EndFound
  <2> QED
    BY <1>2, <2>1 DEF EndsAt
<1>4. PICK R : R = HeaderRecords(p) /\ Array(R)
  BY RecordsKinds DEF AllKinds
<1>len. PICK k \in Nat : k = Len(R)
  BY <1>4, ArrayFacts
<1>5. h = k + 3 /\ \A i \in 1 .. k : g[1 + i] = R[i]
  BY <1>1, <1>4, <1>len DEF IsRadiance
<1>6. b = h - 1
  <2>1. f[b] = g[b]
    <3>1. f[b] \in {g[b], Torn}
      BY <1>1, <1>2 DEF Damaged
    <3> QED
      BY <1>3, <3>1 DEF Torn
  <2>2. b \in 1 .. Len(g)
    BY <1>2
  <2>3. g[b].kind = "blank"
    BY <1>3, <2>1
  <2> QED
    BY <1>1, <2>2, <2>3, RadianceKinds
<1>7. PICK H : H = HeaderOf(f) /\ IsPart(H, f, 2, k + 1)
  <2>1. b - 1 = k + 1
    BY <1>5, <1>6
  <2> QED
    BY <1>3, <2>1
<1>8. Array(H) /\ Len(H) = k
  <2>1. /\ Array(H) /\ Len(H) = IF 2 <= k + 1 THEN k + 1 - 2 + 1 ELSE 0
    BY <1>7 DEF IsPart
  <2> QED
    BY <2>1
<1>9. ASSUME NEW i \in 1 .. k PROVE H[i] = R[i]
  <2>1. i \in 1 .. (k + 1) - 2 + 1 /\ (2 - 1) + i = 1 + i
    OBVIOUS
  <2>2. H[i] = f[1 + i]
    BY <1>7, <2>1 DEF IsPart
  <2>3. 1 + i \in 1 .. l - 1
    BY <1>2, <1>5, <1>6
  <2>4. f[1 + i] = g[1 + i]
    BY <1>1, <1>2, <2>3 DEF Damaged
  <2> QED
    BY <1>5, <2>2, <2>4
<1> QED
  BY <1>4, <1>len, <1>7, <1>8, <1>9, ArraysEqual

(* What a reader needs to know of a line: exposures are numbers, and there *)
(* is no view without an angle in a picture of radiance-tiff.c.            *)
LineSound(l) ==
  /\ l.kind = "exposure" => l.arg \in Int
  /\ tt /\ l.kind \in {"view", "indented view"} /\ "horiz" \in DOMAIN l.arg =>
       l.arg.horiz # NoFOV

LEMMA RecordsSound ==
  ASSUME NEW p, Describable(p), NEW i \in 1 .. Len(HeaderRecords(p))
  PROVE  LineSound(HeaderRecords(p)[i])
<1>1. PICK R, x, y : R = HeaderRecords(p) /\ IsRecords(R, p, x, y)
  BY RecordsAre
<1>2. PICK t \in Nat : t = Len(p.text)
  BY ArrayFacts DEF Describable
<1>3. x \in Nat /\ y \in Nat /\ Len(R) = (t + x) + y + 1 /\ (x = 0 \/ x = 1) /\ (y = 0 \/ y = 1)
  BY <1>1, <1>2 DEF IsRecords
<1>4. CASE i <= t
  <2>1. i \in 1 .. t
    BY <1>4
  <2>2. R[i] = p.text[i] /\ DescriptionLine(p.text[i])
    BY <1>1, <1>2, <2>1 DEF IsRecords, Describable
  <2> QED
    BY <1>1, <2>2 DEF LineSound, DescriptionLine
<1>5. CASE x = 1 /\ i = t + 1
  <2>1. PICK e : e = Printed(p.exposure) /\ e \in Int
    BY PrintedNear DEF Describable
  <2>2. R[i] = Line("exposure", e)
    BY <1>1, <1>2, <1>5, <2>1 DEF IsRecords
  <2> QED
    BY <1>1, <2>1, <2>2 DEF LineSound, Line
<1>6. CASE y = 1 /\ i = (t + x) + 1
  <2>1. PICK v : v = ViewWritten(p)
    OBVIOUS
  <2>2. tt => v.horiz # NoFOV
    <3>1. ASSUME tt PROVE v.horiz # NoFOV
      <4>1. v = set_fov_in_view(p.view)
        BY <2>1, <3>1 DEF ViewWritten
      <4>2. CASE p.view.horiz # NoFOV
        <5>1. v = [NullView EXCEPT !.type = "v", !.horiz = p.view.horiz]
          BY <4>1, <4>2 DEF set_fov_in_view
        <5>2. v.horiz = p.view.horiz
          BY <5>1, NullViewAssumption DEF NullViewAssumption
        <5> QED
          BY <4>2, <5>2
      <4>3. CASE p.view.horiz = NoFOV
        BY <4>1, <4>3, NullViewAssumption DEF NullViewAssumption, set_fov_in_view
      <4> QED
        BY <4>2, <4>3
    <3> QED
      BY <3>1
  <2>3. R[i] = Line("view", v)
    BY <1>1, <1>2, <1>6, <2>1 DEF IsRecords
  <2> QED
    BY <1>1, <2>2, <2>3 DEF LineSound, Line
<1>7. CASE i = (t + x) + y + 1
  <2>1. R[i] = Line("format", "rgbe")
    BY <1>1, <1>2, <1>7 DEF IsRecords
  <2> QED
    BY <1>1, <2>1 DEF LineSound, Line
<1>8. i <= t \/ (x = 1 /\ i = t + 1) \/ (y = 1 /\ i = (t + x) + 1) \/ i = (t + x) + y + 1
  <2>1. i \in Nat /\ i <= (t + x) + y + 1
    BY <1>1, <1>3
  <2> QED
    BY <1>3, <2>1
<1> QED
  BY <1>4, <1>5, <1>6, <1>7, <1>8

LEMMA ItemsSound ==
  ASSUME NEW p, Describable(p), NEW i \in 1 .. Len(RadianceItems(p))
  PROVE  LineSound(RadianceItems(p)[i])
<1>1. PICK g, h : g = RadianceItems(p) /\ h = HeadLength(p) /\ h \in Nat /\ IsRadiance(g, p, h)
  BY RadianceShape
<1>2. PICK k \in Nat, n \in Nat : k = Len(HeaderRecords(p)) /\ n = Len(p.rows)
  <2>1. Array(HeaderRecords(p)) /\ Array(p.rows)
    BY RecordsKinds DEF AllKinds, Describable
  <2> QED
    BY <2>1, ArrayFacts
<1>3. h = k + 3 /\ Len(g) = h + n
  BY <1>1, <1>2 DEF IsRadiance
<1>4. CASE i = 1
  BY <1>1, <1>4 DEF IsRadiance, LineSound
<1>5. CASE i > 1 /\ i <= 1 + k
  <2>1. PICK j \in 1 .. k : i = 1 + j
    <3>1. i - 1 \in 1 .. k /\ i = 1 + (i - 1)
      BY <1>5
    <3> QED
      BY <3>1
  <2>2. g[i] = HeaderRecords(p)[j]
    BY <1>1, <1>2, <2>1 DEF IsRadiance
  <2> QED
    BY <1>1, <1>2, <2>2, RecordsSound
<1>6. CASE i = h - 1
  BY <1>1, <1>6 DEF IsRadiance, LineSound
<1>7. CASE i = h
  <2>1. g[i] = Line("resolution", n)
    BY <1>1, <1>2, <1>7 DEF IsRadiance
  <2>2. g[i].kind = "resolution"
    BY <2>1 DEF Line
  <2> QED
    BY <1>1, <2>2 DEF LineSound
<1>8. CASE i > h
  <2>1. PICK j \in 1 .. n : i = h + j
    <3>1. i - h \in 1 .. n /\ i = h + (i - h)
      BY <1>1, <1>3, <1>8
    <3> QED
      BY <3>1
  <2>2. g[i] = Row(p, j)
    BY <1>1, <1>2, <2>1 DEF IsRadiance
  <2> QED
    BY <1>1, <2>2 DEF LineSound, Row
<1>9. i = 1 \/ (i > 1 /\ i <= 1 + k) \/ i = h - 1 \/ i = h \/ i > h
  BY <1>3
<1> QED
  BY <1>4, <1>5, <1>6, <1>7, <1>8, <1>9

(* The angle of the view that a header has. *)
WithAngle(l) ==
  l.kind \in {"view", "indented view"} /\ "horiz" \in DOMAIN l.arg => l.arg.horiz # NoFOV

LEMMA ViewAngle ==
  ASSUME NEW H, Array(H), \A i \in 1 .. Len(H) : WithAngle(H[i])
  PROVE  ViewOf(H).horiz # NoFOV
<1>1. PICK n \in Nat : n = Len(H)
  BY ArrayFacts
<1>2. PICK V, I : V = OfKind(H, "view") /\ I = OfKind(H, "indented view")
  OBVIOUS
<1>3. PICK F : F = IF I = {} THEN {} ELSE {Least(I)}
  OBVIOUS
<1>4. F \subseteq I
  <2>1. CASE I # {}
    <3>1. I \in SUBSET (1 .. n)
      BY <1>1, <1>2 DEF OfKind
    <3>2. \E m \in I : \A i \in I : m <= i
      BY <2>1, <3>1, SmallestElement
    <3>3. Least(I) \in I
      BY <3>2 DEF Least
    <3> QED
      BY <1>3, <3>3
  <2> QED
    BY <1>3, <2>1
<1>5. PICK S : S = IF V # {} THEN V ELSE F
  OBVIOUS
<1>6. \A i \in S : i \in 1 .. n /\ H[i].kind \in {"view", "indented view"}
  BY <1>1, <1>2, <1>4, <1>5 DEF OfKind
<1>7. ViewOf(H).horiz = Option(H, S, "horiz")
  <2>1. ViewOf(H) = [o \in DOMAIN NullView |-> Option(H, S, o)]
    BY <1>2, <1>3, <1>5 DEF ViewOf
  <2>2. "horiz" \in DOMAIN NullView
    BY NullViewAssumption DEF NullViewAssumption
  <2> QED
    BY <2>1, <2>2
<1>8. PICK E : E = {i \in S : "horiz" \in DOMAIN H[i].arg}
  OBVIOUS
<1>9. CASE E = {}
  <2>1. Option(H, S, "horiz") = NullView["horiz"]
    BY <1>8, <1>9 DEF Option
  <2>2. NullView["horiz"] # NoFOV
    BY NullViewAssumption DEF NullViewAssumption
  <2> QED
    BY <1>7, <2>1, <2>2
<1>10. CASE E # {}
  <2>1. PICK one \in Int : one = 1 /\ n \in Int
    <3>1. 1 \in Int /\ n \in Int
      OBVIOUS
    <3> QED
      BY <3>1
  <2>2. E \in SUBSET (one .. n)
    BY <1>6, <1>8, <2>1
  <2>3. \E m \in E : \A i \in E : i <= m
    BY <1>10, <2>1, <2>2, LargestElement
  <2>4. \E m \in E : \A i \in E : m >= i
    <3>1. \A i, m \in E : i <= m => m >= i
      BY <2>1, <2>2
    <3> QED
      BY <2>3, <3>1
  <2>5. Greatest(E) \in E
    BY <2>4 DEF Greatest
  <2>6. Option(H, S, "horiz") = H[Greatest(E)].arg["horiz"]
    BY <1>8, <1>10 DEF Option
  <2>7. H[Greatest(E)].arg.horiz # NoFOV
    BY <1>1, <1>6, <1>8, <2>5 DEF WithAngle
  <2> QED
    BY <1>7, <2>6, <2>7
<1> QED
  BY <1>9, <1>10

LEMMA CloseRadianceStep ==
  ASSUME RadianceInv, suffix = ".hdr", CloseRadiance \/ (Killed /\ UNCHANGED radiancevars)
  PROVE  RadianceInv'
<1>1. /\ Describable(picture) /\ Streams /\ status = "writing"
      /\ \E k \in Nat : RadianceWriting(k)
      /\ GotRight
  BY DEF RadianceInv, CloseRadiance, Written, Killed
<1>2. PICK k \in Nat : RadianceWriting(k)
  BY <1>1
<1>3. /\ UNCHANGED <<suffix, picture, got, tt>> /\ Items' = Items
      /\ HeadLength(picture)' = HeadLength(picture)
      /\ status' \in {"success", "killed"}
  BY RadianceKept DEF CloseRadiance, Killed, radiancevars
<1>4. Streams' /\ Damaged(disk', Done) /\ (ferror => ferror')
  <2>1. CASE CloseRadiance
    <3>1. PICK failed \in BOOLEAN : Drain(failed)
      BY <2>1 DEF CloseRadiance
    <3>2. ferror => ferror'
      BY <3>1 DEF Drain
    <3> QED
      BY <1>1, <3>1, <3>2, DrainStep
  <2>2. CASE Killed
    <3>1. ferror => ferror'
      BY <2>2 DEF Killed
    <3> QED
      BY <1>1, <2>2, <3>1, KilledStep
  <2> QED
    BY <2>1, <2>2
<1>5. /\ DiskShape(disk', picture) /\ Own(disk')
      /\ Damaged(disk', Items) \/ (picture.flat /\ ferror) \/ NoRows(disk')
  BY <1>1, <1>2, <1>4, RadianceEnd
<1>6. RadianceLeft'
  BY <1>3, <1>4, <1>5 DEF RadianceLeft, DiskShape, Own
<1>7. GotRight'
  BY <1>1, <1>3, <1>4, GotKept
<1> QED
  BY <1>1, <1>3, <1>4, <1>6, <1>7 DEF RadianceInv

(* A picture that a reader returns.                                        *)
LEMMA ReadReturned ==
  ASSUME suffix = ".hdr", Describable(picture), RadianceLeft, Array(disk), GoodHeader(disk),
         NEW rows, Array(rows), Len(rows) > 0, NEW q,
         q = [text |-> TextLines(HeaderOf(disk)),
              view |-> set_header(ViewOf(HeaderOf(disk))),
              exposure_set |-> OfKind(HeaderOf(disk), "exposure") # {},
              exposure |-> ExposureOf(HeaderOf(disk)),
              rows |-> rows, flat |-> picture.flat]
  PROVE  Returned(q)
<1>1. OfKind(disk, "blank") # {}
  BY DEF GoodHeader
<1>2. PICK b \in 1 .. Len(disk) : IsPart(HeaderOf(disk), disk, 2, b - 1)
  BY <1>1, EndFound
<1>3. PICK H : H = HeaderOf(disk) /\ IsPart(H, disk, 2, b - 1)
  BY <1>2
<1>4. PICK n \in Nat : n = Len(H) /\ Array(H)
  BY <1>3, ArrayFacts DEF IsPart
<1>5. \A i \in 1 .. n : LineSound(H[i])
  <2>1. ASSUME NEW i \in 1 .. n PROVE LineSound(H[i])
    <3>1. PICK l \in Nat : l = Len(disk)
      BY ArrayFacts
    <3>2. n = IF 2 <= b - 1 THEN (b - 1) - 2 + 1 ELSE 0
      BY <1>3, <1>4 DEF IsPart
    <3>3. i \in 1 .. (b - 1) - 2 + 1 /\ (2 - 1) + i \in 1 .. l
      BY <3>1, <3>2
    <3>4. PICK x : x = H[i] /\ x = disk[(2 - 1) + i]
      BY <1>3, <3>3 DEF IsPart
    <3>5. x = Torn \/ \E j \in 1 .. Len(Items) : x = Items[j]
      BY <3>1, <3>3, <3>4 DEF RadianceLeft, Own
    <3>6. CASE x = Torn
      BY <3>4, <3>6 DEF Torn, LineSound
    <3>7. CASE \E j \in 1 .. Len(Items) : x = Items[j]
      <4>1. Items = RadianceItems(picture)
        BY DEF Items
      <4> QED
        BY <3>4, <3>7, <4>1, ItemsSound
    <3> QED
      BY <3>5, <3>6, <3>7
  <2> QED
    BY <2>1
<1>6. AllKinds(TextLines(H), {"text"})
  BY <1>4, TextLinesKinds
<1>7. ExposureOf(H) \in Int
  <2>1. \A i \in 1 .. n : H[i].kind = "exposure" => H[i].arg \in Int
    BY <1>5 DEF LineSound
  <2>2. n \in 0 .. n
    OBVIOUS
  <2> QED
    BY <1>4, <2>1, <2>2, ExposureRunFound
<1>8. PICK v : v = ViewOf(H) /\ v = [o \in DOMAIN NullView |-> v[o]]
  BY DEF ViewOf
<1>9. tt => v.horiz # NoFOV
  <2>1. tt => \A i \in 1 .. Len(H) : WithAngle(H[i])
    BY <1>4, <1>5 DEF LineSound, WithAngle
  <2> QED
    BY <1>4, <1>8, <2>1, ViewAngle
<1>10. PICK w : w = set_header(v)
  OBVIOUS
<1>11. /\ w = [o \in DOMAIN NullView |-> w[o]]
       /\ tt => w = [NullView EXCEPT !.horiz = w.horiz] /\ w.horiz # NoFOV
  <2>1. NullView = [o \in DOMAIN NullView |-> NullView[o]] /\ "horiz" \in DOMAIN NullView
    BY NullViewAssumption DEF NullViewAssumption
  <2>2. CASE tt
    <3>1. w = [NullView EXCEPT !.horiz = v.horiz]
      BY <1>10, <2>2 DEF set_header
    <3>2. w.horiz = v.horiz
      BY <2>1, <3>1
    <3>3. w = [o \in DOMAIN NullView |-> w[o]]
      BY <2>1, <3>1
    <3> QED
      BY <1>9, <2>2, <3>1, <3>2, <3>3
  <2>3. CASE ~tt
    BY <1>8, <1>10, <2>3 DEF set_header
  <2> QED
    BY <2>2, <2>3
<1>12. q = [text |-> TextLines(H), view |-> w, exposure_set |-> OfKind(H, "exposure") # {},
            exposure |-> ExposureOf(H), rows |-> rows, flat |-> picture.flat]
  BY <1>3, <1>8, <1>10
<1>13. /\ q.text = TextLines(H) /\ q.view = w /\ q.exposure_set \in BOOLEAN
       /\ q.exposure = ExposureOf(H) /\ q.rows = rows
       /\ q = [text |-> q.text, view |-> q.view, exposure_set |-> q.exposure_set,
               exposure |-> q.exposure, rows |-> q.rows, flat |-> q.flat]
  BY <1>12
<1>14. Array(q.text) /\ \A i \in 1 .. Len(q.text) : q.text[i].kind = "text"
  BY <1>6, <1>13 DEF AllKinds
<1>15. Describable(q) /\ Plain(q)
  BY <1>7, <1>11, <1>13, <1>14 DEF Describable, DescriptionLine, Plain
<1> QED
  BY <1>11, <1>13, <1>15 DEF Returned

(* ... is the one that was written.                                        *)
LEMMA ReadBackAs ==
  ASSUME suffix = ".hdr", Describable(picture), Plain(picture), Damaged(disk, Items),
         OfKind(disk, "blank") # {}, NEW q,
         q = [text |-> TextLines(HeaderOf(disk)),
              view |-> set_header(ViewOf(HeaderOf(disk))),
              exposure_set |-> OfKind(HeaderOf(disk), "exposure") # {},
              exposure |-> ExposureOf(HeaderOf(disk)),
              rows |-> picture.rows, flat |-> picture.flat]
  PROVE  BackAs(q, picture)
<1>1. PICK R, x, y : R = HeaderRecords(picture) /\ IsRecords(R, picture, x, y)
  BY RecordsAre
<1>2. HeaderOf(disk) = R
  BY <1>1, HeaderBack DEF Items
<1>3. q.text = picture.text /\ q.rows = picture.rows /\ q.flat = picture.flat
  BY <1>1, <1>2, RecordsText
<1>4. q.exposure_set = picture.exposure_set
  <2>1. PICK t \in Nat : t = Len(picture.text)
    BY ArrayFacts DEF Describable
  <2>2. OncePerKind(R, t, x, y)
    BY <1>1, <2>1, RecordsOfKind
  <2>3. OfKind(R, "exposure") # {} <=> x = 1
    BY <2>2 DEF OncePerKind
  <2>4. x = 1 <=> picture.exposure_set
    BY <1>1 DEF IsRecords
  <2>5. q.exposure_set = (OfKind(R, "exposure") # {})
    BY <1>2
  <2>6. q.exposure_set \in BOOLEAN /\ picture.exposure_set \in BOOLEAN
    BY <2>5 DEF Describable
  <2> QED
    BY <2>3, <2>4, <2>5, <2>6
<1>5. picture.exposure_set => Near(q, picture)
  <2>1. ASSUME picture.exposure_set PROVE Near(q, picture)
    <3>1. PICK e \in Int : e = picture.exposure
      BY DEF Describable
    <3>2. /\ Printed(e) \in Int
          /\ 2 * (Printed(e) - e) <= Grain /\ 2 * (Printed(e) - e) >= -Grain
      BY PrintedNear
    <3>3. ExposureOf(R) = Printed(picture.exposure)
      BY <1>1, <2>1, <3>1, <3>2, RecordsExposure
    <3>4. q.exposure = Printed(e)
      BY <1>2, <3>1, <3>3
    <3> QED
      BY <3>1, <3>2, <3>4 DEF Near
  <2> QED
    BY <2>1
<1>6. PICK v : v = ViewWritten(picture)
  OBVIOUS
<1>7. /\ NullView = [o \in DOMAIN NullView |-> NullView[o]]
      /\ "horiz" \in DOMAIN NullView /\ "type" \in DOMAIN NullView
      /\ NullView.type # "v" /\ NullView.horiz # NoFOV
  BY NullViewAssumption DEF NullViewAssumption
<1>8. v = [o \in DOMAIN NullView |-> v[o]]
  <2>1. CASE tt
    <3>1. v = set_fov_in_view(picture.view)
      BY <1>6, <2>1 DEF ViewWritten
    <3> QED
      BY <1>7, <3>1 DEF set_fov_in_view
  <2>2. CASE ~tt
    BY <1>6, <2>2 DEF ViewWritten, Describable
  <2> QED
    BY <2>1, <2>2
<1>9. ViewOf(R) = IF v.type = NullView.type THEN NullView ELSE v
  BY <1>1, <1>6, <1>8, RecordsView
<1>10. q.view = set_header(ViewOf(R))
  BY <1>2
<1>11. IF tt
       THEN q.view.horiz = (IF picture.view.horiz = NoFOV THEN NullView.horiz
                            ELSE picture.view.horiz)
       ELSE q.view = IF picture.view.type = NullView.type THEN NullView ELSE picture.view
  <2>1. CASE tt
    <3>1. v = set_fov_in_view(picture.view)
      BY <1>6, <2>1 DEF ViewWritten
    <3>2. PICK w : w = ViewOf(R)
      OBVIOUS
    <3>3. q.view = [NullView EXCEPT !.horiz = w.horiz]
      BY <1>10, <2>1, <3>2 DEF set_header
    <3>4. q.view.horiz = w.horiz
      BY <1>7, <3>3
    <3>5. CASE picture.view.horiz = NoFOV
      <4>1. v = NullView
        BY <3>1, <3>5 DEF set_fov_in_view
      <4> QED
        BY <1>9, <2>1, <3>2, <3>4, <3>5, <4>1
    <3>6. CASE picture.view.horiz # NoFOV
      <4>1. v = [NullView EXCEPT !.type = "v", !.horiz = picture.view.horiz]
        BY <3>1, <3>6 DEF set_fov_in_view
      <4>2. v.type = "v" /\ v.horiz = picture.view.horiz
        BY <1>7, <4>1
      <4>3. w = v
        BY <1>7, <1>9, <3>2, <4>2
      <4> QED
        BY <2>1, <3>4, <3>6, <4>2, <4>3
    <3> QED
      BY <3>5, <3>6
  <2>2. CASE ~tt
    <3>1. v = picture.view
      BY <1>6, <2>2 DEF ViewWritten
    <3>2. q.view = ViewOf(R)
      BY <1>10, <2>2 DEF set_header
    <3> QED
      BY <1>9, <2>2, <3>1, <3>2
  <2> QED
    BY <2>1, <2>2
<1> QED
  BY <1>3, <1>4, <1>5, <1>11 DEF BackAs

LEMMA ReadRadianceStep ==
  ASSUME RadianceInv, suffix = ".hdr", ReadRadiance
  PROVE  RadianceInv'
<1>1. Describable(picture) /\ Streams /\ status \in {"success", "killed"} /\ RadianceLeft
  BY DEF RadianceInv, ReadRadiance, Closed
<1>2. /\ UNCHANGED <<suffix, picture, status, todo, buf, ferror, disk, tt>> /\ Items' = Items
      /\ HeadLength(picture)' = HeadLength(picture)
  BY RadianceKept DEF ReadRadiance, radiancevars, stream
<1>3. Streams' /\ RadianceLeft' /\ Describable(picture)' /\ status' # "writing"
  BY <1>1, <1>2 DEF Streams, RadianceLeft, Own
<1>4. ASSUME got' \notin {Nothing, Refused}
      PROVE  /\ Returned(got')
             /\ Plain(picture) => got'.rows = picture.rows
             /\ Plain(picture) /\ ~(picture.flat /\ ferror) => BackAs(got', picture)
  <2>1. GoodHeader(disk) /\ Array(disk) /\ OfKind(disk, "blank") # {}
    BY <1>1, <1>4 DEF ReadRadiance, Streams, GoodHeader
  <2>2. PICK rows \in RowsRead(Tail(BehindHeader(disk)), str2resolu(BehindHeader(disk)[1])) :
          /\ rows # <<>>
          /\ got' = [text |-> TextLines(HeaderOf(disk)),
                     view |-> set_header(ViewOf(HeaderOf(disk))),
                     exposure_set |-> OfKind(HeaderOf(disk), "exposure") # {},
                     exposure |-> ExposureOf(HeaderOf(disk)),
                     rows |-> rows, flat |-> picture.flat]
    BY <1>4, <2>1 DEF ReadRadiance
  <2>3. /\ Array(rows) /\ Len(rows) > 0
        /\ Plain(picture) => rows = picture.rows /\ ~NoRows(disk)
    BY <1>1, <2>1, <2>2, RowsFound DEF RadianceLeft
  <2>4. Returned(got')
    BY <1>1, <2>1, <2>2, <2>3, ReadReturned
  <2>5. Plain(picture) => got'.rows = picture.rows
    BY <2>2, <2>3
  <2>6. ASSUME Plain(picture), ~(picture.flat /\ ferror) PROVE BackAs(got', picture)
    <3>1. Damaged(disk, Items) /\ rows = picture.rows
      BY <1>1, <2>3, <2>6 DEF RadianceLeft
    <3> QED
      BY <1>1, <2>1, <2>2, <2>6, <3>1, ReadBackAs
  <2> QED
    BY <2>4, <2>5, <2>6
<1>5. GotRight'
  BY <1>2, <1>4 DEF GotRight, Returned, BackAs
<1> QED
  BY <1>1, <1>2, <1>3, <1>5 DEF RadianceInv

LEMMA RewriteStep ==
  ASSUME RadianceInv, suffix = ".hdr", Rewrite
  PROVE  RadianceInv'
<1>1. Describable(got) /\ suffix' = suffix /\ tt' = tt
  BY DEF RadianceInv, Rewrite, GotRight, Returned
<1>2. /\ picture' = got /\ todo' = RadianceItems(got) /\ status' = "writing"
      /\ buf' = <<>> /\ ferror' = FALSE /\ disk' = <<>> /\ got' = Nothing
  BY DEF Rewrite, Open
<1>3. Items' = RadianceItems(got)
  <2>1. Items' = RadianceItems(picture)'
    BY <1>1 DEF Items
  <2>2. HeaderRecords(picture)' = HeaderRecords(got)
    BY <1>1, <1>2 DEF HeaderRecords, ViewLines, ViewWritten
  <2> QED
    BY <1>2, <2>1, <2>2 DEF RadianceItems, write_radiance_header
<1>4. RadianceBegins'
  BY <1>1, <1>2, <1>3 DEF RadianceBegins
<1>5. RadianceBegun'
  <2>1. RadianceBegins' => RadianceBegun'
    BY RadianceFirst, PTL
  <2> QED
    BY <1>4, <2>1
<1>6. Streams' /\ \E k \in Nat : RadianceWriting(k)'
  BY <1>5 DEF RadianceBegun
<1> QED
  BY <1>1, <1>2, <1>6 DEF RadianceInv, GotRight

LEMMA RadianceStep ==
  ASSUME RadianceInv, suffix = ".hdr", RadianceNext \/ (Killed /\ UNCHANGED radiancevars)
  PROVE  RadianceInv'
BY WriteHeaderLineStep, WriteRowStep, CloseRadianceStep, ReadRadianceStep, RewriteStep
DEF RadianceNext

-----------------------------------------------------------------------------
(* All of them.                                                            *)
PictureInv ==
  /\ suffix \in {".hdr", ".jpg", ".png"}
  /\ RadianceInv /\ JpegInv /\ PngInv

LEMMA PictureStep ==
  ASSUME PictureInv, [Next]_vars
  PROVE  PictureInv'
<1> USE DEF PictureInv
<1>1. CASE suffix = ".hdr" /\ RadianceNext
  <2>1. suffix' = suffix
    BY <1>1 DEF RadianceNext, WriteHeaderLine, WriteRow, CloseRadiance, ReadRadiance, Rewrite
  <2>2. RadianceInv'
    BY <1>1, RadianceStep
  <2> QED
    BY <1>1, <2>1, <2>2 DEF JpegInv, PngInv
<1>2. CASE suffix = ".jpg" /\ JpegNext
  <2>1. suffix' = suffix
    BY <1>2 DEF JpegNext, WriteJpeg, FinishJpeg, EditMarkers, Edit, ReadJpeg, ReadProfile, streamvars
  <2>2. JpegInv'
    BY <1>2, JpegStep
  <2> QED
    BY <1>2, <2>1, <2>2 DEF RadianceInv, PngInv
<1>3. CASE suffix = ".png" /\ PngNext
  <2>1. suffix' = suffix
    BY <1>3 DEF PngNext, WritePng, ClosePng, ReadPng
  <2>2. PngInv'
    BY <1>3, PngStep
  <2> QED
    BY <1>3, <2>1, <2>2 DEF RadianceInv, JpegInv
<1>4. CASE Killed /\ UNCHANGED <<radiancevars, jpegvars, wanted>>
  <2>1. suffix' = suffix
    BY <1>4 DEF Killed
  <2>2. CASE suffix = ".hdr"
    <3>1. RadianceInv'
      BY <1>4, <2>2, RadianceStep
    <3> QED
      BY <2>1, <2>2, <3>1 DEF JpegInv, PngInv
  <2>3. CASE suffix = ".jpg"
    <3>1. JpegInv'
      BY <1>4, <2>3, JpegStep
    <3> QED
      BY <2>1, <2>3, <3>1 DEF RadianceInv, PngInv
  <2>4. CASE suffix = ".png"
    <3>1. PngInv'
      BY <1>4, <2>4, PngStep
    <3> QED
      BY <2>1, <2>4, <3>1 DEF RadianceInv, JpegInv
  <2> QED
    BY <2>2, <2>3, <2>4
<1>5. CASE UNCHANGED vars
  <2>1. UNCHANGED <<suffix, picture, todo, status, buf, ferror, disk, got, edited, wanted, tt>>
    BY <1>5 DEF vars, streamvars, stream, radiancevars, jpegvars
  <2>2. Items' = Items /\ HeadLength(picture)' = HeadLength(picture) /\ Done' = Done
    BY <2>1, RadianceKept DEF Done
  <2>3. InOrder' = InOrder /\ \A k : Left(k)' = Left(k)
    BY <2>1, <2>2 DEF InOrder, Left
  <2>4. \A k : RadianceWriting(k)' = RadianceWriting(k)
    BY <2>1, <2>2, <2>3 DEF RadianceWriting, WritingShape, Own
  <2>5. RadianceInv'
    BY <2>1, <2>2, <2>3, <2>4, GotKept DEF RadianceInv, Streams, RadianceLeft, Own
  <2>6. JpegInv'
    BY <2>1, <2>2, <2>3 DEF JpegInv, Streams
  <2>7. PngInv'
    BY <2>1, <2>2, <2>3 DEF PngInv, Streams
  <2> QED
    BY <2>1, <2>5, <2>6, <2>7
<1> QED
  BY <1>1, <1>2, <1>3, <1>4, <1>5 DEF Next, Finished

LEMMA PictureInvInvariant == Spec => []PictureInv
<1>1. Init => PictureInv
  BY RadianceInit, JpegInit, PngInit DEF Init, PictureInv
<1>2. PictureInv /\ [Next]_vars => PictureInv'
  BY PictureStep
<1> QED
  BY <1>1, <1>2, PTL DEF Spec

(* No reader returns less than was written.  The last disk may be full,    *)
(* the writer may have been killed, may not have looked at an error: the   *)
(* rows are all there or the picture is refused.                           *)
THEOREM PicturesWholeOrRefused == Spec => []WholeOrRefused
<1>1. PictureInv => WholeOrRefused
  BY DEF PictureInv, WholeOrRefused, RadianceInv, JpegInv, PngInv, GotRight
<1> QED
  BY <1>1, PictureInvInvariant, PTL

(* The writer of a JPEG picture knows of every loss: when it reports none, *)
(* the file is what was to be written.                                     *)
THEOREM JpegReachesTheFile == Spec => []JpegSuccess
<1>1. PictureInv => JpegSuccess
  BY DEF PictureInv, JpegSuccess, JpegInv, Items
<1> QED
  BY <1>1, PictureInvInvariant, PTL

(* A Radiance picture that a reader returns is the one written, as far as  *)
(* a header can say it, also if the header was cut off or its writer       *)
(* claimed success after an error.                                         *)
THEOREM PicturesReadBack == Spec => []ReadBack
<1>1. PictureInv => ReadBack
  BY DEF PictureInv, ReadBack, RadianceInv, GotRight, BackAs
<1> QED
  BY <1>1, PictureInvInvariant, PTL

-----------------------------------------------------------------------------
(* A picture that a reader has returned is written and read again.  Its    *)
(* whole file is not refused.                                              *)
LEMMA WholeAccepted ==
  ASSUME NEW p, Describable(p), Plain(p), Len(p.rows) > 0,
         NEW f, f = RadianceItems(p)
  PROVE  /\ GoodHeader(f)
         /\ <<>> \notin RowsRead(Tail(BehindHeader(f)), str2resolu(BehindHeader(f)[1]))
<1>1. PICK h : h = HeadLength(p) /\ h \in Nat /\ IsRadiance(f, p, h) /\ Array(f)
  BY RadianceShape
<1>2. PICK n \in Nat, l \in Nat : n = Len(p.rows) /\ l = Len(f)
  BY <1>1, ArrayFacts DEF Describable
<1>3. PICK k \in Nat : k = Len(HeaderRecords(p))
  BY RecordsKinds, ArrayFacts DEF AllKinds
<1>4. /\ f[1].kind = "magic" /\ f[h - 1].kind = "blank" /\ f[h] = Line("resolution", n)
      /\ \A j \in 1 .. n : f[h + j] = Row(p, j)
  BY <1>1, <1>2, <1>3 DEF IsRadiance
<1>len. h = k + 3 /\ l = h + n /\ n > 0
  BY <1>1, <1>2, <1>3 DEF IsRadiance
<1>5. h - 1 \in 1 .. l /\ h \in 1 .. l /\ 1 \in 1 .. l /\ h \in Nat
  BY <1>3, <1>len
<1>6. OfKind(f, "blank") # {}
  <2>1. h - 1 \in OfKind(f, "blank")
    BY <1>2, <1>4, <1>5 DEF OfKind
  <2> QED
    BY <2>1
<1>7. PICK b \in 1 .. Len(f) : EndsAt(f, b) /\ IsPart(BehindHeader(f), f, b + 1, Len(f))
  BY <1>1, <1>6, EndFound
<1>8. b = h - 1
  BY <1>1, <1>7, RadianceKinds DEF EndsAt
<1>9. BehindHeader(f) # <<>>
  <2>1. PICK g : g = BehindHeader(f) /\ IsPart(g, f, h, l)
    <3>1. b + 1 = h
      BY <1>2, <1>5, <1>8
    <3> QED
      BY <1>2, <1>7, <3>1
  <2>2. Len(g) = l - h + 1
    BY <1>2, <1>5, <2>1 DEF IsPart
  <2>3. Len(g) # 0
    BY <1>2, <1>len, <1>5, <2>2
  <2> QED
    BY <2>1, <2>3, SingleArray
<1>10. PICK t : /\ t = Tail(BehindHeader(f)) /\ Len(t) = l - h
                /\ \A i \in 1 .. l - h : t[i] = f[h + i]
                /\ BehindHeader(f)[1] = f[h]
  <2>1. b + 1 = h
    BY <1>2, <1>5, <1>8
  <2>2. PICK t : /\ t = Tail(BehindHeader(f)) /\ Len(t) = Len(f) - (b + 1)
                 /\ \A i \in 1 .. Len(f) - (b + 1) : t[i] = f[(b + 1) + i]
                 /\ BehindHeader(f)[1] = f[b + 1]
    BY <1>1, <1>7, <1>9, BehindFacts
  <2>3. /\ Len(t) = l - h /\ BehindHeader(f)[1] = f[h]
        /\ \A i \in 1 .. l - h : t[i] = f[h + i]
    BY <1>2, <2>1, <2>2
  <2> QED
    BY <2>2, <2>3
<1>11. str2resolu(BehindHeader(f)[1]) = n
  <2>1. f[h].kind = "resolution" /\ f[h].arg = n
    BY <1>4 DEF Line
  <2> QED
    BY <1>10, <2>1 DEF str2resolu
<1>12. \E i \in 1 .. Len(HeaderOf(f)) :
         OfKind(HeaderOf(f), "format") = {i} /\ HeaderOf(f)[i].arg # "other"
  <2>1. PICK R, x, y : R = HeaderRecords(p) /\ IsRecords(R, p, x, y)
    BY RecordsAre
  <2>2. HeaderOf(f) = R
    <3>1. Damaged(f, f)
      BY <1>1, <1>2 DEF Damaged
    <3> QED
      BY <1>6, <2>1, <3>1, HeaderBack
  <2>3. PICK c \in Nat : c = Len(p.text)
    BY ArrayFacts DEF Describable
  <2>4. OncePerKind(R, c, x, y)
    BY <2>1, <2>3, RecordsOfKind
  <2>5. PICK i \in Nat : i = (c + x) + y + 1
    BY <2>1, <2>3 DEF IsRecords
  <2>6. OfKind(R, "format") = {i}
    BY <2>4, <2>5 DEF OncePerKind
  <2>7. i \in 1 .. Len(R) /\ R[i] = Line("format", "rgbe")
    BY <2>1, <2>3, <2>5 DEF IsRecords
  <2>8. R[i].arg # "other"
    BY <2>7 DEF Line
  <2> QED
    BY <2>2, <2>6, <2>7, <2>8
<1>13. GoodHeader(f)
  <2>1. f # <<>>
    BY <1>2, <1>5, SingleArray
  <2> QED
    BY <1>2, <1>4, <1>6, <1>9, <1>11, <1>12, <2>1 DEF GoodHeader
<1>14. ASSUME NEW i \in 1 .. n PROVE t[i].kind = "row"
  <2>1. l - h = n
    BY <1>2, <1>3, <1>len
  <2>2. t[i] = Row(p, i)
    BY <1>4, <1>10, <2>1
  <2> QED
    BY <2>2 DEF Row
<1>15. Len(t) = n
  BY <1>len, <1>3, <1>2, <1>10
<1>16. <<>> \notin RowsRead(t, n)
  <2>1. ~(\E i \in 1 .. Len(t) : i <= n /\ t[i].kind \notin {"row", "torn"})
    BY <1>14, <1>15
  <2>2. RowsRead(t, n) = {[i \in 1 .. n |-> t[i].row]}
    BY <1>2, <1>14, <1>15, <2>1 DEF RowsRead
  <2>3. PICK r : r = [i \in 1 .. n |-> t[i].row]
    OBVIOUS
  <2>4. r # <<>>
    <3>1. r = [i \in 1 .. n |-> r[i]]
      BY <2>3
    <3>2. Len(r) = n
      BY <3>1, FunctionArray
    <3> QED
      BY <1>len, <3>2, SingleArray
  <2> QED
    BY <2>2, <2>3, <2>4
<1> QED
  BY <1>10, <1>11, <1>13, <1>16

(* The second time round.  On a device with room the file is whole when    *)
(* its writer is done.                                                     *)
SettledInv ==
  generation = 2 =>
    /\ suffix = ".hdr" /\ Returned(picture)
    /\ ~fragile => /\ ~ferror /\ status \in {"writing", "success"}
                   /\ status = "success" => disk = Items
                   /\ got # Refused

LEMMA SettledKept ==
  ASSUME SettledInv, generation = 2,
         UNCHANGED <<suffix, fragile, picture, tt, generation>>,
         ~fragile => /\ ~ferror' /\ status' \in {"writing", "success"}
                     /\ status' = "success" => disk' = Items
                     /\ got' # Refused
  PROVE  SettledInv'
<1>1. Items' = Items
  BY RadianceKept
<1>2. Returned(picture)'
  BY DEF SettledInv, Returned
<1> QED
  BY <1>1, <1>2 DEF SettledInv

LEMMA SettledStep ==
  ASSUME PictureInv, SettledInv, [Next]_vars
  PROVE  SettledInv'
<1>1. CASE generation = 2 /\ generation' = 2
  <2>1. /\ suffix = ".hdr" /\ Returned(picture) /\ Describable(picture)
        /\ Streams
        /\ status = "writing" => \E k \in Nat : RadianceWriting(k)
    BY <1>1 DEF SettledInv, PictureInv, RadianceInv
  <2>2. CASE WriteHeaderLine \/ WriteRow
    <3>1. /\ UNCHANGED <<suffix, fragile, picture, got, generation, tt>> /\ status = "writing"
          /\ \E failed \in BOOLEAN :
               Put(failed) /\ status' \in {status, IF RowRefused(failed) THEN "failure" ELSE status}
      BY <2>2 DEF WriteHeaderLine, WriteRow, Writing, radiancevars
    <3>2. ASSUME ~fragile, ~ferror PROVE ~ferror' /\ status' = "writing"
      BY <3>1, <3>2 DEF Put, RowRefused
    <3> QED
      BY <1>1, <3>1, <3>2, SettledKept DEF SettledInv
  <2>3. CASE CloseRadiance
    <3>1. PICK failed \in BOOLEAN : Drain(failed)
      BY <2>3 DEF CloseRadiance
    <3>2. /\ UNCHANGED <<suffix, fragile, picture, got, generation, tt>>
          /\ status = "writing" /\ status' = "success" /\ todo = <<>>
      BY <2>3 DEF CloseRadiance, Written, radiancevars
    <3>3. ASSUME ~fragile, ~ferror PROVE ~ferror' /\ disk' = Items
      <4>1. disk' = Done /\ ~ferror'
        BY <3>1, <3>3 DEF Drain, Done
      <4>2. Done = Items
        <5>1. PICK k \in Nat : RadianceWriting(k)
          BY <2>1, <3>2
        <5>2. InOrder
          BY <3>3, <5>1 DEF RadianceWriting
        <5> QED
          BY <2>1, <3>2, <5>2, InOrderDone
      <4> QED
        BY <4>1, <4>2
    <3> QED
      BY <1>1, <3>2, <3>3, SettledKept DEF SettledInv
  <2>4. CASE ReadRadiance
    <3>1. UNCHANGED <<suffix, fragile, picture, status, ferror, disk, generation, tt>>
      BY <2>4 DEF ReadRadiance, radiancevars, stream
    <3>2. ASSUME ~fragile, status \in {"writing", "success"}, status = "success" => disk = Items
          PROVE  got' # Refused
      <4>1. disk = RadianceItems(picture)
        BY <2>1, <2>4, <3>2 DEF ReadRadiance, Closed, Items
      <4>2. /\ GoodHeader(disk)
            /\ <<>> \notin RowsRead(Tail(BehindHeader(disk)), str2resolu(BehindHeader(disk)[1]))
        BY <2>1, <4>1, WholeAccepted DEF Returned
      <4>3. PICK rows :
              /\ rows # <<>>
              /\ got' = [text |-> TextLines(HeaderOf(disk)),
                         view |-> set_header(ViewOf(HeaderOf(disk))),
                         exposure_set |-> OfKind(HeaderOf(disk), "exposure") # {},
                         exposure |-> ExposureOf(HeaderOf(disk)),
                         rows |-> rows, flat |-> picture.flat]
        BY <2>4, <4>2 DEF ReadRadiance
      <4> QED
        BY <4>3 DEF Refused
    <3> QED
      BY <1>1, <3>1, <3>2, SettledKept DEF SettledInv
  <2>5. CASE Rewrite
    BY <1>1, <2>5 DEF Rewrite
  <2>6. CASE Killed /\ UNCHANGED radiancevars
    <3>1. UNCHANGED <<suffix, fragile, picture, generation, tt>> /\ fragile
      BY <2>6 DEF Killed, radiancevars
    <3> QED
      BY <1>1, <3>1, SettledKept
  <2>7. CASE UNCHANGED vars
    <3>1. UNCHANGED <<suffix, fragile, picture, status, ferror, disk, got, generation, tt>>
      BY <2>7 DEF vars, streamvars, stream, radiancevars
    <3> QED
      BY <1>1, <3>1, SettledKept DEF SettledInv
  <2> QED
    BY <2>1, <2>2, <2>3, <2>4, <2>5, <2>6, <2>7 DEF Next, RadianceNext, Finished
<1>2. CASE generation # 2 /\ generation' = 2
  <2>1. suffix = ".hdr" /\ Rewrite
    BY <1>2 DEF Next, RadianceNext, WriteHeaderLine, WriteRow, CloseRadiance, ReadRadiance,
                Finished, vars, radiancevars
  <2>2. /\ suffix' = suffix /\ tt' = tt /\ picture' = got /\ status' = "writing"
        /\ ferror' = FALSE /\ got' = Nothing /\ Returned(got)
    BY <2>1 DEF Rewrite, Open, PictureInv, RadianceInv, GotRight
  <2>3. Returned(picture)'
    BY <2>2 DEF Returned
  <2>4. got' # Refused
    BY <2>2 DEF Nothing, Refused
  <2> QED
    BY <2>1, <2>2, <2>3, <2>4 DEF SettledInv
<1>3. CASE generation' # 2
  BY <1>3 DEF SettledInv
<1> QED
  BY <1>1, <1>2, <1>3

WithFields(q, v, w) == [q EXCEPT !.view = v, !.exposure = w]

LEMMA FieldsChanged ==
  ASSUME NEW a, NEW b, NEW c, NEW d, NEW e, NEW g, NEW v, NEW w, NEW q,
         q = [text |-> a, view |-> b, exposure_set |-> c, exposure |-> d, rows |-> e, flat |-> g]
  PROVE  WithFields(q, v, w) =
         [text |-> a, view |-> v, exposure_set |-> c, exposure |-> w, rows |-> e, flat |-> g]
<1>1. [[text |-> a, view |-> b, exposure_set |-> c, exposure |-> d, rows |-> e, flat |-> g]
            EXCEPT !.view = v] =
      [text |-> a, view |-> v, exposure_set |-> c, exposure |-> d, rows |-> e, flat |-> g]
  OBVIOUS
<1>2. [[text |-> a, view |-> v, exposure_set |-> c, exposure |-> d, rows |-> e, flat |-> g]
            EXCEPT !.exposure = w] =
      [text |-> a, view |-> v, exposure_set |-> c, exposure |-> w, rows |-> e, flat |-> g]
  OBVIOUS
<1> QED
  BY <1>1, <1>2 DEF WithFields

(* ... and nothing of it changes, but for the exposure and for a view that *)
(* has no type.                                                            *)
LEMMA SettledMeans ==
  ASSUME PictureInv, SettledInv
  PROVE  Settled
<1> SUFFICES ASSUME generation = 2, ~fragile PROVE Settled
  BY DEF Settled
<1>1. Returned(picture) /\ Plain(picture) /\ got # Refused /\ suffix = ".hdr" /\ ~ferror
  BY DEF SettledInv, Returned
<1>2. ASSUME got # Nothing
      PROVE  /\ [got EXCEPT !.view = picture.view, !.exposure = picture.exposure] = picture
             /\ tt \/ picture.view.type # NullView.type => got.view = picture.view
  <2>1. Returned(got) /\ BackAs(got, picture)
    BY <1>1, <1>2 DEF PictureInv, RadianceInv, GotRight
  <2>2. [got EXCEPT !.view = picture.view, !.exposure = picture.exposure] = picture
    <3>1. got = [text |-> got.text, view |-> got.view, exposure_set |-> got.exposure_set,
                 exposure |-> got.exposure, rows |-> got.rows, flat |-> got.flat]
      BY <2>1 DEF Returned
    <3>2. picture = [text |-> picture.text, view |-> picture.view,
                     exposure_set |-> picture.exposure_set, exposure |-> picture.exposure,
                     rows |-> picture.rows, flat |-> picture.flat]
      BY <1>1 DEF Returned
    <3>3. /\ got.text = picture.text /\ got.exposure_set = picture.exposure_set
          /\ got.rows = picture.rows /\ got.flat = picture.flat
      BY <2>1 DEF BackAs
    <3>4. [got EXCEPT !.view = picture.view, !.exposure = picture.exposure] =
            [text |-> got.text, view |-> picture.view, exposure_set |-> got.exposure_set,
             exposure |-> picture.exposure, rows |-> got.rows, flat |-> got.flat]
      <4>1. PICK q, a, b, c, d, e, g, v, w :
              /\ q = got /\ a = got.text /\ b = got.view /\ c = got.exposure_set
              /\ d = got.exposure /\ e = got.rows /\ g = got.flat
              /\ v = picture.view /\ w = picture.exposure
        OBVIOUS
      <4>2. q = [text |-> a, view |-> b, exposure_set |-> c, exposure |-> d,
                 rows |-> e, flat |-> g]
        BY <3>1, <4>1
      <4>3. WithFields(q, v, w) =
              [text |-> a, view |-> v, exposure_set |-> c, exposure |-> w,
               rows |-> e, flat |-> g]
        BY <4>2, FieldsChanged
      <4>4. [got EXCEPT !.view = picture.view, !.exposure = picture.exposure] =
              WithFields(got, picture.view, picture.exposure)
        BY DEF WithFields
      <4> QED
        BY <4>1, <4>3, <4>4
    <3> QED
      BY <3>2, <3>3, <3>4
  <2>3. CASE tt
    <3>1. /\ picture.view = [NullView EXCEPT !.horiz = picture.view.horiz]
          /\ picture.view.horiz # NoFOV
          /\ got.view = [NullView EXCEPT !.horiz = got.view.horiz]
      BY <1>1, <2>1, <2>3 DEF Returned
    <3>2. got.view.horiz = picture.view.horiz
      BY <2>1, <2>3, <3>1 DEF BackAs
    <3> QED
      BY <2>2, <3>1, <3>2
  <2>4. CASE ~tt
    BY <2>1, <2>2, <2>4 DEF BackAs
  <2> QED
    BY <2>3, <2>4
<1> QED
  BY <1>1, <1>2 DEF Settled

(* A Radiance picture that a reader has returned, whatever the file said,  *)
(* is one that can be written and read again: it is not refused, and no    *)
(* more of it changes.                                                     *)
THEOREM ReturnedPicturesSettle == Spec => []Settled
<1>1. Init => SettledInv
  BY DEF Init, SettledInv
<1>2. PictureInv /\ SettledInv /\ [Next]_vars => SettledInv'
  BY SettledStep
<1>3. PictureInv /\ SettledInv => Settled
  BY SettledMeans
<1> QED
  BY <1>1, <1>2, <1>3, PictureInvInvariant, PTL DEF Spec
-----------------------------------------------------------------------------
(* The comment and the profile of a JPEG picture.  What counts of a file   *)
(* is which markers it has and how many of them belong to a profile: where *)
(* they are does not matter.                                               *)
Kinds == {"COM", "APP1", "APP2"}

MarksOf(x) == {m \in {x} : m.kind \in Kinds}
IccOf(x) == IF x.kind = "APP2" THEN 1 ELSE 0

(* f has the markers M, and n of its items belong to a profile.            *)
Has(f, M, n) ==
  /\ Array(f) /\ {m \in ToSet(f) : m.kind \in Kinds} = M
  /\ IsFiniteSet(IccPlaces(f)) /\ Cardinality(IccPlaces(f)) = n /\ n \in Nat

LEMMA ThingsOf ==
  ASSUME NEW f, Array(f)
  PROVE  ToSet(f) = {f[i] : i \in 1 .. Len(f)}
BY ArrayFacts DEF ToSet

LEMMA HasSome ==
  ASSUME NEW f, Array(f)
  PROVE  \E M, n : Has(f, M, n)
<1>1. PICK n \in Nat : n = Len(f)
  BY ArrayFacts
<1>2. PICK U : U = 1 .. n /\ IsFiniteSet(U)
  <2>1. 1 \in Int /\ n \in Int
    OBVIOUS
  <2> QED
    BY <2>1, FS_Interval
<1>3. IccPlaces(f) \in SUBSET U
  BY <1>1, <1>2 DEF IccPlaces
<1>4. IsFiniteSet(IccPlaces(f)) /\ Cardinality(IccPlaces(f)) \in Nat
  BY <1>2, <1>3, FS_Subset, FS_CardinalityType
<1> QED
  BY <1>4 DEF Has

LEMMA HasNone == Has(<<>>, {}, 0)
<1>1. PICK f : f = <<>> /\ Array(f) /\ Len(f) = 0
  BY SingleArray
<1>2. IccPlaces(f) = {} /\ ToSet(f) = {}
  BY <1>1, ThingsOf DEF IccPlaces
<1> QED
  BY <1>1, <1>2, FS_EmptySet DEF Has

LEMMA HasOne ==
  ASSUME NEW x
  PROVE  Has(<<x>>, MarksOf(x), IccOf(x))
<1>1. PICK f : f = <<x>> /\ Array(f) /\ Len(f) = 1 /\ f[1] = x
  BY SingleArray
<1>2. ToSet(f) = {x}
  BY <1>1, ThingsOf
<1>3. IccPlaces(f) = IF x.kind = "APP2" THEN {1} ELSE {}
  BY <1>1 DEF IccPlaces
<1>4. IsFiniteSet(IccPlaces(f)) /\ Cardinality(IccPlaces(f)) = IccOf(x)
  BY <1>3, FS_EmptySet, FS_Singleton DEF IccOf
<1>5. IccOf(x) \in Nat
  BY DEF IccOf
<1> QED
  BY <1>1, <1>2, <1>4, <1>5 DEF Has, MarksOf

(* The set S, d further up.                                                *)
Shifted(S, d) == {i + d : i \in S}

LEMMA ShiftedSet ==
  ASSUME NEW S \in SUBSET Nat, IsFiniteSet(S), NEW d \in Nat
  PROVE  IsFiniteSet(Shifted(S, d)) /\ Cardinality(Shifted(S, d)) = Cardinality(S)
<1>1. PICK h : h = [i \in S |-> i + d]
  OBVIOUS
<1>2. h \in Bijection(S, Shifted(S, d))
  <2>1. h \in [S -> Shifted(S, d)] /\ \A i \in S : h[i] = i + d
    BY <1>1 DEF Shifted
  <2>2. \A i, j \in S : i + d = j + d => i = j
    OBVIOUS
  <2>3. \A j \in Shifted(S, d) : \E i \in S : h[i] = j
    BY <2>1 DEF Shifted
  <2>4. IsInjective(h)
    <3>1. \A i, j \in DOMAIN h : h[i] = h[j] => i = j
      BY <2>1, <2>2
    <3> QED
      BY <3>1 DEF IsInjective
  <2> QED
    BY <2>1, <2>3, <2>4 DEF Bijection, Injection, Surjection
<1>3. ExistsBijection(S, Shifted(S, d))
  BY <1>2 DEF ExistsBijection
<1> QED
  BY <1>3, FS_Bijection

LEMMA HasBoth ==
  ASSUME NEW s, NEW t, NEW M, NEW L, NEW m, NEW n, Has(s, M, m), Has(t, L, n)
  PROVE  Has(s \o t, M \cup L, m + n)
<1>1. Array(s) /\ Array(t) /\ Len(s) \in Nat /\ Len(t) \in Nat /\ m \in Nat /\ n \in Nat
  BY ArrayFacts DEF Has
<1>2. PICK r : r = s \o t /\ Joined(r, s, t)
  BY <1>1, ConcatArray
<1>3. PICK d \in Nat, e \in Nat : d = Len(s) /\ e = Len(t)
  BY <1>1
<1>4. /\ Array(r) /\ Len(r) = d + e
      /\ \A i \in 1 .. d : r[i] = s[i]
      /\ \A i \in 1 .. e : r[d + i] = t[i]
  BY <1>2, <1>3 DEF Joined
<1>5. ASSUME NEW i \in 1 .. d + e PROVE i \in 1 .. d \/ \E j \in 1 .. e : i = d + j
  <2>1. i \in 1 .. d \/ (i - d \in 1 .. e /\ i = d + (i - d))
    OBVIOUS
  <2> QED
    BY <2>1
<1>6. /\ \A i \in 1 .. d : i \in 1 .. d + e
      /\ \A i \in 1 .. e : d + i \in 1 .. d + e
  OBVIOUS
<1>7. ToSet(r) = ToSet(s) \cup ToSet(t)
  <2>1. ToSet(r) = {r[i] : i \in 1 .. d + e}
    BY <1>4, ThingsOf
  <2>2. ToSet(s) = {s[i] : i \in 1 .. d} /\ ToSet(t) = {t[i] : i \in 1 .. e}
    BY <1>1, <1>3, ThingsOf
  <2> QED
    BY <1>4, <1>5, <1>6, <2>1, <2>2
<1>8. PICK A, B : A = IccPlaces(s) /\ B = Shifted(IccPlaces(t), d)
  OBVIOUS
<1>9. IccPlaces(r) = A \cup B
  <2>1. A = {i \in 1 .. d : s[i].kind = "APP2"}
    BY <1>3, <1>8 DEF IccPlaces
  <2>2. IccPlaces(t) = {i \in 1 .. e : t[i].kind = "APP2"}
    BY <1>3 DEF IccPlaces
  <2>3. \A i \in 1 .. e : i + d = d + i
    OBVIOUS
  <2>4. IccPlaces(r) = {i \in 1 .. d + e : r[i].kind = "APP2"}
    BY <1>4 DEF IccPlaces
  <2>5. \A x \in A \cup B : x \in IccPlaces(r)
    BY <1>4, <1>6, <1>8, <2>1, <2>2, <2>3, <2>4 DEF Shifted
  <2>6. ASSUME NEW x \in IccPlaces(r) PROVE x \in A \cup B
    <3>1. CASE x \in 1 .. d
      BY <1>4, <2>1, <2>4, <3>1
    <3>2. CASE \E j \in 1 .. e : x = d + j
      <4>1. PICK j \in 1 .. e : x = d + j
        BY <3>2
      <4>2. j \in IccPlaces(t)
        BY <1>4, <2>2, <2>4, <4>1
      <4>3. x = j + d
        BY <4>1
      <4> QED
        BY <1>8, <4>2, <4>3 DEF Shifted
    <3> QED
      BY <1>5, <2>4, <3>1, <3>2
  <2> QED
    BY <2>5, <2>6
<1>10. /\ IsFiniteSet(A) /\ Cardinality(A) = m
       /\ IsFiniteSet(B) /\ Cardinality(B) = n
  <2>1. IccPlaces(t) \in SUBSET Nat /\ IsFiniteSet(IccPlaces(t)) /\ Cardinality(IccPlaces(t)) = n
    BY DEF IccPlaces, Has
  <2> QED
    BY <1>8, <2>1, ShiftedSet DEF Has
<1>11. A \cap B = {}
  <2>1. A \subseteq 1 .. d /\ IccPlaces(t) \subseteq 1 .. e
    BY <1>3, <1>8 DEF IccPlaces
  <2>2. \A j \in 1 .. e : j + d \notin 1 .. d
    OBVIOUS
  <2> QED
    BY <1>8, <2>1, <2>2 DEF Shifted
<1>12. IsFiniteSet(A \cup B) /\ Cardinality(A \cup B) = m + n
  <2>1. IsFiniteSet(A \cup B) /\ Cardinality(A \cup B) = m + n - Cardinality(A \cap B)
    BY <1>10, FS_Union
  <2>2. Cardinality(A \cap B) = 0
    BY <1>11, FS_EmptySet
  <2> QED
    BY <1>1, <2>1, <2>2
<1>13. {x \in ToSet(r) : x.kind \in Kinds} = M \cup L
  BY <1>7 DEF Has
<1>14. m + n \in Nat
  BY <1>1
<1> QED
  BY <1>2, <1>4, <1>9, <1>12, <1>13, <1>14 DEF Has

LEMMA PartBetween ==
  ASSUME NEW s, Array(s), NEW m \in Nat, NEW n \in Nat, m > 0, n <= Len(s)
  PROVE  IsPart(SubSeq(s, m, n), s, m, n)
<1>1. PICK k \in Int : k = n /\ k <= Len(s)
  <2>1. n \in Int
    OBVIOUS
  <2> QED
    BY <2>1
<1>2. IsPart(SubSeq(s, m, k), s, m, k)
  BY <1>1, SubSeqArray
<1> QED
  BY <1>1, <1>2

(* A marker more, and one less.                                            *)
LEMMA HasInserted ==
  ASSUME NEW f, NEW M, NEW n, Has(f, M, n), NEW i \in 1 .. Len(f) + 1, NEW x
  PROVE  Has(InsertAt(f, i, x), M \cup MarksOf(x), n + IccOf(x))
<1>1. PICK l \in Nat : l = Len(f) /\ Array(f)
  BY ArrayFacts DEF Has
<1>2. PICK j \in Int, k \in Nat, one \in Nat :
        j = i - 1 /\ k = i /\ one = 1 /\ one > 0 /\ k > 0 /\ j <= l /\ k <= l + 1 /\ j + 1 = k
  <2>1. i - 1 \in Int /\ i \in Nat /\ i > 0 /\ i - 1 <= l /\ i <= l + 1 /\ (i - 1) + 1 = i
    BY <1>1
  <2> QED
    BY <2>1
<1>3. PICK a : a = SubSeq(f, one, j) /\ IsPart(a, f, one, j)
  BY <1>1, <1>2, SubSeqArray
<1>4. PICK b : b = SubSeq(f, k, l) /\ IsPart(b, f, k, l)
  <2>1. l <= Len(f)
    BY <1>1
  <2> QED
    BY <1>1, <1>2, <2>1, PartBetween
<1>5. /\ Array(a) /\ Len(a) = j /\ \A q \in 1 .. j : a[q] = f[q]
      /\ Array(b) /\ Len(b) = l - j /\ \A q \in 1 .. l - j : b[q] = f[j + q]
  <2>1. j >= 0 /\ j - one + 1 = j /\ \A q \in 1 .. j : (one - 1) + q = q
    BY <1>2
  <2>2. l - k + 1 = l - j /\ k - 1 = j /\ (k <= l \/ l - j = 0)
    BY <1>1, <1>2
  <2> QED
    BY <1>2, <1>3, <1>4, <2>1, <2>2 DEF IsPart
<1>6. f = a \o b
  <2>1. PICK r : r = a \o b /\ Joined(r, a, b)
    BY <1>5, ConcatArray
  <2>2. Array(r) /\ Len(r) = l
    BY <1>1, <1>2, <1>5, <2>1 DEF Joined
  <2>3. ASSUME NEW q \in 1 .. l PROVE r[q] = f[q]
    <3>1. CASE q <= j
      <4>1. q \in 1 .. j
        BY <1>2, <3>1
      <4> QED
        BY <1>5, <2>1, <4>1 DEF Joined
    <3>2. CASE q > j
      <4>1. PICK t \in 1 .. l - j : q = j + t
        <5>1. q - j \in 1 .. l - j /\ q = j + (q - j)
          BY <1>1, <1>2, <3>2
        <5> QED
          BY <5>1
      <4> QED
        BY <1>5, <2>1, <4>1 DEF Joined
    <3> QED
      BY <1>2, <3>1, <3>2
  <2> QED
    BY <1>1, <2>1, <2>2, <2>3, ArraysEqual
<1>7. PICK A, m : Has(a, A, m)
  BY <1>5, HasSome
<1>8. PICK B, o : Has(b, B, o)
  BY <1>5, HasSome
<1>9. Has(f, A \cup B, m + o)
  BY <1>6, <1>7, <1>8, HasBoth
<1>10. M = A \cup B /\ n = m + o /\ m \in Nat /\ o \in Nat
  BY <1>7, <1>8, <1>9 DEF Has
<1>11. Has(a \o <<x>>, A \cup MarksOf(x), m + IccOf(x))
  BY <1>7, HasOne, HasBoth
<1>12. Has((a \o <<x>>) \o b, (A \cup MarksOf(x)) \cup B, (m + IccOf(x)) + o)
  BY <1>8, <1>11, HasBoth
<1>13. InsertAt(f, i, x) = (a \o <<x>>) \o b
  BY <1>1, <1>2, <1>3, <1>4 DEF InsertAt
<1>14. (A \cup MarksOf(x)) \cup B = M \cup MarksOf(x) /\ (m + IccOf(x)) + o = n + IccOf(x)
  BY <1>10 DEF IccOf
<1> QED
  BY <1>12, <1>13, <1>14

(* Taking a marker out and putting it in again is no change.               *)
LEMMA RemovedInserted ==
  ASSUME NEW f, Array(f), NEW i \in 1 .. Len(f)
  PROVE  /\ Array(RemoveAt(f, i)) /\ Len(RemoveAt(f, i)) = Len(f) - 1
         /\ InsertAt(RemoveAt(f, i), i, f[i]) = f
<1>1. PICK l \in Nat : l = Len(f)
  BY ArrayFacts
<1>2. PICK j \in Nat, k \in Nat, one \in Nat :
        j = i - 1 /\ k = i + 1 /\ one = 1 /\ one > 0 /\ k > 0 /\ j <= l /\ k = j + 2 /\ j + 1 <= l
  <2>1. /\ i - 1 \in Nat /\ i + 1 \in Nat /\ i + 1 > 0 /\ i - 1 <= l /\ i + 1 = (i - 1) + 2
        /\ (i - 1) + 1 <= l
    BY <1>1
  <2> QED
    BY <2>1
<1>3. PICK a : a = SubSeq(f, one, j) /\ IsPart(a, f, one, j)
  <2>1. j <= Len(f)
    BY <1>1, <1>2
  <2> QED
    BY <1>2, <2>1, PartBetween
<1>4. PICK b : b = SubSeq(f, k, l) /\ IsPart(b, f, k, l)
  <2>1. l <= Len(f)
    BY <1>1
  <2> QED
    BY <1>2, <2>1, PartBetween
<1>5. PICK c \in Nat : c = l - (j + 1)
  BY <1>2
<1>6. /\ Array(a) /\ Len(a) = j /\ \A q \in 1 .. j : a[q] = f[q]
      /\ Array(b) /\ Len(b) = c /\ \A q \in 1 .. c : b[q] = f[(j + 1) + q]
  <2>1. j - one + 1 = j /\ (one <= j \/ j = 0) /\ \A q \in 1 .. j : (one - 1) + q = q
    BY <1>2
  <2>2. l - k + 1 = c /\ k - 1 = j + 1 /\ (k <= l \/ c = 0)
    BY <1>1, <1>2, <1>5
  <2> QED
    BY <1>2, <1>3, <1>4, <2>1, <2>2 DEF IsPart
<1>7. PICK r : r = a \o b /\ Joined(r, a, b)
  BY <1>6, ConcatArray
<1>8. r = RemoveAt(f, i)
  BY <1>1, <1>2, <1>3, <1>4, <1>7 DEF RemoveAt
<1>9. /\ Array(r) /\ Len(r) = j + c /\ \A q \in 1 .. j : r[q] = a[q]
      /\ \A q \in 1 .. c : r[j + q] = b[q]
  BY <1>6, <1>7 DEF Joined
<1>10. PICK x : x = f[i]
  OBVIOUS
<1>11. InsertAt(r, i, x) = (a \o <<x>>) \o b
  <2>1. PICK m \in Nat : m = i /\ m = j + 1 /\ m > 0 /\ m <= (j + c) + 1
    <3>1. i = j + 1 /\ j + 1 > 0 /\ j + 1 <= (j + c) + 1 /\ j + 1 \in Nat
      BY <1>2, <1>5
    <3> QED
      BY <3>1
  <2>2. SubSeq(r, one, j) = a
    <3>1. PICK h : h = SubSeq(r, one, j) /\ IsPart(h, r, one, j)
      <4>1. j <= Len(r)
        BY <1>9
      <4> QED
        BY <1>2, <1>9, <4>1, PartBetween
    <3>2. j - one + 1 = j /\ (one <= j \/ j = 0) /\ \A q \in 1 .. j : (one - 1) + q = q
      BY <1>2
    <3>3. Array(h) /\ Len(h) = j /\ \A q \in 1 .. j : h[q] = r[q]
      BY <3>1, <3>2 DEF IsPart
    <3>4. h = a
      BY <1>6, <1>9, <3>3, ArraysEqual
    <3> QED
      BY <3>1, <3>4
  <2>3. SubSeq(r, m, Len(r)) = b
    <3>0. PICK e \in Nat : e = j + c /\ e = Len(r) /\ e <= Len(r)
      <4>1. j + c \in Nat /\ j + c <= j + c
        OBVIOUS
      <4> QED
        BY <1>9, <4>1
    <3>1. PICK h : h = SubSeq(r, m, e) /\ IsPart(h, r, m, e)
      BY <1>9, <2>1, <3>0, PartBetween
    <3>2. e - m + 1 = c /\ (m <= e \/ c = 0) /\ m - 1 = j
      BY <1>5, <2>1, <3>0
    <3>3. Array(h) /\ Len(h) = c /\ \A q \in 1 .. c : h[q] = r[j + q]
      BY <3>1, <3>2 DEF IsPart
    <3>4. h = b
      BY <1>6, <1>9, <3>3, ArraysEqual
    <3> QED
      BY <3>0, <3>1, <3>4
  <2> QED
    BY <1>2, <2>1, <2>2, <2>3 DEF InsertAt
<1>12. (a \o <<x>>) \o b = f
  <2>1. PICK g : g = <<x>> /\ Array(g) /\ Len(g) = 1 /\ g[1] = x
    BY SingleArray
  <2>2. PICK h : h = a \o g /\ Joined(h, a, g)
    BY <1>6, <2>1, ConcatArray
  <2>3. Array(h) /\ Len(h) = j + 1 /\ h[j + 1] = x /\ \A q \in 1 .. j : h[q] = a[q]
    BY <1>6, <2>1, <2>2 DEF Joined
  <2>4. PICK e : e = h \o b /\ Joined(e, h, b)
    BY <1>6, <2>3, ConcatArray
  <2>5. /\ Array(e) /\ Len(e) = (j + 1) + c /\ \A q \in 1 .. j + 1 : e[q] = h[q]
        /\ \A q \in 1 .. c : e[(j + 1) + q] = b[q]
    BY <1>6, <2>3, <2>4 DEF Joined
  <2>6. ASSUME NEW q \in 1 .. l PROVE e[q] = f[q]
    <3>1. CASE q <= j
      <4>1. q \in 1 .. j /\ q \in 1 .. j + 1
        BY <3>1
      <4> QED
        BY <1>6, <2>3, <2>5, <4>1
    <3>2. CASE q = j + 1
      <4>1. q = i /\ q \in 1 .. j + 1
        BY <1>2, <3>2
      <4> QED
        BY <1>10, <2>3, <2>5, <3>2, <4>1
    <3>3. CASE q > j + 1
      <4>1. PICK t \in 1 .. c : q = (j + 1) + t
        <5>1. q - (j + 1) \in 1 .. c /\ q = (j + 1) + (q - (j + 1))
          BY <1>5, <3>3
        <5> QED
          BY <5>1
      <4> QED
        BY <1>6, <2>5, <4>1
    <3> QED
      BY <3>1, <3>2, <3>3
  <2>7. Len(e) = l
    BY <1>5, <2>5
  <2>8. e = f
    BY <1>1, <2>5, <2>6, <2>7, ArraysEqual
  <2> QED
    BY <2>1, <2>2, <2>4, <2>8
<1>13. Len(r) = l - 1
  BY <1>5, <1>9
<1> QED
  BY <1>1, <1>8, <1>9, <1>10, <1>11, <1>12, <1>13

(* A file is a SOI, its markers, and what is behind them.                  *)
LEMMA FileOfMarkers ==
  ASSUME Array(disk), HasScan(disk)
  PROVE  /\ Array(Markers) /\ Array(Behind)
         /\ disk = (<<disk[1]>> \o Markers) \o Behind
<1>1. PICK l \in Nat : l = Len(disk)
  BY ArrayFacts
<1>2. PICK s \in Nat, t \in Int, two \in Nat, o \in Nat :
        /\ s = ScanBegin(disk) /\ t = s - 1 /\ two = 2 /\ two > 0 /\ s > 0
        /\ s <= l /\ t <= l /\ s = o + 2 /\ t = o + 1
  <2>1. ScanBegin(disk) \in 1 .. l /\ disk[ScanBegin(disk)].kind = "SOS"
    BY <1>1, ScanFound DEF HasScan
  <2>2. ScanBegin(disk) # 1
    BY <2>1 DEF HasScan
  <2>3. PICK s \in Nat : s = ScanBegin(disk) /\ s >= 2 /\ s <= l
    BY <2>1, <2>2
  <2>4. s - 1 \in Int /\ s - 2 \in Nat /\ s = (s - 2) + 2 /\ s - 1 = (s - 2) + 1
        /\ 2 \in Nat /\ s > 0 /\ s - 1 <= l
    BY <2>3
  <2> QED
    BY <2>3, <2>4
<1>3. PICK m : m = Markers /\ IsPart(m, disk, two, t)
  <2>1. t <= Len(disk)
    BY <1>1, <1>2
  <2>2. IsPart(SubSeq(disk, two, t), disk, two, t)
    BY <1>2, <2>1, SubSeqArray
  <2> QED
    BY <1>2, <2>2 DEF Markers
<1>4. PICK b : b = Behind /\ IsPart(b, disk, s, l)
  <2>1. s > 0 /\ l <= Len(disk)
    BY <1>1, <1>2
  <2>2. IsPart(SubSeq(disk, s, l), disk, s, l)
    BY <2>1, PartBetween
  <2> QED
    BY <1>1, <1>2, <2>2 DEF Behind
<1>5. PICK c \in Nat : c = l - (o + 1)
  BY <1>2
<1>6. /\ Array(m) /\ Len(m) = o /\ \A q \in 1 .. o : m[q] = disk[1 + q]
      /\ Array(b) /\ Len(b) = c /\ \A q \in 1 .. c : b[q] = disk[(1 + o) + q]
  <2>1. t - two + 1 = o /\ two - 1 = 1 /\ (two <= t \/ o = 0)
    BY <1>2
  <2>2. l - s + 1 = c /\ s - 1 = 1 + o /\ s <= l
    BY <1>2, <1>5
  <2> QED
    BY <1>3, <1>4, <2>1, <2>2 DEF IsPart
<1>7. PICK a : a = <<disk[1]>> /\ Array(a) /\ Len(a) = 1 /\ a[1] = disk[1]
  BY SingleArray
<1>8. PICK h : h = a \o m /\ Joined(h, a, m)
  BY <1>6, <1>7, ConcatArray
<1>9. /\ Array(h) /\ Len(h) = 1 + o /\ h[1] = disk[1]
      /\ \A q \in 1 .. o : h[1 + q] = m[q]
  BY <1>6, <1>7, <1>8 DEF Joined
<1>10. PICK e : e = h \o b /\ Joined(e, h, b)
  BY <1>6, <1>9, ConcatArray
<1>11. /\ Array(e) /\ Len(e) = (1 + o) + c /\ \A q \in 1 .. 1 + o : e[q] = h[q]
       /\ \A q \in 1 .. c : e[(1 + o) + q] = b[q]
  BY <1>6, <1>9, <1>10 DEF Joined
<1>12. ASSUME NEW q \in 1 .. l PROVE e[q] = disk[q]
  <2>1. CASE q = 1
    BY <1>9, <1>11, <2>1
  <2>2. CASE q > 1 /\ q <= 1 + o
    <3>1. PICK i \in 1 .. o : q = 1 + i
      <4>1. q - 1 \in 1 .. o /\ q = 1 + (q - 1)
        BY <2>2
      <4> QED
        BY <4>1
    <3>2. q \in 1 .. 1 + o
      BY <2>2
    <3> QED
      BY <1>6, <1>9, <1>11, <3>1, <3>2
  <2>3. CASE q > 1 + o
    <3>1. PICK i \in 1 .. c : q = (1 + o) + i
      <4>1. q - (1 + o) \in 1 .. c /\ q = (1 + o) + (q - (1 + o))
        BY <1>5, <2>3
      <4> QED
        BY <4>1
    <3> QED
      BY <1>6, <1>11, <3>1
  <2> QED
    BY <2>1, <2>2, <2>3
<1>13. Len(e) = l
  BY <1>5, <1>11
<1>14. e = disk
  BY <1>1, <1>11, <1>12, <1>13, ArraysEqual
<1> QED
  BY <1>3, <1>4, <1>6, <1>7, <1>8, <1>10, <1>14

Exif == [kind |-> "APP1"]

(* What an edit does to the markers.                                       *)
Changed(what, M, n, L, k) ==
  /\ L \subseteq M \cup {Exif}
  /\ what = "doubled" => L = M
  /\ what = "moved" => L = M /\ k = n
  /\ what = "EXIF" => M \subseteq L /\ k = n

LEMMA MarksWithin ==
  ASSUME NEW f, NEW M, NEW n, Has(f, M, n), NEW i \in 1 .. Len(f)
  PROVE  MarksOf(f[i]) \subseteq M
<1>1. f[i] \in ToSet(f)
  BY ThingsOf DEF Has
<1> QED
  BY <1>1 DEF Has, MarksOf

LEMMA MarkersChanged ==
  ASSUME NEW m, NEW M, NEW n, Has(m, M, n), NEW what, NEW r,
         \/ what = "lost" /\ \E i \in 1 .. Len(m) : r = RemoveAt(m, i)
         \/ what = "doubled" /\ \E i \in 1 .. Len(m) : r = InsertAt(m, i, m[i])
         \/ /\ what = "moved"
            /\ \E i \in 1 .. Len(m), j \in 1 .. Len(m) : r = InsertAt(RemoveAt(m, i), j, m[i])
         \/ what = "EXIF" /\ \E i \in 1 .. Len(m) + 1 : r = InsertAt(m, i, Exif)
  PROVE  \E L, k : Has(r, L, k) /\ Changed(what, M, n, L, k)
<1>1. Array(m) /\ Len(m) \in Nat /\ n \in Nat
  BY ArrayFacts DEF Has
<1>2. ASSUME NEW i \in 1 .. Len(m)
      PROVE  \E L, k : /\ Has(RemoveAt(m, i), L, k) /\ k \in Nat
                       /\ M = L \cup MarksOf(m[i]) /\ n = k + IccOf(m[i])
                       /\ Len(RemoveAt(m, i)) = Len(m) - 1
  <2>1. PICK q : q = RemoveAt(m, i) /\ Array(q) /\ Len(q) = Len(m) - 1 /\ InsertAt(q, i, m[i]) = m
    BY <1>1, RemovedInserted
  <2>2. PICK L, k : Has(q, L, k)
    BY <2>1, HasSome
  <2>3. i \in 1 .. Len(q) + 1
    BY <1>1, <2>1
  <2>4. Has(InsertAt(q, i, m[i]), L \cup MarksOf(m[i]), k + IccOf(m[i]))
    BY <2>2, <2>3, HasInserted
  <2>5. Has(m, L \cup MarksOf(m[i]), k + IccOf(m[i]))
    BY <2>1, <2>4
  <2>6. M = L \cup MarksOf(m[i]) /\ n = k + IccOf(m[i]) /\ k \in Nat
    BY <2>2, <2>5 DEF Has
  <2> QED
    BY <2>1, <2>2, <2>6
<1>3. CASE what = "lost" /\ \E i \in 1 .. Len(m) : r = RemoveAt(m, i)
  <2>1. PICK i \in 1 .. Len(m) : r = RemoveAt(m, i)
    BY <1>3
  <2>2. PICK L, k : Has(r, L, k) /\ M = L \cup MarksOf(m[i])
    BY <1>2, <2>1
  <2>3. Changed(what, M, n, L, k)
    BY <1>3, <2>2 DEF Changed
  <2> QED
    BY <2>2, <2>3
<1>4. CASE what = "doubled" /\ \E i \in 1 .. Len(m) : r = InsertAt(m, i, m[i])
  <2>1. PICK i \in 1 .. Len(m) : r = InsertAt(m, i, m[i])
    BY <1>4
  <2>2. i \in 1 .. Len(m) + 1
    BY <1>1
  <2>3. Has(r, M \cup MarksOf(m[i]), n + IccOf(m[i]))
    BY <2>1, <2>2, HasInserted
  <2>4. M \cup MarksOf(m[i]) = M
    BY MarksWithin
  <2>5. Changed(what, M, n, M \cup MarksOf(m[i]), n + IccOf(m[i]))
    BY <1>4, <2>4 DEF Changed
  <2> QED
    BY <2>3, <2>5
<1>5. CASE what = "moved" /\ \E i \in 1 .. Len(m), j \in 1 .. Len(m) :
                               r = InsertAt(RemoveAt(m, i), j, m[i])
  <2>1. PICK i \in 1 .. Len(m), j \in 1 .. Len(m) : r = InsertAt(RemoveAt(m, i), j, m[i])
    BY <1>5
  <2>2. PICK q, L, k : /\ q = RemoveAt(m, i) /\ Has(q, L, k) /\ Len(q) = Len(m) - 1
                       /\ M = L \cup MarksOf(m[i]) /\ n = k + IccOf(m[i])
    BY <1>2
  <2>3. j \in 1 .. Len(q) + 1
    BY <1>1, <2>2
  <2>4. Has(InsertAt(q, j, m[i]), L \cup MarksOf(m[i]), k + IccOf(m[i]))
    BY <2>2, <2>3, HasInserted
  <2>5. Has(r, M, n)
    BY <2>1, <2>2, <2>4
  <2>6. Changed(what, M, n, M, n)
    BY <1>5 DEF Changed
  <2> QED
    BY <2>5, <2>6
<1>6. CASE what = "EXIF" /\ \E i \in 1 .. Len(m) + 1 : r = InsertAt(m, i, Exif)
  <2>1. PICK i \in 1 .. Len(m) + 1 : r = InsertAt(m, i, Exif)
    BY <1>6
  <2>2. Has(r, M \cup MarksOf(Exif), n + IccOf(Exif))
    BY <2>1, HasInserted
  <2>3. MarksOf(Exif) \subseteq {Exif} /\ n + IccOf(Exif) = n
    BY <1>1 DEF MarksOf, IccOf, Exif
  <2>4. Changed(what, M, n, M \cup MarksOf(Exif), n + IccOf(Exif))
    BY <1>6, <2>3 DEF Changed
  <2> QED
    BY <2>2, <2>4
<1> QED
  BY <1>3, <1>4, <1>5, <1>6

LEMMA FileChanged ==
  ASSUME Array(disk), HasScan(disk), EditMarkers, NEW M, NEW n, Has(disk, M, n)
  PROVE  \E what, L, k : /\ edited' = Append(edited, what)
                         /\ Has(disk', L, k) /\ Changed(what, M, n, L, k)
<1>1. /\ Array(Markers) /\ Array(Behind)
      /\ disk = (<<disk[1]>> \o Markers) \o Behind
  BY FileOfMarkers
<1>2. PICK m, b, A, u, B, v : /\ m = Markers /\ b = Behind /\ Has(m, A, u) /\ Has(b, B, v)
                              /\ u \in Nat /\ v \in Nat
  <2>1. PICK A, u : Has(Markers, A, u)
    BY <1>1, HasSome
  <2>2. PICK B, v : Has(Behind, B, v)
    BY <1>1, HasSome
  <2> QED
    BY <2>1, <2>2 DEF Has
<1>3. ASSUME NEW x, x.kind = "SOI", NEW r, NEW L, NEW k, Has(r, L, k)
      PROVE  Has((<<x>> \o r) \o b, L \cup B, k + v)
  <2>1. MarksOf(x) = {} /\ IccOf(x) = 0
    BY <1>3 DEF MarksOf, IccOf, Kinds
  <2>2. Has(<<x>>, {}, 0)
    BY <2>1, HasOne
  <2>3. Has(<<x>> \o r, {} \cup L, 0 + k)
    BY <1>3, <2>2, HasBoth
  <2>4. Has((<<x>> \o r) \o b, ({} \cup L) \cup B, (0 + k) + v)
    BY <1>2, <2>3, HasBoth
  <2>5. ({} \cup L) \cup B = L \cup B /\ (0 + k) + v = k + v
    BY <1>2, <1>3 DEF Has
  <2> QED
    BY <2>4, <2>5
<1>4. M = A \cup B /\ n = u + v
  <2>1. Has(disk, A \cup B, u + v)
    <3>1. disk[1].kind = "SOI" /\ disk = (<<disk[1]>> \o m) \o b
      BY <1>1, <1>2 DEF HasScan
    <3> QED
      BY <1>2, <1>3, <3>1
  <2> QED
    BY <2>1 DEF Has
<1>5. PICK what, r :
        /\ \/ what = "lost" /\ \E i \in 1 .. Len(m) : r = RemoveAt(m, i)
           \/ what = "doubled" /\ \E i \in 1 .. Len(m) : r = InsertAt(m, i, m[i])
           \/ /\ what = "moved"
              /\ \E i \in 1 .. Len(m), j \in 1 .. Len(m) : r = InsertAt(RemoveAt(m, i), j, m[i])
           \/ what = "EXIF" /\ \E i \in 1 .. Len(m) + 1 : r = InsertAt(m, i, Exif)
        /\ edited' = Append(edited, what)
        /\ disk' = (<<[kind |-> "SOI"]>> \o r) \o b
  BY <1>2 DEF EditMarkers, Edit, Exif
<1>6. PICK L, k : Has(r, L, k) /\ Changed(what, A, u, L, k)
  BY <1>2, <1>5, MarkersChanged
<1>7. Has(disk', L \cup B, k + v)
  <2>1. [kind |-> "SOI"].kind = "SOI"
    OBVIOUS
  <2> QED
    BY <1>3, <1>5, <1>6, <2>1
<1>8. Changed(what, M, n, L \cup B, k + v)
  BY <1>4, <1>6 DEF Changed
<1> QED
  BY <1>5, <1>7, <1>8

-----------------------------------------------------------------------------
(* The markers that are written.                                           *)
Count(data) == NumMarkers(Len(data))
Upto(data, k) == IF k = Count(data) THEN Len(data) ELSE k * MaxData
Chunk(data, k) == SubSeq(data, (k - 1) * MaxData + 1, Upto(data, k))
Icc(data, k) ==
  [kind |-> "APP2", seq |-> k % ByteRange, num |-> Count(data) % ByteRange,
   data |-> Chunk(data, k)]

MarkersOf(p) == ToSet(CommentMarker(p)) \cup ToSet(IccMarkers(p.profile))

LEMMA CountIsNat ==
  ASSUME NEW data, Array(data)
  PROVE  Count(data) \in Nat
<1>1. \A n, m \in Nat : m # 0 => n \div m \in Nat
  OBVIOUS
<1>2. MaxData \in Nat /\ MaxData # 0 /\ Len(data) \in Nat
  BY JpegAssumption, ArrayFacts DEF JpegAssumption
<1>3. Len(data) \div MaxData \in Nat
  BY <1>1, <1>2
<1> QED
  BY <1>3 DEF Count, NumMarkers

LEMMA IccAre ==
  ASSUME NEW data, Array(data), NEW n \in Nat, n = Count(data)
  PROVE  /\ Array(IccMarkers(data)) /\ Len(IccMarkers(data)) = n
         /\ \A k \in 1 .. n : IccMarkers(data)[k] = Icc(data, k)
         /\ ToSet(IccMarkers(data)) = {Icc(data, k) : k \in 1 .. n}
         /\ Has(IccMarkers(data), ToSet(IccMarkers(data)), n)
<1>1. PICK f : f = IccMarkers(data)
  OBVIOUS
<1>2. f = [i \in 1 .. n |->
             [kind |-> "APP2", seq |-> i % ByteRange, num |-> n % ByteRange,
              data |-> SubSeq(data, (i - 1) * MaxData + 1,
                              IF i = n THEN Len(data) ELSE i * MaxData)]]
  BY <1>1 DEF IccMarkers, Count
<1>3. \A k \in 1 .. n : f[k] = Icc(data, k)
  BY <1>2 DEF Icc, Chunk, Upto
<1>4. f = [i \in 1 .. n |-> f[i]]
  BY <1>2
<1>5. Array(f) /\ Len(f) = n
  BY <1>4, FunctionArray
<1>6. ToSet(f) = {Icc(data, k) : k \in 1 .. n}
  <2>1. ToSet(f) = {f[k] : k \in 1 .. n}
    BY <1>5, ThingsOf
  <2> QED
    BY <1>3, <2>1
<1>7. Has(f, ToSet(f), n)
  <2>1. \A k \in 1 .. n : f[k].kind = "APP2"
    BY <1>2
  <2>2. IccPlaces(f) = 1 .. n
    BY <1>5, <2>1 DEF IccPlaces
  <2>3. IsFiniteSet(1 .. n) /\ Cardinality(1 .. n) = n
    <3>1. 1 \in Int /\ n \in Int /\ (IF 1 > n THEN 0 ELSE n - 1 + 1) = n
      OBVIOUS
    <3> QED
      BY <3>1, FS_Interval
  <2>4. \A x \in ToSet(f) : x.kind \in Kinds
    <3>1. ToSet(f) = {f[k] : k \in 1 .. n}
      BY <1>5, ThingsOf
    <3> QED
      BY <2>1, <3>1 DEF Kinds
  <2> QED
    BY <1>5, <2>2, <2>3, <2>4 DEF Has
<1> QED
  BY <1>1, <1>3, <1>5, <1>6, <1>7

LEMMA CommentAre ==
  ASSUME NEW p
  PROVE  /\ Array(CommentMarker(p)) /\ Has(CommentMarker(p), ToSet(CommentMarker(p)), 0)
         /\ \A x \in ToSet(CommentMarker(p)) :
              x.kind = "COM" /\ x.comment = p.comment /\ p.comment # NULL
         /\ CommentMarker(p) # <<>> => \E x \in ToSet(CommentMarker(p)) : x.kind = "COM"
<1>1. PICK f : f = CommentMarker(p)
  OBVIOUS
<1>2. CASE f = <<>>
  <2>1. PICK g : g = <<>> /\ Array(g) /\ Len(g) = 0
    BY SingleArray
  <2>2. ToSet(g) = {}
    BY <2>1, ThingsOf
  <2>3. Has(g, {}, 0)
    BY <2>1, HasNone
  <2> QED
    BY <1>1, <1>2, <2>1, <2>2, <2>3
<1>3. CASE f = <<[kind |-> "COM", comment |-> p.comment]>> /\ p.comment # NULL
  <2>1. PICK x : x = [kind |-> "COM", comment |-> p.comment]
    OBVIOUS
  <2>2. PICK g : g = <<x>> /\ Array(g) /\ Len(g) = 1 /\ g[1] = x
    BY SingleArray
  <2>3. ToSet(g) = {x} /\ x.kind = "COM" /\ x.comment = p.comment
    BY <2>1, <2>2, ThingsOf
  <2>4. MarksOf(x) = {x} /\ IccOf(x) = 0
    BY <2>3 DEF MarksOf, IccOf, Kinds
  <2>5. Has(g, {x}, 0)
    BY <2>2, <2>4, HasOne
  <2> QED
    BY <1>1, <1>3, <2>1, <2>2, <2>3, <2>5
<1> QED
  BY <1>1, <1>2, <1>3 DEF CommentMarker

(* A file is begun by h as far as its image.                               *)
Heads(h, n, p) ==
  /\ n \in Nat /\ n > 0 /\ Array(h) /\ Len(h) = n /\ h[n].kind = "SOS" /\ h[1].kind = "SOI"
  /\ \A i \in 1 .. n - 1 : h[i].kind # "SOS"
  /\ Has(h, MarkersOf(p), Count(p.profile))

LEMMA JpegHead ==
  ASSUME NEW p, Array(p.rows), Array(p.profile)
  PROVE  \E h, n : /\ Heads(h, n, p) /\ Array(JpegItems(p)) /\ Len(JpegItems(p)) >= n
                   /\ \A i \in 1 .. n : JpegItems(p)[i] = h[i]
                   /\ \A i \in n + 1 .. Len(JpegItems(p)) :
                        JpegItems(p)[i].kind \in {"row", "EOI"}
<1>1. PICK a : a = <<[kind |-> "SOI"]>> /\ Array(a) /\ Len(a) = 1 /\ a[1] = [kind |-> "SOI"]
  BY SingleArray
<1>2. PICK c : c = CommentMarker(p) /\ Has(c, ToSet(c), 0) /\ Array(c) /\ NoScan(c)
  <2>1. ASSUME NEW i \in 1 .. Len(CommentMarker(p)) PROVE CommentMarker(p)[i].kind # "SOS"
    <3>1. CommentMarker(p)[i] \in ToSet(CommentMarker(p))
      BY CommentAre, ThingsOf
    <3>2. CommentMarker(p)[i].kind = "COM"
      BY <3>1, CommentAre
    <3> QED
      BY <3>2
  <2> QED
    BY <2>1, CommentAre DEF NoScan
<1>3. PICK k, e : /\ k \in Nat /\ k = Count(p.profile) /\ e = IccMarkers(p.profile)
                 /\ Has(e, ToSet(e), k) /\ NoScan(e)
  <2>1. Count(p.profile) \in Nat
    BY CountIsNat
  <2> QED
    BY <2>1, IccAre, IccNoScan
<1>4. PICK x : x = [kind |-> "SOS", rows |-> Len(p.rows)]
  OBVIOUS
<1>5. PICK z : z = <<x>> /\ Array(z) /\ Len(z) = 1 /\ z[1] = x
  BY SingleArray
<1>6. PICK g : g = (a \o c) \o e /\ NoScan(g) /\ Array(g)
  <2>1. NoScan(a)
    BY <1>1 DEF NoScan
  <2>2. NoScan(a \o c)
    BY <1>2, <2>1, NoScanConcat
  <2>3. NoScan((a \o c) \o e)
    BY <1>3, <2>2, NoScanConcat
  <2> QED
    BY <2>3 DEF NoScan
<1>7. Len(g) \in Nat /\ Len(g) > 0 /\ g[1].kind = "SOI"
  <2>1. PICK b : b = a \o c /\ Joined(b, a, c)
    BY <1>1, <1>2, ConcatArray
  <2>2. Array(e) /\ Array(b)
    BY <1>3, <2>1 DEF NoScan, Joined
  <2>3. Joined(g, b, e)
    BY <1>6, <2>1, <2>2, ConcatArray
  <2>4. Len(c) \in Nat /\ Len(e) \in Nat
    BY <1>2, <2>2, ArrayFacts
  <2>5. Len(b) = 1 + Len(c) /\ b[1] = a[1]
    BY <1>1, <2>1 DEF Joined
  <2>6. 1 \in 1 .. Len(b) /\ Len(g) = (1 + Len(c)) + Len(e)
    BY <2>3, <2>4, <2>5 DEF Joined
  <2>7. g[1] = b[1]
    BY <2>3, <2>6 DEF Joined
  <2> QED
    BY <1>1, <2>4, <2>5, <2>6, <2>7
<1>8. PICK h : h = g \o z /\ Joined(h, g, z)
  BY <1>5, <1>6, ConcatArray
<1>9. PICK n \in Nat : /\ n = Len(g) + 1 /\ n > 0 /\ Array(h) /\ Len(h) = n /\ h[n] = x
                       /\ \A i \in 1 .. n - 1 : h[i] = g[i]
  <2>1. PICK l \in Nat, n \in Nat : l = Len(g) /\ n = l + 1
    BY <1>7
  <2>2. /\ Array(h) /\ Len(h) = l + 1 /\ \A i \in 1 .. l : h[i] = g[i]
        /\ \A i \in 1 .. 1 : h[l + i] = z[i]
    BY <1>5, <1>8, <2>1 DEF Joined
  <2>3. h[l + 1] = x /\ n - 1 = l
    BY <1>5, <2>1, <2>2
  <2> QED
    BY <2>1, <2>2, <2>3
<1>10. Heads(h, n, p)
  <2>1. Has(a, {}, 0) /\ Has(z, {}, 0)
    <3>1. MarksOf([kind |-> "SOI"]) = {} /\ IccOf([kind |-> "SOI"]) = 0
      BY DEF MarksOf, IccOf, Kinds
    <3>2. MarksOf(x) = {} /\ IccOf(x) = 0
      BY <1>4 DEF MarksOf, IccOf, Kinds
    <3>3. PICK y : y = [kind |-> "SOI"]
      OBVIOUS
    <3>4. Has(<<y>>, MarksOf(y), IccOf(y)) /\ Has(<<x>>, MarksOf(x), IccOf(x))
      BY HasOne
    <3> QED
      BY <1>1, <1>5, <3>1, <3>2, <3>3, <3>4
  <2>2. Has(a \o c, {} \cup ToSet(c), 0 + 0)
    BY <1>2, <2>1, HasBoth
  <2>3. Has(g, ({} \cup ToSet(c)) \cup ToSet(e), (0 + 0) + k)
    BY <1>3, <1>6, <2>2, HasBoth
  <2>4. Has(h, (({} \cup ToSet(c)) \cup ToSet(e)) \cup {}, ((0 + 0) + k) + 0)
    BY <1>8, <2>1, <2>3, HasBoth
  <2>5. /\ (({} \cup ToSet(c)) \cup ToSet(e)) \cup {} = MarkersOf(p)
        /\ ((0 + 0) + k) + 0 = Count(p.profile)
    BY <1>2, <1>3 DEF MarkersOf
  <2>6. Has(h, MarkersOf(p), Count(p.profile))
    BY <2>4, <2>5
  <2>7. h[n].kind = "SOS"
    BY <1>4, <1>9
  <2>8. \A i \in 1 .. n - 1 : i \in 1 .. Len(g)
    BY <1>7, <1>9
  <2>9. \A i \in 1 .. n - 1 : h[i].kind # "SOS"
    BY <1>6, <1>9, <2>8 DEF NoScan
  <2>10. h[1].kind = "SOI"
    <3>1. 1 \in 1 .. n - 1
      BY <1>7, <1>9
    <3> QED
      BY <1>7, <1>9, <3>1
  <2> QED
    BY <1>9, <2>6, <2>7, <2>9, <2>10 DEF Heads
<1>11. PICK m, r : /\ m \in Nat /\ r = RowItems(p.rows) /\ Array(r) /\ Len(r) = m
                  /\ \A j \in 1 .. m : r[j].kind = "row"
  <2>1. PICK m \in Nat : m = Len(p.rows)
    BY ArrayFacts
  <2>2. /\ Array(RowItems(p.rows)) /\ Len(RowItems(p.rows)) = m
        /\ \A j \in 1 .. m : RowItems(p.rows)[j] = Row(p, j)
    BY <2>1, RowItemsArray
  <2>3. \A j \in 1 .. m : Row(p, j).kind = "row"
    BY DEF Row
  <2> QED
    BY <2>2, <2>3
<1>12. PICK o : o = <<[kind |-> "EOI"]>> /\ Array(o) /\ Len(o) = 1 /\ o[1] = [kind |-> "EOI"]
  BY SingleArray
<1>13. PICK b : b = h \o r /\ Joined(b, h, r)
  BY <1>9, <1>11, ConcatArray
<1>14. /\ Array(b) /\ Len(b) = n + m /\ \A i \in 1 .. n : b[i] = h[i]
       /\ \A i \in 1 .. m : b[n + i] = r[i]
  BY <1>9, <1>11, <1>13 DEF Joined
<1>15. PICK f : f = b \o o /\ Joined(f, b, o)
  BY <1>12, <1>14, ConcatArray
<1>16. /\ Array(f) /\ Len(f) = (n + m) + 1 /\ \A i \in 1 .. n + m : f[i] = b[i]
       /\ f[(n + m) + 1] = [kind |-> "EOI"]
  BY <1>12, <1>14, <1>15 DEF Joined
<1>17. f = JpegItems(p)
  BY <1>1, <1>2, <1>3, <1>4, <1>5, <1>6, <1>8, <1>11, <1>12, <1>13, <1>15 DEF JpegItems
<1>18. ASSUME NEW i \in n + 1 .. Len(f) PROVE f[i].kind \in {"row", "EOI"}
  <2>1. CASE i = (n + m) + 1
    BY <1>16, <2>1
  <2>2. CASE i <= n + m
    <3>1. PICK j \in 1 .. m : i = n + j
      <4>1. i - n \in 1 .. m /\ i = n + (i - n)
        BY <1>11, <2>2
      <4> QED
        BY <4>1
    <3>2. f[i] = r[j]
      <4>1. i \in 1 .. n + m
        BY <2>2
      <4> QED
        BY <1>14, <1>16, <3>1, <4>1
    <3> QED
      BY <1>11, <3>2
  <2> QED
    BY <1>11, <1>16, <2>1, <2>2
<1>19. Len(f) >= n /\ \A i \in 1 .. n : f[i] = h[i]
  <2>1. \A i \in 1 .. n : i \in 1 .. n + m
    BY <1>11
  <2> QED
    BY <1>11, <1>14, <1>16, <2>1
<1> QED
  BY <1>10, <1>16, <1>17, <1>18, <1>19

(* A file with an image has all the markers: it was cut off behind them.   *)
LEMMA HasDamaged ==
  ASSUME NEW p, Array(p.rows), Array(p.profile), NEW f, Damaged(f, JpegItems(p)),
         \E i \in 1 .. Len(f) : f[i].kind = "SOS"
  PROVE  Has(f, MarkersOf(p), Count(p.profile)) /\ f[1].kind = "SOI"
<1>1. PICK g, h, n : /\ g = JpegItems(p) /\ Heads(h, n, p) /\ Array(g) /\ Len(g) >= n
                     /\ \A i \in 1 .. n : g[i] = h[i]
                     /\ \A i \in n + 1 .. Len(g) : g[i].kind \in {"row", "EOI"}
  BY JpegHead
<1>2. PICK l \in Nat : l = Len(f)
  BY ArrayFacts DEF Damaged
<1>3. n \in Nat /\ n > 0 /\ Len(g) \in Nat
  BY <1>1, ArrayFacts DEF Heads
<1>4. /\ Array(f) /\ l <= Len(g) /\ \A i \in 1 .. l : f[i] \in {g[i], Torn}
      /\ \A i \in 1 .. l - 1 : f[i] = g[i]
  BY <1>1, <1>2 DEF Damaged
<1>5. \A i \in n + 1 .. l : f[i].kind \in {"row", "EOI", "torn"}
  <2>1. \A i \in n + 1 .. l : i \in n + 1 .. Len(g) /\ i \in 1 .. l
    BY <1>3, <1>4
  <2> QED
    BY <1>1, <1>4, <2>1 DEF Torn
<1>6. PICK s \in 1 .. l : f[s].kind = "SOS"
  BY <1>2
<1>7. s = n
  <2>1. f[s] = g[s]
    BY <1>4, <1>6 DEF Torn
  <2>2. CASE s < n
    <3>1. s \in 1 .. n - 1 /\ s \in 1 .. n
      BY <1>3, <2>2
    <3> QED
      BY <1>1, <1>6, <2>1, <3>1 DEF Heads
  <2>3. CASE s > n
    <3>1. s \in n + 1 .. l
      BY <1>3, <2>3
    <3> QED
      BY <1>5, <1>6, <3>1
  <2> QED
    BY <1>3, <2>2, <2>3
<1>8. \A i \in 1 .. n : f[i] = h[i]
  <2>1. f[n] = g[n]
    BY <1>4, <1>6, <1>7 DEF Torn
  <2>2. \A i \in 1 .. n : i = n \/ i \in 1 .. l - 1
    BY <1>3, <1>6, <1>7
  <2> QED
    BY <1>1, <1>4, <2>1, <2>2
<1>9. ASSUME NEW i \in 1 .. l PROVE i \in 1 .. n \/ i \in n + 1 .. l
  BY <1>3
<1>10. \A i \in 1 .. n : i \in 1 .. l
  BY <1>3, <1>6, <1>7
<1>11. Len(h) = n /\ Array(h) /\ h[1].kind = "SOI" /\ Has(h, MarkersOf(p), Count(p.profile))
  BY <1>1 DEF Heads
<1>12. IccPlaces(f) = IccPlaces(h)
  <2>1. IccPlaces(f) = {i \in 1 .. l : f[i].kind = "APP2"}
    BY <1>2 DEF IccPlaces
  <2>2. IccPlaces(h) = {i \in 1 .. n : h[i].kind = "APP2"}
    BY <1>11 DEF IccPlaces
  <2> QED
    BY <1>5, <1>8, <1>9, <1>10, <2>1, <2>2
<1>13. {x \in ToSet(f) : x.kind \in Kinds} = {x \in ToSet(h) : x.kind \in Kinds}
  <2>1. ToSet(f) = {f[i] : i \in 1 .. l}
    BY <1>2, <1>4, ThingsOf
  <2>2. ToSet(h) = {h[i] : i \in 1 .. n}
    BY <1>11, ThingsOf
  <2>3. \A i \in n + 1 .. l : f[i].kind \notin Kinds
    BY <1>5 DEF Kinds
  <2> QED
    BY <1>8, <1>9, <1>10, <2>1, <2>2, <2>3
<1>14. f[1] = h[1]
  <2>1. 1 \in 1 .. n
    BY <1>3
  <2> QED
    BY <1>8, <2>1
<1> QED
  BY <1>4, <1>11, <1>12, <1>13, <1>14 DEF Has

-----------------------------------------------------------------------------
(* The comment that is read: that of the last marker saved.                *)
LEMMA CommentFound ==
  ASSUME NEW p, Array(p.profile), p.comment # Unassigned,
         NEW f, NEW M, NEW n, Has(f, M, n), M \subseteq MarkersOf(p) \cup {Exif}
  PROVE  /\ CommentRead(f) = Unassigned <=> Saved(f) = {}
         /\ CommentRead(f) \notin {NULL, Unassigned} => CommentRead(f) = p.comment
         /\ CommentMarker(p) # <<>> /\ M = MarkersOf(p) => CommentRead(f) = p.comment
<1>1. PICK l \in Nat : l = Len(f) /\ Array(f)
  BY ArrayFacts DEF Has
<1>2. \A i \in 1 .. l : f[i] \in ToSet(f)
  BY <1>1, ThingsOf
<1>3. M = {x \in ToSet(f) : x.kind \in Kinds}
  BY DEF Has
<1>4. ASSUME NEW x \in M, x.kind = "COM"
      PROVE  x.comment = p.comment /\ p.comment # NULL
  <2>1. x \notin ToSet(IccMarkers(p.profile))
    <3>1. PICK k \in Nat : k = Count(p.profile)
      BY CountIsNat
    <3>2. ToSet(IccMarkers(p.profile)) = {Icc(p.profile, q) : q \in 1 .. k}
      BY <3>1, IccAre
    <3>3. \A q : Icc(p.profile, q).kind = "APP2"
      BY DEF Icc
    <3> QED
      BY <1>4, <3>2, <3>3
  <2>2. x # Exif
    BY <1>4 DEF Exif
  <2>3. x \in ToSet(CommentMarker(p))
    BY <1>4, <2>1, <2>2 DEF MarkersOf
  <2> QED
    BY <2>3, CommentAre
<1>5. NULL # Unassigned
  <2>1. NULL.kind = "NULL" /\ Unassigned.kind = "unassigned"
    BY DEF NULL, Unassigned
  <2> QED
    BY <2>1
<1>6. CASE Saved(f) = {}
  <2>1. CommentRead(f) = Unassigned
    BY <1>6 DEF CommentRead
  <2>2. ~(CommentMarker(p) # <<>> /\ M = MarkersOf(p))
    <3>1. SUFFICES ASSUME CommentMarker(p) # <<>>, M = MarkersOf(p) PROVE FALSE
      OBVIOUS
    <3>2. PICK x \in M : x.kind = "COM"
      BY <3>1, CommentAre DEF MarkersOf
    <3>3. PICK i \in 1 .. l : f[i] = x
      BY <1>1, <1>3, <3>2, ThingsOf
    <3> QED
      BY <1>1, <1>6, <3>2, <3>3 DEF Saved
  <2> QED
    BY <1>6, <2>1, <2>2
<1>7. CASE Saved(f) # {}
  <2>1. PICK S : S = Saved(f)
    OBVIOUS
  <2>2. S \in SUBSET (1 .. l) /\ S # {}
    BY <1>1, <1>7, <2>1 DEF Saved
  <2>3. \E m \in S : \A j \in S : j <= m
    <3>1. 1 \in Int /\ l \in Int
      OBVIOUS
    <3> QED
      BY <2>2, <3>1, LargestElement
  <2>4. PICK m : m = CHOOSE i \in S : \A j \in S : j <= i
    OBVIOUS
  <2>5. m \in S
    BY <2>3, <2>4
  <2>6. CommentRead(f) = IF f[m].kind = "COM" THEN f[m].comment ELSE NULL
    BY <1>7, <2>1, <2>4 DEF CommentRead
  <2>7. m \in 1 .. l /\ f[m].kind \in {"COM", "APP1"}
    BY <1>1, <2>1, <2>5 DEF Saved
  <2>8. f[m] \in M
    BY <1>2, <1>3, <2>7 DEF Kinds
  <2>9. M = MarkersOf(p) => f[m].kind # "APP1"
    <3>1. PICK k \in Nat : k = Count(p.profile)
      BY CountIsNat
    <3>2. ToSet(IccMarkers(p.profile)) = {Icc(p.profile, q) : q \in 1 .. k}
      BY <3>1, IccAre
    <3>3. \A q : Icc(p.profile, q).kind = "APP2"
      BY DEF Icc
    <3>4. \A x \in MarkersOf(p) : x.kind # "APP1"
      BY <3>2, <3>3, CommentAre DEF MarkersOf
    <3> QED
      BY <2>8, <3>4
  <2>10. CASE f[m].kind = "COM"
    BY <1>4, <1>5, <1>7, <2>6, <2>8, <2>10
  <2>11. CASE f[m].kind = "APP1"
    BY <1>5, <1>7, <2>6, <2>9, <2>11
  <2> QED
    BY <2>7, <2>10, <2>11
<1> QED
  BY <1>6, <1>7

-----------------------------------------------------------------------------
(* The profile that is read.                                               *)
IsFlat(w, s, n) == w = [i \in 1 .. n |-> IF i = 1 THEN s[i] ELSE w[i - 1] \o s[i]]

LEMMA FlattenedAs ==
  ASSUME NEW s, NEW n \in Nat \ {0}, Len(s) = n, NEW v, IsFlat(v, s, n)
  PROVE  FlattenSeq(s) = v[n]
<1>1. FlattenSeq(s) = (CHOOSE w : w = [i \in 1 .. Len(s) |->
                                         IF i = 1 THEN s[i] ELSE w[i - 1] \o s[i]])[Len(s)]
  BY DEF FlattenSeq
<1>2. PICK w : w = CHOOSE g : IsFlat(g, s, n)
  OBVIOUS
<1>3. IsFlat(w, s, n)
  BY <1>2
<1>4. FlattenSeq(s) = w[n]
  BY <1>1, <1>2 DEF IsFlat
<1>5. PICK S : S = {i \in 1 .. n : w[i] = v[i]}
  OBVIOUS
<1>6. 1 \in S
  <2>1. 1 \in 1 .. n
    OBVIOUS
  <2>2. w[1] = s[1] /\ v[1] = s[1]
    BY <1>3, <2>1 DEF IsFlat
  <2> QED
    BY <1>5, <2>1, <2>2
<1>7. ASSUME NEW i \in 1 .. n - 1, i \in S PROVE i + 1 \in S
  <2>1. i + 1 \in 1 .. n /\ i + 1 # 1 /\ (i + 1) - 1 = i
    OBVIOUS
  <2>2. w[i + 1] = w[i] \o s[i + 1] /\ v[i + 1] = v[i] \o s[i + 1]
    BY <1>3, <2>1 DEF IsFlat
  <2> QED
    BY <1>5, <1>7, <2>1, <2>2
<1>8. 1 .. n \subseteq S
  <2>1. 1 \in Int /\ n \in Int /\ 1 <= n
    OBVIOUS
  <2> QED
    BY <1>6, <1>7, <2>1, Upwards
<1>9. n \in S
  BY <1>8
<1> QED
  BY <1>4, <1>5, <1>9

(* Where the chunks begin and end.                                         *)
LEMMA ChunkPlaces ==
  ASSUME NEW data, Array(data), NEW n \in Nat, n = Count(data)
  PROVE  /\ n = 0 <=> data = <<>>
         /\ \A k \in 1 .. n : (k - 1) * MaxData \in Nat /\ (k - 1) * MaxData <= Upto(data, k)
         /\ \A k \in 1 .. n : Upto(data, k) \in Nat /\ Upto(data, k) <= Len(data)
         /\ \A k \in 1 .. n - 1 : Upto(data, k) = ((k + 1) - 1) * MaxData
         /\ n > 0 => Upto(data, n) = Len(data)
<1>1. PICK l \in Nat, m \in Nat : l = Len(data) /\ m = MaxData /\ m > 0
  BY ArrayFacts, JpegAssumption DEF JpegAssumption
<1>2. PICK q \in Nat, r \in Nat : /\ q = l \div m /\ r = l % m /\ r < m
  <2>1. l \div m \in Nat /\ l % m \in Nat /\ l % m < m
    BY <1>1
  <2> QED
    BY <2>1
<1>3. l = m * q + r
  BY <1>1, <1>2
<1>4. n = IF r = 0 THEN q ELSE q + 1
  BY <1>1, <1>2 DEF Count, NumMarkers
<1>5. \A a, b \in Nat : a <= b => a * m \in Nat /\ m * a = a * m /\ a * m <= b * m
  BY <1>1
<1>6. \A a \in Nat : (a + 1) * m = a * m + m
  BY <1>1
<1>7. ASSUME NEW k \in 1 .. n PROVE (k - 1) * m \in Nat /\ (k - 1) * m <= l
  <2>1. PICK a \in Nat : a = k - 1 /\ a <= q
    <3>1. k - 1 \in Nat /\ k - 1 <= q
      BY <1>4
    <3> QED
      BY <3>1
  <2>2. PICK c \in Nat, d \in Nat : c = a * m /\ d = q * m /\ c <= d /\ m * q = d
    BY <1>5, <2>1
  <2> QED
    BY <1>3, <2>1, <2>2
<1>8. ASSUME NEW k \in 1 .. n - 1 PROVE k * m \in Nat /\ k * m <= l
  <2>1. k \in Nat /\ k <= q
    BY <1>4
  <2>2. PICK c \in Nat, d \in Nat : c = k * m /\ d = q * m /\ c <= d /\ m * q = d
    BY <1>5, <2>1
  <2> QED
    BY <1>3, <2>1, <2>2
<1>9. n = 0 <=> l = 0
  <2>1. ASSUME l = 0 PROVE n = 0
    <3>1. q = 0 \/ q >= 1
      OBVIOUS
    <3>2. ASSUME q >= 1 PROVE FALSE
      <4>1. PICK c \in Nat, d \in Nat : c = 1 * m /\ d = q * m /\ c <= d /\ m * q = d /\ c = m
        BY <1>1, <1>5, <3>2
      <4> QED
        BY <1>1, <1>3, <2>1, <4>1
    <3>3. q = 0
      BY <3>1, <3>2
    <3>4. r = 0
      BY <1>3, <2>1, <3>3
    <3> QED
      BY <1>4, <3>3, <3>4
  <2>2. ASSUME n = 0 PROVE l = 0
    <3>1. q = 0 /\ r = 0
      BY <1>4, <2>2
    <3> QED
      BY <1>3, <3>1
  <2> QED
    BY <2>1, <2>2
<1>10. l = 0 <=> data = <<>>
  BY <1>1, SingleArray, ArraysEqual
<1>11. n > 0 => Upto(data, n) = l
  BY <1>1 DEF Upto
<1>12. ASSUME NEW k \in 1 .. n - 1 PROVE Upto(data, k) = k * m /\ (k + 1) - 1 = k
  BY <1>1 DEF Upto
<1>13. ASSUME NEW k \in 1 .. n
       PROVE  Upto(data, k) \in Nat /\ Upto(data, k) <= l /\ (k - 1) * m <= Upto(data, k)
  <2>1. CASE k = n
    BY <1>7, <1>11, <2>1
  <2>2. CASE k # n
    <3>1. k \in 1 .. n - 1 /\ k - 1 \in Nat /\ k \in Nat /\ k - 1 <= k
      BY <2>2
    <3>2. (k - 1) * m <= k * m
      BY <1>5, <3>1
    <3> QED
      BY <1>8, <1>12, <3>1, <3>2
  <2> QED
    BY <2>1, <2>2
<1> QED
  BY <1>1, <1>7, <1>9, <1>10, <1>11, <1>12, <1>13

(* Two parts of an array that follow each other.                           *)
LEMMA PartsJoin ==
  ASSUME NEW s, Array(s), NEW a \in Nat, NEW b \in Nat, a <= b, b <= Len(s)
  PROVE  SubSeq(s, 1, a) \o SubSeq(s, a + 1, b) = SubSeq(s, 1, b)
<1>1. PICK l \in Nat, one \in Nat, c \in Nat :
        l = Len(s) /\ one = 1 /\ one > 0 /\ c = a + 1 /\ c > 0 /\ a <= l /\ b <= l
  <2>1. Len(s) \in Nat
    BY ArrayFacts
  <2>2. 1 \in Nat /\ a + 1 \in Nat /\ a + 1 > 0 /\ a <= Len(s)
    BY <2>1
  <2> QED
    BY <2>1, <2>2
<1>2. PICK d \in Nat : b = a + d
  <2>1. b - a \in Nat /\ b = a + (b - a)
    OBVIOUS
  <2> QED
    BY <2>1
<1>3. PICK x : x = SubSeq(s, one, a) /\ IsPart(x, s, one, a)
  <2>1. a <= Len(s)
    BY <1>1
  <2> QED
    BY <1>1, <2>1, PartBetween
<1>4. PICK y : y = SubSeq(s, c, b) /\ IsPart(y, s, c, b)
  BY <1>1, PartBetween
<1>5. PICK z : z = SubSeq(s, one, b) /\ IsPart(z, s, one, b)
  BY <1>1, PartBetween
<1>6. /\ Array(x) /\ Len(x) = a /\ \A i \in 1 .. a : x[i] = s[i]
      /\ Array(y) /\ Len(y) = d /\ \A i \in 1 .. d : y[i] = s[a + i]
      /\ Array(z) /\ Len(z) = b /\ \A i \in 1 .. b : z[i] = s[i]
  <2>1. a - one + 1 = a /\ (one <= a \/ a = 0) /\ b - one + 1 = b /\ (one <= b \/ b = 0)
    BY <1>1
  <2>2. b - c + 1 = d /\ (c <= b \/ d = 0) /\ c - 1 = a
    BY <1>1, <1>2
  <2>3. \A i \in Nat : (one - 1) + i = i
    BY <1>1
  <2> QED
    BY <1>3, <1>4, <1>5, <2>1, <2>2, <2>3 DEF IsPart
<1>7. PICK r : r = x \o y /\ Joined(r, x, y)
  BY <1>6, ConcatArray
<1>8. /\ Array(r) /\ Len(r) = a + d /\ \A i \in 1 .. a : r[i] = x[i]
      /\ \A i \in 1 .. d : r[a + i] = y[i]
  BY <1>6, <1>7 DEF Joined
<1>9. ASSUME NEW i \in 1 .. b PROVE r[i] = z[i]
  <2>1. CASE i <= a
    <3>1. i \in 1 .. a
      BY <2>1
    <3> QED
      BY <1>6, <1>8, <3>1
  <2>2. CASE i > a
    <3>1. PICK j \in 1 .. d : i = a + j
      <4>1. i - a \in 1 .. d /\ i = a + (i - a)
        BY <1>2, <2>2
      <4> QED
        BY <4>1
    <3> QED
      BY <1>6, <1>8, <3>1
  <2> QED
    BY <2>1, <2>2
<1>10. r = z
  BY <1>2, <1>6, <1>8, <1>9, ArraysEqual
<1> QED
  BY <1>1, <1>3, <1>4, <1>5, <1>7, <1>10

(* The chunks, one behind the other, are the profile.                      *)
LEMMA ChunksJoin ==
  ASSUME NEW data, Array(data), NEW n \in Nat, n = Count(data), n # 0,
         NEW s, Len(s) = n, \A k \in 1 .. n : s[k] = Chunk(data, k)
  PROVE  FlattenSeq(s) = data
<1>1. PICK v : v = [k \in 1 .. n |-> SubSeq(data, 1, Upto(data, k))]
  OBVIOUS
<1>2. ASSUME NEW k \in 1 .. n PROVE v[k] = IF k = 1 THEN s[k] ELSE v[k - 1] \o s[k]
  <2>1. PICK a \in Nat, b \in Nat :
          a = (k - 1) * MaxData /\ b = Upto(data, k) /\ a <= b /\ b <= Len(data)
    BY ChunkPlaces
  <2>2. s[k] = SubSeq(data, a + 1, b) /\ v[k] = SubSeq(data, 1, b)
    BY <1>1, <2>1 DEF Chunk
  <2>3. CASE k = 1
    <3>1. MaxData \in Nat
      BY JpegAssumption DEF JpegAssumption
    <3>2. a = 0
      BY <2>1, <2>3, <3>1
    <3>3. a + 1 = 1
      BY <3>2
    <3> QED
      BY <2>2, <2>3, <3>3
  <2>4. CASE k # 1
    <3>1. PICK j \in 1 .. n - 1 : k = j + 1 /\ k - 1 = j
      <4>1. k - 1 \in 1 .. n - 1 /\ k = (k - 1) + 1
        BY <2>4
      <4> QED
        BY <4>1
    <3>2. Upto(data, j) = ((j + 1) - 1) * MaxData
      BY <3>1, ChunkPlaces
    <3>3. Upto(data, j) = a
      BY <2>1, <3>1, <3>2
    <3>4. v[j] = SubSeq(data, 1, a)
      <4>1. j \in 1 .. n
        BY <3>1
      <4> QED
        BY <1>1, <3>3, <4>1
    <3>5. v[j] \o s[k] = v[k]
      BY <2>1, <2>2, <3>4, PartsJoin
    <3> QED
      BY <2>4, <3>1, <3>5
  <2> QED
    BY <2>3, <2>4
<1>3. IsFlat(v, s, n)
  <2>1. v = [k \in 1 .. n |-> v[k]]
    BY <1>1
  <2> QED
    BY <1>2, <2>1 DEF IsFlat
<1>4. FlattenSeq(s) = v[n]
  <2>1. n \in Nat \ {0}
    OBVIOUS
  <2> QED
    BY <1>3, <2>1, FlattenedAs
<1>5. v[n] = SubSeq(data, 1, Len(data))
  <2>1. n \in 1 .. n /\ n > 0
    OBVIOUS
  <2>2. Upto(data, n) = Len(data)
    BY <2>1, ChunkPlaces
  <2> QED
    BY <1>1, <2>1, <2>2
<1>6. SubSeq(data, 1, Len(data)) = data
  <2>1. PICK one \in Nat, l \in Nat : one = 1 /\ one > 0 /\ l = Len(data) /\ l <= Len(data)
    <3>1. Len(data) \in Nat /\ 1 \in Nat
      BY ArrayFacts
    <3> QED
      BY <3>1
  <2>2. PICK t : t = SubSeq(data, one, l) /\ IsPart(t, data, one, l)
    BY <2>1, PartBetween
  <2>3. l - one + 1 = l /\ (one <= l \/ l = 0) /\ \A i \in Nat : (one - 1) + i = i
    BY <2>1
  <2>4. Array(t) /\ Len(t) = l /\ \A i \in 1 .. l : t[i] = data[i]
    BY <2>2, <2>3 DEF IsPart
  <2>5. t = data
    BY <2>1, <2>4, ArraysEqual
  <2> QED
    BY <2>1, <2>2, <2>5
<1> QED
  BY <1>4, <1>5, <1>6

LEMMA SmallRemainder ==
  ASSUME NEW k \in Nat, NEW b \in Nat, k < b
  PROVE  k % b = k
OBVIOUS

LEMMA RemainderBelow ==
  ASSUME NEW k \in Nat, NEW b \in Nat, b > 0
  PROVE  k % b \in Nat /\ k % b < b
OBVIOUS

(* Each marker of a profile in a file is one of those written.             *)
LEMMA IccPlacesOwn ==
  ASSUME NEW data, Array(data), NEW f, Array(f), NEW n \in Nat, n = Count(data),
         NEW p, p.profile = data, NEW M, NEW c, Has(f, M, c),
         M \subseteq MarkersOf(p) \cup {Exif}
  PROVE  \A i \in IccPlaces(f) : \E k \in 1 .. n : f[i] = Icc(data, k)
<1> SUFFICES ASSUME NEW i \in IccPlaces(f) PROVE \E k \in 1 .. n : f[i] = Icc(data, k)
  OBVIOUS
<1>1. i \in 1 .. Len(f) /\ f[i].kind = "APP2"
  BY DEF IccPlaces
<1>2. f[i] \in ToSet(f)
  BY <1>1, ThingsOf
<1>3. f[i] \in M
  BY <1>1, <1>2 DEF Has, Kinds
<1>4. f[i] # Exif /\ f[i] \notin ToSet(CommentMarker(p))
  <2>1. \A x \in ToSet(CommentMarker(p)) : x.kind = "COM"
    BY CommentAre
  <2> QED
    BY <1>1, <2>1 DEF Exif
<1>5. f[i] \in ToSet(IccMarkers(data))
  BY <1>3, <1>4 DEF MarkersOf
<1> QED
  BY <1>5, IccAre

(* If their numbers are right, and could be, the profile is the one        *)
(* written.                                                                *)
LEMMA ProfileFound ==
  ASSUME NEW p, NEW data, p.profile = data, Array(data), NEW f, Array(f),
         NEW n \in Nat, n = Count(data), n < ByteRange,
         NEW M, NEW c, Has(f, M, c), M \subseteq MarkersOf(p) \cup {Exif}, NumberedRight(f)
  PROVE  FlattenSeq(Pieces(f)) = data
<1>1. PICK b \in Nat : b = ByteRange
  BY JpegAssumption DEF JpegAssumption
<1>2. PICK P : P = IccPlaces(f) /\ \A i \in P : \E k \in 1 .. n : f[i] = Icc(data, k)
  BY IccPlacesOwn
<1>3. {f[i].num : i \in P} = {Cardinality(P)} /\ {f[i].seq : i \in P} = 1 .. Cardinality(P)
  BY <1>2 DEF NumberedRight
<1>4. \A k \in 1 .. n : Icc(data, k).num = n /\ Icc(data, k).seq = k
                        /\ Icc(data, k).data = Chunk(data, k)
  <2>1. n % b = n
    BY <1>1, SmallRemainder
  <2>2. \A k \in 1 .. n : k % b = k
    <3> TAKE k \in 1 .. n
    <3>1. k \in Nat /\ k < b
      BY <1>1
    <3> QED
      BY <3>1, SmallRemainder
  <2> QED
    BY <1>1, <2>1, <2>2 DEF Icc
<1>5. PICK i \in P : f[i].num = Cardinality(P)
  BY <1>3
<1>6. Cardinality(P) = n /\ n # 0
  <2>1. PICK k \in 1 .. n : f[i] = Icc(data, k)
    BY <1>2
  <2>2. f[i].num = n
    BY <1>4, <2>1
  <2> QED
    BY <1>5, <2>1, <2>2
<1>7. PICK s : s = Pieces(f)
  OBVIOUS
<1>8. s = [k \in 1 .. n |-> f[CHOOSE j \in P : f[j].seq = k].data]
  BY <1>2, <1>6, <1>7 DEF Pieces
<1>9. ASSUME NEW k \in 1 .. n PROVE s[k] = Chunk(data, k)
  <2>1. \E j \in P : f[j].seq = k
    BY <1>3, <1>6
  <2>2. PICK j : j = CHOOSE q \in P : f[q].seq = k
    OBVIOUS
  <2>3. j \in P /\ f[j].seq = k
    BY <2>1, <2>2
  <2>4. PICK q \in 1 .. n : f[j] = Icc(data, q)
    BY <1>2, <2>3
  <2>5. q = k
    BY <1>4, <2>3, <2>4
  <2>6. s[k] = f[j].data
    BY <1>8, <2>2
  <2> QED
    BY <1>4, <2>4, <2>5, <2>6
<1>10. Len(s) = n
  <2>1. s = [k \in 1 .. n |-> s[k]]
    BY <1>8
  <2> QED
    BY <2>1, FunctionArray
<1>11. FlattenSeq(s) = data
  BY <1>6, <1>9, <1>10, ChunksJoin
<1> QED
  BY <1>7, <1>11

(* If all the markers are there, and each once, their numbers are right    *)
(* unless there are too many of them, or none.                             *)
LEMMA ProfileKnown ==
  ASSUME NEW p, NEW data, p.profile = data, Array(data), NEW f, Array(f),
         NEW n \in Nat, n = Count(data),
         NEW M, Has(f, M, n), M \subseteq MarkersOf(p) \cup {Exif}, MarkersOf(p) \subseteq M
  PROVE  NumberedRight(f) <=> n < ByteRange /\ data # <<>>
<1>1. PICK b \in Nat : b = ByteRange /\ b > 0
  BY JpegAssumption DEF JpegAssumption
<1>2. PICK P : P = IccPlaces(f) /\ \A i \in P : \E k \in 1 .. n : f[i] = Icc(data, k)
  BY IccPlacesOwn
<1>3. Cardinality(P) = n
  BY <1>2 DEF Has
<1>4. NumberedRight(f) <=> {f[i].num : i \in P} = {n} /\ {f[i].seq : i \in P} = 1 .. n
  BY <1>2, <1>3 DEF NumberedRight
<1>5. ASSUME NEW k \in 1 .. n PROVE \E i \in P : f[i] = Icc(data, k)
  <2>1. Icc(data, k) \in M /\ Icc(data, k).kind = "APP2"
    <3>1. Icc(data, k) \in ToSet(IccMarkers(data))
      BY IccAre
    <3> QED
      BY <3>1 DEF MarkersOf, Icc
  <2>2. Icc(data, k) \in ToSet(f)
    BY <2>1 DEF Has
  <2>3. PICK i \in 1 .. Len(f) : f[i] = Icc(data, k)
    BY <2>2, ThingsOf
  <2> QED
    BY <1>2, <2>1, <2>3 DEF IccPlaces
<1>6. \A k : Icc(data, k).num = n % b /\ Icc(data, k).seq = k % b
  BY <1>1 DEF Icc
<1>7. data # <<>> <=> n # 0
  BY ChunkPlaces
<1>8. CASE n = 0
  <2>1. P = {}
    BY <1>2, <1>8
  <2>2. {f[i].num : i \in P} # {n}
    BY <2>1
  <2>3. ~NumberedRight(f)
    BY <1>4, <2>2
  <2> QED
    BY <1>7, <1>8, <2>3
<1>9. CASE n # 0 /\ n < b
  <2>1. n % b = n
    BY <1>9, SmallRemainder
  <2>2. \A k \in 1 .. n : k % b = k
    <3> TAKE k \in 1 .. n
    <3>1. k \in Nat /\ k < b
      BY <1>9
    <3> QED
      BY <3>1, SmallRemainder
  <2>3. {f[i].num : i \in P} = {n}
    <3>1. \A i \in P : f[i].num = n
      BY <1>2, <1>6, <2>1
    <3>2. n \in 1 .. n
      BY <1>9
    <3>3. \E i \in P : f[i] = Icc(data, n)
      BY <1>5, <3>2
    <3> QED
      BY <3>1, <3>3
  <2>4. {f[i].seq : i \in P} = 1 .. n
    <3>1. \A i \in P : f[i].seq \in 1 .. n
      BY <1>2, <1>6, <2>2
    <3>2. \A k \in 1 .. n : \E i \in P : f[i].seq = k
      BY <1>5, <1>6, <2>2
    <3> QED
      BY <3>1, <3>2
  <2>5. NumberedRight(f)
    BY <1>4, <2>3, <2>4
  <2>6. n < ByteRange /\ data # <<>>
    BY <1>1, <1>7, <1>9
  <2> QED
    BY <2>5, <2>6
<1>10. CASE n >= b
  <2>1. n \in 1 .. n
    BY <1>1, <1>10
  <2>2. PICK i \in P : f[i] = Icc(data, n)
    BY <1>5, <2>1
  <2>3. f[i].num < n
    <3>1. n % b \in Nat /\ n % b < b
      BY <1>1, RemainderBelow
    <3> QED
      BY <1>6, <1>10, <2>2, <3>1
  <2>4. {f[j].num : j \in P} # {n}
    <3>1. f[i].num # n
      BY <2>3
    <3> QED
      BY <3>1
  <2>5. ~NumberedRight(f)
    BY <1>4, <2>4
  <2>6. ~(n < ByteRange)
    BY <1>1, <1>10
  <2> QED
    BY <2>5, <2>6
<1> QED
  BY <1>1, <1>8, <1>9, <1>10

-----------------------------------------------------------------------------
(* As long as only e has been done to the markers.                         *)
MarkersKept(f, e, p) ==
  \E M, n :
    /\ Has(f, M, n) /\ M \subseteq MarkersOf(p) \cup {Exif}
    /\ ToSet(e) \subseteq {"doubled", "moved"} => M = MarkersOf(p)
    /\ ToSet(e) \subseteq {"moved", "EXIF"} =>
         MarkersOf(p) \subseteq M /\ n = Count(p.profile)

CommentOwn(f, e, p, c) ==
  /\ c \notin {NULL, Unassigned} => c = p.comment
  /\ c = Unassigned <=> Saved(f) = {}
  /\ CommentMarker(p) # <<>> /\ ToSet(e) \subseteq {"doubled", "moved"} => c = p.comment

ProfileOwn(e, p, r) ==
  /\ Count(p.profile) < ByteRange /\ r.found => r.data = p.profile
  /\ ToSet(e) \subseteq {"moved", "EXIF"} =>
       r.found = (Count(p.profile) < ByteRange /\ p.profile # <<>>)

LEMMA CommentReadOwn ==
  ASSUME NEW p, Array(p.profile), p.comment # Unassigned, NEW f, NEW e, MarkersKept(f, e, p)
  PROVE  CommentOwn(f, e, p, CommentRead(f))
<1>1. PICK M, n : /\ Has(f, M, n) /\ M \subseteq MarkersOf(p) \cup {Exif}
                  /\ ToSet(e) \subseteq {"doubled", "moved"} => M = MarkersOf(p)
  BY DEF MarkersKept
<1>2. PICK c : c = CommentRead(f)
  OBVIOUS
<1>3. /\ c = Unassigned <=> Saved(f) = {}
      /\ c \notin {NULL, Unassigned} => c = p.comment
      /\ CommentMarker(p) # <<>> /\ M = MarkersOf(p) => c = p.comment
  BY <1>1, <1>2, CommentFound
<1> QED
  BY <1>1, <1>2, <1>3 DEF CommentOwn

LEMMA ProfileReadOwn ==
  ASSUME NEW p, Array(p.profile), NEW f, NEW e, MarkersKept(f, e, p)
  PROVE  ProfileOwn(e, p, read_icc_profile(f))
<1>1. PICK M, c : /\ Has(f, M, c) /\ M \subseteq MarkersOf(p) \cup {Exif}
                  /\ ToSet(e) \subseteq {"moved", "EXIF"} =>
                       MarkersOf(p) \subseteq M /\ c = Count(p.profile)
  BY DEF MarkersKept
<1>2. PICK data : data = p.profile /\ Array(data) /\ Array(f)
  BY <1>1 DEF Has
<1>3. PICK n \in Nat : n = Count(data)
  BY <1>2, CountIsNat
<1>4. PICK r : r = read_icc_profile(f)
  OBVIOUS
<1>5. CASE NumberedRight(f)
  <2>1. r.found = TRUE /\ r.data = FlattenSeq(Pieces(f))
    BY <1>4, <1>5 DEF read_icc_profile
  <2>2. n < ByteRange => r.data = data
    BY <1>1, <1>2, <1>3, <1>5, <2>1, ProfileFound
  <2>3. ToSet(e) \subseteq {"moved", "EXIF"} => n < ByteRange /\ data # <<>>
    BY <1>1, <1>2, <1>3, <1>5, ProfileKnown
  <2> QED
    BY <1>2, <1>3, <1>4, <2>1, <2>2, <2>3 DEF ProfileOwn
<1>6. CASE ~NumberedRight(f)
  <2>1. r.found = FALSE
    BY <1>4, <1>6 DEF read_icc_profile, NoProfile
  <2>2. ToSet(e) \subseteq {"moved", "EXIF"} => ~(n < ByteRange /\ data # <<>>)
    BY <1>1, <1>2, <1>3, <1>6, ProfileKnown
  <2> QED
    BY <1>2, <1>3, <1>4, <2>1, <2>2 DEF ProfileOwn
<1> QED
  BY <1>5, <1>6

LEMMA MarkersFirst ==
  ASSUME NEW p, Array(p.rows), Array(p.profile), NEW f, Damaged(f, JpegItems(p)), NEW e,
         \E i \in 1 .. Len(f) : f[i].kind = "SOS"
  PROVE  MarkersKept(f, e, p)
<1>1. Has(f, MarkersOf(p), Count(p.profile))
  BY HasDamaged
<1> QED
  BY <1>1 DEF MarkersKept

LEMMA MarkersStay ==
  ASSUME NEW p, Array(disk), HasScan(disk), Array(edited), MarkersKept(disk, edited, p),
         EditMarkers
  PROVE  MarkersKept(disk', edited', p) /\ Array(edited')
<1>1. PICK M, n : /\ Has(disk, M, n) /\ M \subseteq MarkersOf(p) \cup {Exif}
                  /\ ToSet(edited) \subseteq {"doubled", "moved"} => M = MarkersOf(p)
                  /\ ToSet(edited) \subseteq {"moved", "EXIF"} =>
                       MarkersOf(p) \subseteq M /\ n = Count(p.profile)
  BY DEF MarkersKept
<1>2. PICK what, L, k : /\ edited' = Append(edited, what)
                        /\ Has(disk', L, k) /\ Changed(what, M, n, L, k)
  BY <1>1, FileChanged
<1>3. Array(edited') /\ ToSet(edited') = ToSet(edited) \cup {what}
  <2>1. PICK e, l : e = edited' /\ l = Len(edited) /\ l \in Nat
    BY ArrayFacts
  <2>2. /\ Array(e) /\ Len(e) = l + 1 /\ \A i \in 1 .. l : e[i] = edited[i]
        /\ e[l + 1] = what
    BY <1>2, <2>1, AppendArray
  <2>3. ToSet(e) = {e[i] : i \in 1 .. l + 1} /\ ToSet(edited) = {edited[i] : i \in 1 .. l}
    BY <2>1, <2>2, ThingsOf
  <2>4. /\ \A i \in 1 .. l + 1 : i \in 1 .. l \/ i = l + 1
        /\ \A i \in 1 .. l : i \in 1 .. l + 1
        /\ l + 1 \in 1 .. l + 1
    BY <2>1
  <2>5. {e[i] : i \in 1 .. l + 1} = {edited[i] : i \in 1 .. l} \cup {what}
    BY <2>2, <2>4
  <2> QED
    BY <2>1, <2>2, <2>3, <2>5
<1>4. L \subseteq MarkersOf(p) \cup {Exif}
  BY <1>1, <1>2 DEF Changed
<1>5. ASSUME ToSet(edited') \subseteq {"doubled", "moved"} PROVE L = MarkersOf(p)
  <2>1. what \in {"doubled", "moved"} /\ ToSet(edited) \subseteq {"doubled", "moved"}
    BY <1>3, <1>5
  <2> QED
    BY <1>1, <1>2, <2>1 DEF Changed
<1>6. ASSUME ToSet(edited') \subseteq {"moved", "EXIF"}
      PROVE  MarkersOf(p) \subseteq L /\ k = Count(p.profile)
  <2>1. what \in {"moved", "EXIF"} /\ ToSet(edited) \subseteq {"moved", "EXIF"}
    BY <1>3, <1>6
  <2> QED
    BY <1>1, <1>2, <2>1 DEF Changed
<1>7. MarkersKept(disk', edited', p)
  BY <1>2, <1>4, <1>5, <1>6 DEF MarkersKept
<1> QED
  BY <1>3, <1>7

(* The markers of a file are those written, as far as other programs have  *)
(* left them; what has been read of them stands, as no program changes a   *)
(* file that has been read.                                                *)
MarkerInv ==
  /\ suffix # ".jpg" => profile = Nothing
  /\ suffix = ".jpg" =>
       /\ picture.comment # Unassigned /\ Array(edited)
       /\ status \notin {"success", "killed"} => got = Nothing /\ profile = Nothing
       /\ status \in {"success", "killed"} /\ (\E i \in 1 .. Len(disk) : disk[i].kind = "SOS") =>
            MarkersKept(disk, edited, picture)
       /\ got \notin {Nothing, Refused} => CommentOwn(disk, edited, picture, got.comment)
       /\ profile # Nothing => ProfileOwn(edited, picture, profile)

LEMMA MarkerInit == Init => MarkerInv
<1> SUFFICES ASSUME Init PROVE MarkerInv
  OBVIOUS
<1>1. profile = Nothing /\ edited = <<>>
  BY DEF Init
<1>2. CASE suffix # ".jpg"
  BY <1>1, <1>2 DEF MarkerInv
<1>3. CASE suffix = ".jpg"
  <2>1. PICK p \in JpegPicture \cup FragileJpeg : Given(p, JpegItems(p))
    BY <1>3 DEF Init
  <2>2. picture = p /\ status = "writing" /\ got = Nothing
    BY <2>1 DEF Given
  <2>3. p.comment # Unassigned
    BY PictureAssumption DEF PictureAssumption
  <2>4. Array(edited)
    BY <1>1, SingleArray
  <2> QED
    BY <1>1, <1>3, <2>2, <2>3, <2>4 DEF MarkerInv
<1> QED
  BY <1>2, <1>3

(* A step that leaves the file and the picture alone, and what was read.   *)
LEMMA MarkerKept ==
  ASSUME MarkerInv, UNCHANGED <<suffix, picture, edited, profile, got, status, disk>>
  PROVE  MarkerInv'
BY DEF MarkerInv

LEMMA MarkerStep ==
  ASSUME PictureInv, PictureInv', MarkerInv, [Next]_vars
  PROVE  MarkerInv'
<1>1. CASE UNCHANGED vars
  <2>1. UNCHANGED <<suffix, picture, edited, profile, got, status, disk>>
    BY <1>1 DEF vars, streamvars, stream, jpegvars
  <2> QED
    BY <2>1, MarkerKept
<1>2. CASE suffix # ".jpg" /\ ~UNCHANGED vars
  <2>1. suffix' = suffix /\ profile' = profile
    BY <1>2 DEF Next, RadianceNext, WriteHeaderLine, WriteRow, CloseRadiance, ReadRadiance,
                Rewrite, PngNext, WritePng, ClosePng, ReadPng, Killed, Finished, vars, jpegvars
  <2> QED
    BY <1>2, <2>1 DEF MarkerInv
<1>3. CASE suffix = ".jpg" /\ ~UNCHANGED vars
  <2>1. JpegNext \/ (Killed /\ UNCHANGED jpegvars)
    BY <1>3 DEF Next, Finished
  <2>2. /\ picture.comment # Unassigned /\ Array(edited)
        /\ status \notin {"success", "killed"} => got = Nothing /\ profile = Nothing
        /\ status \in {"success", "killed"} /\ (\E i \in 1 .. Len(disk) : disk[i].kind = "SOS") =>
             MarkersKept(disk, edited, picture)
        /\ got \notin {Nothing, Refused} => CommentOwn(disk, edited, picture, got.comment)
        /\ profile # Nothing => ProfileOwn(edited, picture, profile)
    BY <1>3 DEF MarkerInv
  <2>3. /\ Array(picture.rows) /\ Array(picture.profile) /\ Streams
        /\ status = "writing" => InOrder /\ edited = <<>>
        /\ status = "success" => HasScan(disk)
    BY <1>3 DEF PictureInv, JpegInv
  <2>4. CASE WriteJpeg
    <3>1. /\ UNCHANGED <<suffix, picture, got, edited, profile>>
          /\ status = "writing" /\ status' \in {"writing", "failure"}
      BY <2>4 DEF WriteJpeg, Writing, jpegvars
    <3>2. got = Nothing /\ profile = Nothing
      BY <2>2, <3>1
    <3> QED
      BY <1>3, <2>2, <3>1, <3>2 DEF MarkerInv
  <2>5. CASE FinishJpeg
    <3>1. /\ UNCHANGED <<suffix, picture, got, edited, profile>>
          /\ status = "writing" /\ status' \in {"success", "failure"}
      BY <2>5 DEF FinishJpeg, Written, jpegvars, FinishStatus
    <3>2. got = Nothing /\ profile = Nothing /\ edited = <<>>
      BY <2>2, <2>3, <3>1
    <3>3. CASE status' = "failure"
      BY <1>3, <2>2, <3>1, <3>2, <3>3 DEF MarkerInv
    <3>4. CASE status' = "success"
      <4>1. disk' = Items'
        BY <1>3, <3>1, <3>2, <3>4 DEF PictureInv, JpegInv
      <4>2. PICK f : f = disk' /\ f = JpegItems(picture)
        BY <1>3, <3>1, <4>1 DEF Items
      <4>3. Damaged(f, JpegItems(picture)) /\ Array(f)
        <5>1. PICK s : IsJpeg(f, picture, s)
          BY <2>3, <4>2, JpegItemsAre
        <5> QED
          BY <2>3, <4>2, <5>1, JpegHasScan DEF IsJpeg
      <4>4. (\E i \in 1 .. Len(f) : f[i].kind = "SOS") => MarkersKept(f, edited, picture)
        BY <2>3, <4>3, MarkersFirst
      <4> QED
        BY <1>3, <2>2, <3>1, <3>2, <3>4, <4>2, <4>4 DEF MarkerInv
    <3> QED
      BY <3>1, <3>3, <3>4
  <2>6. CASE Killed /\ UNCHANGED jpegvars
    <3>1. /\ UNCHANGED <<suffix, picture, got, edited, profile>>
          /\ status = "writing" /\ status' = "killed"
      BY <2>6 DEF Killed, jpegvars
    <3>2. got = Nothing /\ profile = Nothing
      BY <2>2, <3>1
    <3>3. Damaged(disk', Items)
      BY <2>3, <2>6, <3>1, KilledStep, InOrderDamaged
    <3>4. PICK f : f = disk' /\ Damaged(f, JpegItems(picture))
      BY <1>3, <3>3 DEF Items
    <3>5. (\E i \in 1 .. Len(f) : f[i].kind = "SOS") => MarkersKept(f, edited, picture)
      BY <2>3, <3>4, MarkersFirst
    <3> QED
      BY <1>3, <2>2, <3>1, <3>2, <3>4, <3>5 DEF MarkerInv
  <2>7. CASE EditMarkers
    <3>1. /\ status = "success" /\ got = Nothing /\ profile = Nothing
          /\ UNCHANGED <<suffix, picture, got, status, profile>>
      BY <2>7 DEF EditMarkers, Edit
    <3>2. HasScan(disk) /\ Array(disk) /\ MarkersKept(disk, edited, picture)
      BY <2>2, <2>3, <3>1 DEF HasScan, Streams
    <3>3. PICK p : p = picture /\ p = picture'
      BY <3>1
    <3>4. MarkersKept(disk', edited', p) /\ Array(edited')
      BY <2>2, <2>7, <3>2, <3>3, MarkersStay
    <3> QED
      BY <1>3, <2>2, <3>1, <3>3, <3>4 DEF MarkerInv
  <2>8. CASE ReadJpeg
    <3>1. /\ status \in {"success", "killed"}
          /\ UNCHANGED <<suffix, picture, status, disk, edited, profile>>
      BY <2>8 DEF ReadJpeg, Closed, stream, jpegvars
    <3>2. CASE ~(HeaderRead(disk) /\ NoWarnings(disk))
      <4>1. got' = Refused
        BY <2>8, <3>2 DEF ReadJpeg
      <4> QED
        BY <1>3, <2>2, <3>1, <4>1 DEF MarkerInv
    <3>3. CASE HeaderRead(disk) /\ NoWarnings(disk)
      <4>1. got'.comment = CommentRead(disk)
        BY <2>8, <3>3 DEF ReadJpeg
      <4>2. MarkersKept(disk, edited, picture)
        BY <2>2, <3>1, <3>3 DEF HeaderRead
      <4>3. CommentOwn(disk, edited, picture, CommentRead(disk))
        BY <2>2, <2>3, <4>2, CommentReadOwn
      <4>4. CommentOwn(disk, edited, picture, got'.comment)
        BY <4>1, <4>3
      <4>5. CommentOwn(disk, edited, picture, got.comment)'
        BY <3>1, <4>4 DEF CommentOwn
      <4> QED
        BY <1>3, <2>2, <3>1, <4>5 DEF MarkerInv
    <3> QED
      BY <3>2, <3>3
  <2>9. CASE ReadProfile
    <3>1. /\ status \in {"success", "killed"} /\ HeaderRead(disk)
          /\ profile' = read_icc_profile(disk)
          /\ UNCHANGED <<suffix, picture, status, disk, edited, got>>
      BY <2>9 DEF ReadProfile, streamvars, stream
    <3>2. MarkersKept(disk, edited, picture)
      BY <2>2, <3>1 DEF HeaderRead
    <3>3. ProfileOwn(edited, picture, read_icc_profile(disk))
      BY <2>3, <3>2, ProfileReadOwn
    <3>4. ProfileOwn(edited, picture, profile')
      BY <3>1, <3>3
    <3> QED
      BY <1>3, <2>2, <3>1, <3>4 DEF MarkerInv
  <2> QED
    BY <2>1, <2>4, <2>5, <2>6, <2>7, <2>8, <2>9 DEF JpegNext
<1> QED
  BY <1>1, <1>2, <1>3

LEMMA MarkerInvInvariant == Spec => []MarkerInv
<1>1. Init => MarkerInv
  BY MarkerInit
<1>2. PictureInv /\ PictureInv' /\ MarkerInv /\ [Next]_vars => MarkerInv'
  BY MarkerStep
<1> QED
  BY <1>1, <1>2, PictureInvInvariant, PTL DEF Spec

(* A profile is returned as it was written or not at all, whatever other   *)
(* programs have done to its markers, if its markers can be numbered; and  *)
(* it is returned if they have only been moved.                            *)
THEOREM ProfileReadAsWritten == Spec => []OwnProfile
<1>1. MarkerInv => OwnProfile
  BY DEF MarkerInv, ProfileOwn, OwnProfile, Fits, Count
<1> QED
  BY <1>1, MarkerInvInvariant, PTL

(* The comment read is the one written, or none; it is the one written if  *)
(* no other program has removed it or put an EXIF record in; and *comment  *)
(* is left alone only if there is no marker that could set it.             *)
THEOREM CommentReadAsWritten == Spec => []OwnComment
<1>1. MarkerInv => OwnComment
  BY DEF MarkerInv, CommentOwn, OwnComment
<1> QED
  BY <1>1, MarkerInvInvariant, PTL
=============================================================================
