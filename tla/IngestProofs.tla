---------------------------- MODULE IngestProofs ----------------------------
(***************************************************************************)
(* Theorems about the agent's double buffer, for every size and every set  *)
(* of record lengths, and about the agent and the communicator together,   *)
(* for every configuration of endpoints, threads and tables.               *)
(***************************************************************************)
EXTENDS Ingest, SequenceTheorems, FiniteSetTheorems, TLAPS

(* While a Write is past its test the record fits behind the offset it has  *)
(* loaded, and what is on the face can only have become less since.         *)
RoomKept ==
    /\ \A f \in Faces : off[f] <= Size
    /\ writer \in {"copying", "advancing"} => base + len <= Size /\ off[idx] <= base
    /\ writer = "advancing" => from <= base
    /\ n <= Size

LEMMA InitRoom == PingInit => PingTypeOK /\ RoomKept
  BY PingPongAssumption DEF PingInit, PingTypeOK, RoomKept, Faces

LEMMA StepRoom == PingTypeOK /\ RoomKept /\ [PingNext]_pingVars => PingTypeOK' /\ RoomKept'
  <1> SUFFICES ASSUME PingTypeOK, RoomKept, [PingNext]_pingVars
               PROVE  PingTypeOK' /\ RoomKept'
    OBVIOUS
  <1> USE PingPongAssumption DEF PingTypeOK, RoomKept, Faces
  <1>1. ASSUME NEW l \in Records, WriteLoad(l) PROVE PingTypeOK' /\ RoomKept'
    BY <1>1 DEF WriteLoad, readerVars
  <1>2. CASE WriteDrop
    BY <1>2 DEF WriteDrop, readerVars
  <1>3. CASE WriteFits
    BY <1>3 DEF WriteFits, readerVars
  <1>4. CASE WriteCopy
    BY <1>4 DEF WriteCopy, readerVars
  <1>5. CASE WriteAdvance
    BY <1>5 DEF WriteAdvance, readerVars
  <1>6. CASE LoopTest
    BY <1>6 DEF LoopTest, writerVars
  <1>7. CASE Flip
    BY <1>7 DEF Flip, writerVars
  <1>8. CASE ReadLength
    BY <1>8 DEF ReadLength, writerVars
  <1>9. CASE ReadCopy
    BY <1>9 DEF ReadCopy, writerVars
  <1>10. CASE Release
    BY <1>10 DEF Release, writerVars
  <1>11. CASE Publish
    BY <1>11 DEF Publish, writerVars
  <1>12. CASE Destroy
    BY <1>12 DEF Destroy, writerVars, readerVars
  <1>13. CASE UNCHANGED pingVars
    BY <1>13 DEF pingVars, writerVars, readerVars
  <1> QED
    BY <1>1, <1>2, <1>3, <1>4, <1>5, <1>6, <1>7, <1>8, <1>9, <1>10, <1>11, <1>12, <1>13
       DEF PingNext, WriterStep, ReaderStep

(* Write's memcpy and ReadAndFlip's stay inside the buffer, although        *)
(* neither the offset nor the choice of the face is protected.              *)
THEOREM StaysWithinBuffer == PingSpec => []WithinBuffer
  <1>1. PingTypeOK /\ RoomKept => WithinBuffer
    BY PingPongAssumption DEF PingTypeOK, RoomKept, WithinBuffer, Faces
  <1> QED
    BY <1>1, InitRoom, StepRoom, PTL DEF PingSpec

-----------------------------------------------------------------------------
(* The contents of the faces.                                               *)
Units == Nat \X Nat

UnitsTypeOK ==
    /\ bufs \in [Faces -> [1..Size -> Units]] /\ writes \in Nat
    /\ out \in Seq(Units) /\ accepted \in Seq(Units) /\ published \in Seq(Units)

LEMMA InitUnits == PingInit => UnitsTypeOK
  BY DEF PingInit, UnitsTypeOK, Units, Blank

LEMMA PlaceInRecord ==
  ASSUME NEW a \in Nat, NEW l \in Nat, NEW p \in a + 1 .. a + l
  PROVE  p - a \in Nat
  OBVIOUS

LEMMA StepUnits ==
  PingTypeOK /\ RoomKept /\ UnitsTypeOK /\ [PingNext]_pingVars => UnitsTypeOK'
  <1> SUFFICES ASSUME PingTypeOK, RoomKept, UnitsTypeOK, [PingNext]_pingVars
               PROVE  UnitsTypeOK'
    OBVIOUS
  <1> USE PingPongAssumption DEF PingTypeOK, UnitsTypeOK
  <1>1. ASSUME NEW l \in Records, WriteLoad(l) PROVE UnitsTypeOK'
    BY <1>1 DEF WriteLoad, readerVars
  <1>2. CASE WriteDrop \/ WriteFits
    BY <1>2 DEF WriteDrop, WriteFits, readerVars
  <1>3. CASE WriteCopy
    <2>0. from' \in Nat
      BY <1>3 DEF WriteCopy, Faces
    <2>1. \A p \in from' + 1 .. from' + len : p - from' \in Nat
      BY <2>0, PlaceInRecord
    <2>2. \A p \in from' + 1 .. from' + len : <<writes, p - from'>> \in Units
      BY <2>1 DEF Units
    <2> QED
      BY <1>3, <2>2 DEF WriteCopy, Faces, readerVars
  <1>4. CASE WriteAdvance
    <2> DEFINE r == [i \in 1..len |-> <<writes, i>>]
    <2>1. r \in Seq(Units)
      <3>1. \A i \in 1..len : <<writes, i>> \in Units
        BY DEF Units
      <3> QED
        BY <3>1
    <2>2. accepted \o r \in Seq(Units)
      BY <2>1, ConcatProperties
    <2> QED
      BY <1>4, <2>2 DEF WriteAdvance, readerVars
  <1>5. CASE LoopTest \/ Flip \/ ReadLength \/ Release
    BY <1>5 DEF LoopTest, Flip, ReadLength, Release, writerVars
  <1>6. CASE ReadCopy
    <2>1. [p \in 1..n |-> bufs[old][p]] \in Seq(Units)
      <3>1. \A p \in 1..n : bufs[old][p] \in Units
        BY DEF RoomKept
      <3> QED
        BY <3>1
    <2> QED
      BY <1>6, <2>1 DEF ReadCopy, writerVars
  <1>7. CASE Publish
    <2>1. published \o out \in Seq(Units) /\ <<>> \in Seq(Units)
      BY ConcatProperties
    <2> QED
      BY <1>7, <2>1 DEF Publish, writerVars
  <1>8. CASE Destroy
    BY <1>8 DEF Destroy, writerVars, readerVars
  <1>9. CASE UNCHANGED pingVars
    BY <1>9 DEF pingVars, writerVars, readerVars
  <1> QED
    BY <1>1, <1>2, <1>3, <1>4, <1>5, <1>6, <1>7, <1>8, <1>9
       DEF PingNext, WriterStep, ReaderStep

LEMMA ContentType ==
  ASSUME PingTypeOK, RoomKept, UnitsTypeOK, NEW f \in Faces
  PROVE  Content(f) \in Seq(Units) /\ Len(Content(f)) = off[f]
  <1> DEFINE c == [p \in 1..off[f] |-> bufs[f][p]]
  <1>1. off[f] \in Nat /\ \A p \in 1..off[f] : bufs[f][p] \in Units
    BY PingPongAssumption DEF PingTypeOK, RoomKept, UnitsTypeOK
  <1>2. c \in Seq(Units)
    BY <1>1
  <1>3. Len(c) = off[f]
    BY <1>1, <1>2
  <1> QED
    BY <1>2, <1>3 DEF Content

-----------------------------------------------------------------------------
(* As long as no flip has hit a running Write, the writer has the face that *)
(* cur_ names to itself, the reader has the other one, and between them     *)
(* nothing is lost, doubled or out of order.                                *)
Separate ==
    /\ writer # "idle" => idx = cur
    /\ writer \in {"copying", "advancing"} => base = off[idx]
    /\ writer = "advancing" =>
           from = base /\ \A i \in 1..len : bufs[idx][base + i] = <<writes, i>>
    /\ reader \in {"load", "copy", "release", "publish"} => old = 1 - cur
    /\ reader \notin {"load", "copy", "release"} => off[1 - cur] = 0
    /\ reader \in {"copy", "release"} => n = off[old]
    /\ reader = "release" => out = Content(old)
    /\ published \o Pending = accepted

Types == PingTypeOK /\ RoomKept /\ UnitsTypeOK

Front == IF reader = "publish" THEN out ELSE Content(1 - cur)

LEMMA Associates ==
  ASSUME NEW s \in Seq(Units), NEW t \in Seq(Units), NEW u \in Seq(Units)
  PROVE  (s \o t) \o u = s \o (t \o u)
  BY ConcatAssociative

LEMMA Joined ==
  ASSUME NEW s \in Seq(Units), NEW t \in Seq(Units)
  PROVE  /\ s \o t \in Seq(Units) /\ Len(s \o t) = Len(s) + Len(t)
         /\ \A i \in 1..Len(s) + Len(t) :
               (s \o t)[i] = IF i <= Len(s) THEN s[i] ELSE t[i - Len(s)]
  BY ConcatProperties

LEMMA PendingForm ==
  ASSUME reader \in {"load", "copy", "release"} => old = 1 - cur, cur \in Faces
  PROVE  Pending = Front \o Content(cur)
  BY DEF Pending, Front, Faces

LEMMA InitSeparate == PingInit => Separate
  <1> SUFFICES ASSUME PingInit PROVE Separate
    OBVIOUS
  <1>1. \A f \in Faces : Content(f) = <<>>
    BY DEF PingInit, Content
  <1>2. Pending = <<>> /\ published = <<>> /\ accepted = <<>>
    BY <1>1 DEF PingInit, Pending, Faces
  <1>3. published \o Pending = accepted
    BY <1>2
  <1> QED
    BY <1>3 DEF PingInit, Separate, Faces

(* A step that leaves the faces and what the reader holds as they are keeps *)
(* what is pending.                                                         *)
LEMMA SamePending ==
  ASSUME Types, \A f \in Faces : Content(f)' = Content(f),
         cur' = cur, old' = old, reader' = reader, out' = out
  PROVE  Pending' = Pending
  <1>1. cur \in Faces /\ old \in Faces /\ 1 - cur \in Faces /\ 1 - old \in Faces
    BY DEF Types, PingTypeOK, Faces
  <1>2. /\ Content(cur)' = Content(cur) /\ Content(1 - cur)' = Content(1 - cur)
        /\ Content(old)' = Content(old) /\ Content(1 - old)' = Content(1 - old)
    BY <1>1 DEF Content
  <1> QED
    BY <1>2 DEF Pending

LEMMA StepSeparate ==
  Types /\ Types' /\ (~spanned => Separate) /\ [PingNext]_pingVars => (~spanned' => Separate')
  <1> SUFFICES ASSUME Types, Types', ~spanned => Separate, [PingNext]_pingVars, ~spanned'
               PROVE  Separate'
    OBVIOUS
  <1>0. ~spanned
    BY DEF PingNext, WriterStep, ReaderStep, WriteLoad, WriteDrop, WriteFits, WriteCopy,
           WriteAdvance, LoopTest, Flip, ReadLength, ReadCopy, Release, Publish, Destroy,
           pingVars
  <1>s. Separate
    BY <1>0
  <1>c. /\ cur \in Faces /\ 1 - cur \in Faces /\ cur # 1 - cur /\ 1 - (1 - cur) = cur
        /\ off[cur] \in Nat /\ off[1 - cur] \in Nat
    BY DEF Types, PingTypeOK, Faces
  <1>u. /\ Content(cur) \in Seq(Units) /\ Content(1 - cur) \in Seq(Units)
        /\ Front \in Seq(Units) /\ published \in Seq(Units)
    BY <1>c, ContentType DEF Types, UnitsTypeOK, Front
  <1>t. writes \in Nat /\ len \in Nat
    BY DEF Types, PingTypeOK, UnitsTypeOK
  <1>p. Pending = Front \o Content(cur)
    BY <1>s, <1>c, PendingForm DEF Separate
  <1>d. old \in Faces
    BY DEF Types, PingTypeOK
  <1>1. ASSUME NEW l \in Records, WriteLoad(l) PROVE Separate'
    <2>1. \A f \in Faces : Content(f)' = Content(f)
      BY <1>1 DEF WriteLoad, Content
    <2>2. Pending' = Pending
      BY <1>1, <2>1, SamePending DEF WriteLoad, readerVars
    <2> QED
      BY <1>s, <1>1, <2>2 DEF Separate, WriteLoad, readerVars, Content
  <1>2. CASE WriteDrop \/ WriteFits
    <2>1. \A f \in Faces : Content(f)' = Content(f)
      BY <1>2 DEF WriteDrop, WriteFits, Content
    <2>2. Pending' = Pending
      BY <1>2, <2>1, SamePending DEF WriteDrop, WriteFits, readerVars
    <2> QED
      BY <1>s, <1>2, <2>2 DEF Separate, WriteDrop, WriteFits, readerVars, Content
  <1>3. CASE WriteCopy
    <2>1. idx = cur /\ from' = off[cur] /\ base = off[cur] /\ base + len <= Size
      BY <1>s, <1>3 DEF Separate, WriteCopy, Types, RoomKept
    <2>6. \A p \in 1..Size : bufs'[cur][p] = IF p \in off[cur] + 1 .. off[cur] + len
                                            THEN <<writes, p - off[cur]>> ELSE bufs[cur][p]
      BY <1>3, <1>c, <2>1 DEF WriteCopy, Types, UnitsTypeOK
    <2>7. \A f \in Faces : f # cur => bufs'[f] = bufs[f]
      BY <1>3, <1>c, <2>1 DEF WriteCopy, Types, UnitsTypeOK
    <2>2. ASSUME NEW f \in Faces PROVE Content(f)' = Content(f)
      <3>1. off[f] \in Nat /\ off[f] <= Size /\ (f = cur => off[f] = off[cur])
        BY DEF Types, RoomKept, PingTypeOK
      <3>2. ASSUME NEW p \in 1..off[f], f = cur PROVE bufs'[f][p] = bufs[f][p]
        <4>1. p \in 1..Size /\ p \notin off[cur] + 1 .. off[cur] + len
          <5>1. Size \in Nat /\ off[cur] \in Nat /\ len \in Nat
            BY <1>c, <1>t, PingPongAssumption
          <5> QED
            BY <3>1, <3>2, <5>1
        <4> QED
          BY <4>1, <2>6, <3>2
      <3>3. \A p \in 1..off[f] : bufs'[f][p] = bufs[f][p]
        BY <3>2, <2>7
      <3> QED
        BY <1>3, <3>3 DEF WriteCopy, Content
    <2>3. Pending' = Pending
      BY <1>3, <2>2, SamePending DEF WriteCopy, readerVars
    <2>4. reader = "release" => Content(old)' = Content(old)
      <3>1. \A f \in Faces : Content(f)' = [p \in 1..off'[f] |-> bufs'[f][p]]
        BY DEF Content
      <3>2. old' = old /\ Content(old)' = [p \in 1..off'[old'] |-> bufs'[old'][p]]
        BY <1>3 DEF WriteCopy, readerVars, Content
      <3> QED
        BY <1>d, <2>2, <3>1, <3>2
    <2>5. \A i \in 1..len : bufs'[idx][base + i] = <<writes, i>>
      <3>1. ASSUME NEW i \in 1..len PROVE bufs'[cur][off[cur] + i] = <<writes, i>>
        <4>1. /\ off[cur] + i \in 1..Size /\ (off[cur] + i) - off[cur] = i
              /\ off[cur] + i \in off[cur] + 1 .. off[cur] + len
          BY <1>c, <2>1, PingPongAssumption DEF Types, PingTypeOK
        <4> QED
          BY <4>1, <2>6
      <3> QED
        BY <2>1, <3>1
    <2> QED
      BY <1>s, <1>3, <2>1, <2>3, <2>4, <2>5 DEF Separate, WriteCopy, readerVars
  <1>4. CASE WriteAdvance
    <2> DEFINE r == [i \in 1..len |-> <<writes, i>>]
    <2>4. r \in Seq(Units) /\ Len(r) = len /\ accepted' = accepted \o r
      <3>1. \A i \in 1..len : <<writes, i>> \in Units
        BY <1>t DEF Units
      <3>2. r \in Seq(Units) /\ Len(r) = len
        BY <1>t, <3>1
      <3> QED
        BY <1>4, <3>2 DEF WriteAdvance
    <2>0. \A i \in 1..len : r[i] = <<writes, i>>
      OBVIOUS
    <2> HIDE DEF r
    <2>1. /\ idx = cur /\ base = off[cur] /\ off' = [off EXCEPT ![cur] = off[cur] + len]
          /\ \A i \in 1..len : bufs[cur][off[cur] + i] = <<writes, i>>
      BY <1>s, <1>4 DEF Separate, WriteAdvance
    <2>2. Content(cur)' = Content(cur) \o r
      <3>1. \A p \in 1..off[cur] + len :
               bufs[cur][p] = IF p <= off[cur] THEN bufs[cur][p] ELSE <<writes, p - off[cur]>>
        <4>1. ASSUME NEW p \in 1..off[cur] + len, ~(p <= off[cur])
              PROVE  bufs[cur][p] = <<writes, p - off[cur]>>
          <5>1. p - off[cur] \in 1..len /\ off[cur] + (p - off[cur]) = p
            BY <1>c, <4>1 DEF Types, PingTypeOK
          <5> QED
            BY <2>1, <5>1
        <4> QED
          BY <4>1
      <3>2. Content(cur)' = [p \in 1..off[cur] + len |-> bufs[cur][p]]
        BY <1>4, <1>c, <2>1 DEF Content, WriteAdvance, Types, PingTypeOK
      <3>3. Content(cur) = [p \in 1..off[cur] |-> bufs[cur][p]] /\ Len(Content(cur)) = off[cur]
        BY <1>c, ContentType DEF Types, PingTypeOK, Content
      <3>6. ASSUME NEW p \in 1..off[cur] + len
            PROVE  (Content(cur) \o r)[p] = bufs[cur][p]
        <4>1. CASE p <= off[cur]
          <5>1. p \in 1..Len(Content(cur)) + Len(r) /\ p <= Len(Content(cur))
            BY <1>c, <1>t, <2>4, <3>3, <4>1
          <5>2. (Content(cur) \o r)[p] = Content(cur)[p]
            BY <1>u, <2>4, <5>1, Joined
          <5>3. p \in 1..off[cur]
            BY <1>c, <1>t, <4>1
          <5> QED
            BY <3>3, <5>2, <5>3
        <4>2. CASE ~(p <= off[cur])
          <5>1. p \in 1..Len(Content(cur)) + Len(r) /\ ~(p <= Len(Content(cur)))
            BY <1>c, <1>t, <2>4, <3>3, <4>2
          <5>2. (Content(cur) \o r)[p] = r[p - Len(Content(cur))]
            BY <1>u, <2>4, <5>1, Joined
          <5>3. p - off[cur] \in 1..len
            BY <1>c, <1>t, <4>2
          <5> QED
            BY <2>0, <3>1, <3>3, <4>2, <5>2, <5>3
        <4> QED
          BY <4>1, <4>2
      <3>7. Content(cur) \o r \in Seq(Units) /\ Len(Content(cur) \o r) = off[cur] + len
        <4>1. Len(Content(cur)) = off[cur]
          BY <3>3
        <4> QED
          <5>1. Content(cur) \in Seq(Units) /\ r \in Seq(Units)
            BY <1>u, <2>4
          <5>2. /\ Content(cur) \o r \in Seq(Units)
                /\ Len(Content(cur) \o r) = Len(Content(cur)) + Len(r)
            BY <5>1, Joined, Zenon
          <5> QED
            BY <2>4, <4>1, <5>2
      <3>8. Content(cur) \o r = [p \in 1..off[cur] + len |-> (Content(cur) \o r)[p]]
        <4> DEFINE q == Content(cur) \o r
        <4> HIDE DEF q
        <4>1. q \in Seq(Units) /\ Len(q) = off[cur] + len
          BY <3>7 DEF q
        <4>2. q = [p \in 1..off[cur] + len |-> q[p]]
          BY <4>1
        <4> QED
          BY <4>2 DEF q
      <3> QED
        BY <3>2, <3>6, <3>8
    <2>3. Front' = Front
      <3>1. Content(1 - cur)' = Content(1 - cur)
        BY <1>4, <1>c, <2>1 DEF WriteAdvance, Content, Types, PingTypeOK
      <3> QED
        BY <1>4, <3>1 DEF Front, WriteAdvance, readerVars
    <2>5. Pending' = Front' \o Content(cur)'
      <3>1. reader = "publish" => Pending' = out' \o Content(cur)'
        BY <1>4 DEF Pending, WriteAdvance, readerVars
      <3>2. reader # "publish" => Pending' = Content(1 - cur)' \o Content(cur)'
        BY <1>s, <1>4, <1>c DEF Separate, WriteAdvance, readerVars, Pending, Content
      <3> QED
        BY <1>4, <3>1, <3>2 DEF Front, WriteAdvance, readerVars
    <2>6. published \o Pending' = accepted'
      <3>1. Pending' = Pending \o r
        <4>1. (Front \o Content(cur)) \o r = Front \o (Content(cur) \o r)
          BY <1>u, <2>4, Associates
        <4> QED
          BY <1>p, <2>2, <2>3, <2>5, <4>1
      <3>2. Pending \in Seq(Units)
        BY <1>p, <1>u, ConcatProperties
      <3>3. (published \o Pending) \o r = published \o (Pending \o r)
        <4>1. published \in Seq(Units) /\ Pending \in Seq(Units) /\ r \in Seq(Units)
          BY <1>u, <2>4, <3>2
        <4> QED
          BY ONLY <4>1, Associates
      <3>4. published \o Pending = accepted
        BY <1>s DEF Separate
      <3> QED
        BY <2>4, <3>1, <3>3, <3>4
    <2>7. off'[1 - cur] = off[1 - cur]
      BY <1>c, <2>1 DEF Types, PingTypeOK
    <2>8. reader \in {"load", "copy", "release"} =>
             off'[old] = off[old] /\ Content(old)' = Content(old)
      BY <1>s, <1>4, <1>c, <2>1 DEF Separate, WriteAdvance, readerVars, Types, PingTypeOK, Content
    <2> QED
      BY <1>s, <1>4, <2>6, <2>7, <2>8 DEF Separate, WriteAdvance, readerVars
  <1>5. CASE LoopTest \/ ReadLength
    <2>1. \A f \in Faces : Content(f)' = Content(f)
      BY <1>5 DEF LoopTest, ReadLength, Content
    <2>2. Front' = Front
      BY <1>5, <1>c, <2>1 DEF LoopTest, ReadLength, Content, Front
    <2>3. Pending' = Front' \o Content(cur)'
      <3>1. Pending' = Content(1 - cur)' \o Content(cur)'
        BY <1>s, <1>5, <1>c DEF Separate, LoopTest, ReadLength, Pending, Content
      <3> QED
        BY <1>5, <3>1 DEF Front, LoopTest, ReadLength
    <2>4. Pending' = Pending
      BY <1>p, <1>5, <1>c, <2>1, <2>2, <2>3 DEF LoopTest, ReadLength, Content
    <2> QED
      <3>1. published' \o Pending' = accepted'
        BY <1>s, <1>5, <2>4 DEF Separate, LoopTest, ReadLength, writerVars
      <3>2. CASE LoopTest
        BY <1>s, <3>1, <3>2 DEF Separate, LoopTest, writerVars
      <3>3. CASE ReadLength
        BY <1>s, <1>c, <3>1, <3>3 DEF Separate, ReadLength, writerVars
      <3> QED
        BY <1>5, <3>2, <3>3
  <1>6. CASE Flip
    <2>1. Content(1 - cur) = <<>>
      BY <1>s, <1>6 DEF Separate, Flip, Content
    <2>2. cur' = 1 - cur /\ 1 - cur' = cur /\ old' = 1 - cur'
      BY <1>6, <1>c DEF Flip
    <2>3. Pending' = Content(cur) \o Content(1 - cur)
      BY <1>6, <2>2 DEF Flip, Pending, Content
    <2>4. Pending' = Pending
      BY <1>u, <1>p, <1>6, <2>1, <2>3, ConcatEmptySeq DEF Front, Flip
    <2>5. writer = "idle"
      BY <1>s, <1>6 DEF Separate, Flip
    <2> QED
      BY <1>s, <1>6, <2>2, <2>4, <2>5 DEF Separate, Flip, writerVars
  <1>7. CASE ReadCopy
    <2>1. \A f \in Faces : Content(f)' = Content(f)
      BY <1>7 DEF ReadCopy, Content
    <2>2. Pending' = Pending
      BY <1>7, <1>c, <2>1 DEF ReadCopy, Content, Pending, Types, PingTypeOK
    <2>3. out' = Content(old)'
      BY <1>s, <1>7 DEF Separate, ReadCopy, Content
    <2> QED
      BY <1>s, <1>7, <2>2, <2>3 DEF Separate, ReadCopy, writerVars
  <1>8. CASE Release
    <2>1. old = 1 - cur /\ out = Content(1 - cur)
      BY <1>s, <1>8 DEF Separate, Release
    <2>2. off'[1 - cur] = 0 /\ off'[cur] = off[cur] /\ Content(cur)' = Content(cur)
      BY <1>8, <1>c, <2>1 DEF Release, Content, Types, PingTypeOK
    <2>3. Front' = Front
      BY <1>8, <2>1 DEF Release, Front
    <2>4. Pending' = Front' \o Content(cur)'
      BY <1>8, <1>c, <2>1 DEF Release, Pending, Front, Content
    <2>5. Pending' = Pending
      BY <1>p, <2>2, <2>3, <2>4
    <2> QED
      BY <1>s, <1>8, <1>c, <2>1, <2>2, <2>5 DEF Separate, Release, writerVars
  <1>9. CASE Publish
    <2>1. Content(1 - cur)' = <<>> /\ Content(cur)' = Content(cur)
      BY <1>s, <1>9 DEF Separate, Publish, Content
    <2>2. Pending' = Content(cur) /\ Pending = out \o Content(cur)
      BY <1>u, <1>p, <1>9, <2>1, ConcatEmptySeq DEF Pending, Publish, Front
    <2>3. published' \o Pending' = published \o Pending
      <3>1. published' = published \o out
        BY <1>9 DEF Publish
      <3>2. published \in Seq(Units) /\ out \in Seq(Units) /\ Content(cur) \in Seq(Units)
        BY <1>u DEF Types, UnitsTypeOK
      <3>3. (published \o out) \o Content(cur) = published \o (out \o Content(cur))
        BY <3>2, Associates
      <3> QED
        BY <2>2, <3>1, <3>3
    <2> QED
      BY <1>s, <1>9, <2>3 DEF Separate, Publish, writerVars
  <1>10. CASE Destroy
    <2>1. \A f \in Faces : Content(f)' = Content(f)
      BY <1>10 DEF Destroy, Content
    <2>2. Pending' = Pending
      BY <1>10, <2>1, SamePending DEF Destroy, readerVars
    <2> QED
      BY <1>s, <1>10, <2>2 DEF Separate, Destroy, readerVars, writerVars, Content
  <1>11. CASE UNCHANGED pingVars
    <2>1. \A f \in Faces : Content(f)' = Content(f)
      BY <1>11 DEF pingVars, Content
    <2>2. Pending' = Pending
      BY <1>11, <2>1, SamePending DEF pingVars, readerVars
    <2> QED
      BY <1>s, <1>11, <2>2 DEF Separate, pingVars, readerVars, writerVars, Content
  <1> QED
    BY <1>1, <1>2, <1>3, <1>4, <1>5, <1>6, <1>7, <1>8, <1>9, <1>10, <1>11
       DEF PingNext, WriterStep, ReaderStep

(* As long as the flips fall between the application's calls of Write,      *)
(* every unit Write accepted is published once and in order, or waits.      *)
THEOREM CleanUnlessSpanned == PingSpec => []CleanWhenSeparate
  <1>1. PingInit => Types /\ (~spanned => Separate)
    BY InitRoom, InitUnits, InitSeparate DEF Types
  <1>2. Types /\ (~spanned => Separate) /\ [PingNext]_pingVars
        => Types' /\ (~spanned' => Separate')
    BY StepRoom, StepUnits, StepSeparate DEF Types
  <1>3. (~spanned => Separate) => CleanWhenSeparate
    BY DEF Separate, CleanWhenSeparate
  <1> QED
    BY <1>1, <1>2, <1>3, PTL DEF PingSpec

-----------------------------------------------------------------------------
(* The composition.                                                         *)
(* The communicator takes nothing from the buffer but through Publish: what *)
(* is proved of the buffer holds of the agent's traffic.                    *)
LEMMA IngestRunsBuffer == Spec => PingSpec
  <1>1. Init => PingInit
    BY DEF Init
  <1>2. [Next]_vars => [PingNext]_pingVars
    BY DEF Next, vars, AgentStep, AgentPublishes, CommStep, Request, PingNext
  <1> QED
    BY <1>1, <1>2, PTL DEF Spec, PingSpec

(* What the agent has accepted reaches publish once and in order, whatever  *)
(* the communicator does, as long as no flip hits a running Write.          *)
THEOREM AgentTrafficClean == Spec => []CleanWhenSeparate
  BY IngestRunsBuffer, CleanUnlessSpanned, PTL

-----------------------------------------------------------------------------
Endpoints == Subscribed \cup Requests \cup {OutKey} \cup {Reaction[h].to : h \in DOMAIN Reaction}
Messages == [ep : Endpoints, no : Nat, fits : Fits \cup {TRUE}]
Outgoing == [kind : {Reaction[h].kind : h \in DOMAIN Reaction}, msg : Messages]

At(e) == {m \in Messages : m.ep = e}
For(t) == {m \in Messages : m.ep \in Subscribed /\ ThreadOf[m.ep] = t}

(* What lies in a reader's history is of the reader's endpoint, and what    *)
(* lies in a mailbox is of an endpoint routed to its thread.                *)
HistoryOK ==
    /\ history \in [Subscribed -> Seq(Messages)]
    /\ \A e \in Subscribed : history[e] \in Seq(At(e))
BoxOK ==
    /\ box \in [Threads -> Seq(Messages)]
    /\ \A t \in Threads : box[t] \in Seq(For(t))
PlacesOK ==
    /\ readers \subseteq Subscribed /\ localSubs \subseteq Subscribed
    /\ draining \subseteq Subscribed /\ available \subseteq Subscribed
    /\ next \in Nat \ {0} /\ requests \in Nat /\ batches \in Nat
    /\ hand \in [Threads -> Seq(Outgoing)]
RoutesOK == HistoryOK /\ BoxOK /\ PlacesOK /\ OnlyOwnHandler

LEMMA Pairs ==
  ASSUME NEW e \in Subscribed \cup UNION {Tables[t] : t \in Threads},
         NEW f \in Subscribed \cup UNION {Tables[t] : t \in Threads},
         e[1] = f[1], e[2] = f[2]
  PROVE  e = f
  <1>1. e = <<e[1], e[2]>> /\ f = <<f[1], f[2]>>
    BY CommunicatorAssumption
  <1> QED
    BY <1>1

(* A tick is none of the endpoints.                                         *)
LEMMA TickIsNone ==
  ASSUME NEW e \in Subscribed \cup DOMAIN Reaction \cup UNION {Tables[t] : t \in Threads}
  PROVE  e # Tick /\ e # <<>>
  <1>1. e = <<e[1], e[2]>>
    BY CommunicatorAssumption
  <1>2. Len(<<e[1], e[2]>>) = 2 /\ Len(Tick) = 1 /\ Len(<<>>) = 0
    BY DEF Tick
  <1> QED
    BY <1>1, <1>2

(* The entry functions, FindSessionTable and MsgTable::Find: a tick is      *)
(* taken before the groups are searched, and else nobody else's handler is  *)
(* found.                                                                   *)
LEMMA OwnHandler ==
  ASSUME NEW t \in Threads, NEW m \in For(t)
  PROVE  /\ m.ep[2] = TimerId => Called(t, m) = Tick
         /\ m.ep[2] # TimerId /\ Called(t, m) = <<>> => m.ep \notin Tables[t]
         /\ m.ep[2] # TimerId /\ Called(t, m) # <<>> => Called(t, m) = m.ep
         /\ Called(t, m) \in DOMAIN Reaction => Called(t, m) = m.ep
         /\ m.ep \in Subscribed /\ ThreadOf[m.ep] = t
  <1> DEFINE hs == HandlerOf(t, m)
             h == CHOOSE x \in hs : TRUE
  <1>1. m.ep \in Subscribed /\ ThreadOf[m.ep] = t
    BY DEF For
  <1>2. ASSUME m.ep \in Tables[t] PROVE m.ep \in hs
    BY <1>2 DEF HandlerOf, GroupOf
  <1>3. ASSUME hs # {} PROVE h = m.ep /\ h # <<>>
    <2>1. h \in hs
      BY <1>3
    <2>2. h \in Tables[t] /\ h[1] = m.ep[1] /\ h[2] = m.ep[2]
      BY <2>1 DEF HandlerOf, GroupOf
    <2> HIDE DEF h
    <2>3. h = m.ep
      BY <1>1, <2>2, Pairs
    <2> QED
      BY <1>1, <2>3, TickIsNone
  <1>4. Called(t, m) = IF m.ep[2] = TimerId THEN Tick ELSE IF hs # {} THEN h ELSE <<>>
    BY DEF Called
  <1>5. Tick \notin DOMAIN Reaction /\ <<>> \notin DOMAIN Reaction
    BY TickIsNone
  <1> HIDE DEF hs, h
  <1> QED
    BY <1>1, <1>2, <1>3, <1>4, <1>5

LEMMA Sequences1 ==
  ASSUME NEW S, NEW s \in Seq(S), NEW m \in S
  PROVE  Append(s, m) \in Seq(S) /\ Append(s, m) # <<>>
  BY AppendProperties

LEMMA Sequences2 ==
  ASSUME NEW S, NEW s \in Seq(S), s # <<>>
  PROVE  Tail(s) \in Seq(S) /\ Head(s) \in S
  BY HeadTailProperties

LEMMA KeptOK ==
  ASSUME NEW S, NEW s \in Seq(S), NEW m \in S
  PROVE  Keep(Append(s, m)) \in Seq(S)
  BY Sequences1, Sequences2 DEF Keep

LEMMA ArrivesOK ==
  ASSUME HistoryOK, readers \subseteq Subscribed, available \subseteq Subscribed,
         NEW m \in Messages, Arrives(m)
  PROVE  HistoryOK' /\ available' \subseteq Subscribed
  <1>1. CASE m.ep \in readers
    <2> DEFINE q == Keep(Append(history[m.ep], m))
    <2>1. m \in At(m.ep)
      BY DEF At
    <2>2. q \in Seq(At(m.ep)) /\ q \in Seq(Messages)
      <3>1. history[m.ep] \in Seq(At(m.ep)) /\ history[m.ep] \in Seq(Messages)
        BY <1>1 DEF HistoryOK
      <3>2. q \in Seq(At(m.ep))
        BY <2>1, <3>1, KeptOK
      <3>3. q \in Seq(Messages)
        BY <3>1, KeptOK
      <3> QED
        BY <3>2, <3>3
    <2>3. history' = [history EXCEPT ![m.ep] = q] /\ available' = available \cup {m.ep}
      BY <1>1 DEF Arrives
    <2> HIDE DEF q
    <2> QED
      BY <1>1, <2>2, <2>3 DEF HistoryOK
  <1>2. CASE m.ep \notin readers
    BY <1>2 DEF Arrives, HistoryOK
  <1> QED
    BY <1>1, <1>2

LEMMA PostOK ==
  ASSUME BoxOK, NEW m \in Messages, m.ep \in Subscribed, box' = Post(box, m)
  PROVE  BoxOK'
  <1> DEFINE t == ThreadOf[m.ep]
             q == Append(box[t], m)
  <1>1. t \in Threads /\ m \in For(t)
    BY DEF Threads, For
  <1>2. q \in Seq(For(t)) /\ q \in Seq(Messages)
    <2>1. box[t] \in Seq(For(t)) /\ box[t] \in Seq(Messages)
      BY <1>1 DEF BoxOK
    <2>2. q \in Seq(For(t))
      BY <1>1, <2>1, Sequences1
    <2>3. q \in Seq(Messages)
      BY <2>1, Sequences1
    <2> QED
      BY <2>2, <2>3
  <1>3. box' = [box EXCEPT ![t] = q]
    BY DEF Post
  <1> HIDE DEF q, t
  <1> QED
    BY <1>1, <1>2, <1>3 DEF BoxOK

LEMMA SendOK ==
  ASSUME HistoryOK, readers \subseteq Subscribed, available \subseteq Subscribed,
         NEW m \in Messages, Send(m)
  PROVE  HistoryOK' /\ available' \subseteq Subscribed
  BY ArrivesOK DEF Send, HistoryOK

LEMMA InitRoutes == Init => RoutesOK
  <1> SUFFICES ASSUME Init PROVE RoutesOK
    OBVIOUS
  <1>1. HistoryOK
    BY DEF Init, CommInit, HistoryOK
  <1>2. BoxOK
    BY DEF Init, CommInit, BoxOK
  <1>3. PlacesOK
    BY DEF Init, CommInit, PlacesOK
  <1>4. OnlyOwnHandler
    BY DEF Init, CommInit, OnlyOwnHandler
  <1> QED
    BY <1>1, <1>2, <1>3, <1>4 DEF RoutesOK

LEMMA StepRoutes == RoutesOK /\ [Next]_vars => RoutesOK'
  <1> SUFFICES ASSUME RoutesOK, [Next]_vars PROVE RoutesOK'
    OBVIOUS
  <1>0. HistoryOK /\ BoxOK /\ PlacesOK /\ OnlyOwnHandler
    BY DEF RoutesOK
  <1>1. ASSUME NEW m \in Messages, Incoming(m), requests' \in Nat, batches' \in Nat
        PROVE  RoutesOK'
    <2>1. HistoryOK' /\ available' \subseteq Subscribed
      BY <1>0, <1>1, ArrivesOK DEF Incoming, PlacesOK
    <2>2. BoxOK' /\ OnlyOwnHandler'
      BY <1>0, <1>1 DEF Incoming, BoxOK, OnlyOwnHandler
    <2>3. PlacesOK'
      BY <1>0, <1>1, <2>1 DEF Incoming, PlacesOK, assembled
    <2> QED
      BY <2>1, <2>2, <2>3 DEF RoutesOK
  <1>2. CASE AgentPublishes
    <2>1. Batch \in Messages
      BY <1>0, IngestAssumption DEF Batch, Messages, Endpoints, PlacesOK
    <2> QED
      BY <1>0, <1>1, <1>2, <2>1 DEF AgentPublishes, PlacesOK
  <1>3. ASSUME NEW e \in Requests, NEW f \in Fits, Request(e, f) PROVE RoutesOK'
    <2>1. [ep |-> e, no |-> requests + 1, fits |-> f] \in Messages
      <3>1. e \in Endpoints
        BY DEF Endpoints
      <3>2. requests + 1 \in Nat
        BY <1>0 DEF PlacesOK
      <3> QED
        BY <3>1, <3>2 DEF Messages
    <2> QED
      BY <1>0, <1>1, <1>3, <2>1 DEF Request, PlacesOK
  <1>4. ASSUME UNCHANGED <<commVars, requests, batches>> PROVE RoutesOK'
    BY <1>0, <1>4 DEF commVars, RoutesOK, HistoryOK, BoxOK, PlacesOK, OnlyOwnHandler
  <1>5. CASE CommStep
    <2>1. CASE Assembly
      <3>0. next \in Nat \ {0} /\ (next <= Len(SubRoutes) => SubRoutes[next] \in Subscribed)
        BY <1>0, CommunicatorAssumption DEF PlacesOK
      <3>1. /\ readers' \subseteq Subscribed /\ localSubs' \subseteq Subscribed
            /\ next' \in Nat \ {0}
        BY <1>0, <2>1, <3>0 DEF Assembly, Construct, TransportFails, CreateWriters, CreateReader, EnterLocal, Assembled,
           PlacesOK
      <3>2. UNCHANGED <<history, available, draining, box, hand, handled>>
        BY <2>1 DEF Assembly, Construct, TransportFails, CreateWriters, CreateReader, EnterLocal, Assembled
      <3> QED
        BY <1>0, <1>5, <3>1, <3>2 DEF CommStep, RoutesOK, HistoryOK, BoxOK, PlacesOK,
           OnlyOwnHandler
    <2>2. ASSUME NEW e \in Subscribed, ListenerBegins(e) PROVE RoutesOK'
      BY <1>0, <1>5, <2>2 DEF CommStep, ListenerBegins, RoutesOK, HistoryOK, BoxOK, PlacesOK,
         OnlyOwnHandler, assembled
    <2>3. ASSUME NEW e \in Subscribed, TakeSample(e) PROVE RoutesOK'
      <3>1. CASE history[e] = <<>>
        BY <1>0, <1>5, <2>3, <3>1 DEF CommStep, TakeSample, RoutesOK, HistoryOK, BoxOK,
           PlacesOK, OnlyOwnHandler, assembled
      <3>2. CASE history[e] # <<>>
        <4> DEFINE q == Tail(history[e])
        <4>1. history[e] \in Seq(At(e)) /\ history[e] \in Seq(Messages)
          BY <1>0 DEF HistoryOK
        <4>2. q \in Seq(At(e)) /\ Head(history[e]) \in At(e)
          BY <3>2, <4>1, Sequences2
        <4>3. q \in Seq(Messages) /\ Head(history[e]) \in Messages
          BY <3>2, <4>1, Sequences2
        <4>4. Head(history[e]).ep \in Subscribed
          BY <4>2 DEF At
        <4>5. BoxOK'
          BY <1>0, <2>3, <3>2, <4>3, <4>4, PostOK DEF TakeSample
        <4>6. history' = [history EXCEPT ![e] = q]
          BY <2>3, <3>2 DEF TakeSample
        <4> HIDE DEF q
        <4>7. HistoryOK'
          BY <1>0, <4>2, <4>3, <4>6 DEF HistoryOK
        <4> QED
          BY <1>0, <1>5, <2>3, <3>2, <4>5, <4>7 DEF CommStep, TakeSample, RoutesOK, PlacesOK,
             OnlyOwnHandler, assembled
      <3> QED
        BY <3>1, <3>2
    <2>4. ASSUME NEW t \in Threads, Dispatch(t) PROVE RoutesOK'
      <3> DEFINE m == Head(box[t])
                 h == Called(t, m)
                 c == [by |-> h, msg |-> m]
      <3>1. box[t] \in Seq(For(t)) /\ box[t] \in Seq(Messages) /\ box[t] # <<>>
        BY <1>0, <2>4 DEF BoxOK, Dispatch
      <3>2. Tail(box[t]) \in Seq(For(t)) /\ m \in For(t)
        BY <3>1, Sequences2
      <3>3. Tail(box[t]) \in Seq(Messages) /\ m \in Messages
        BY <3>1, Sequences2
      <3>4. BoxOK'
        <4>1. box' = [box EXCEPT ![t] = Tail(box[t])]
          BY <2>4 DEF Dispatch
        <4> QED
          BY <1>0, <3>2, <3>3, <4>1 DEF BoxOK
      <3>5. m.ep \in Subscribed /\ ThreadOf[m.ep] = t
        BY <3>2 DEF For
      <3>6. IF c.msg.ep[2] = TimerId THEN c.by = Tick
            ELSE IF c.by = <<>> THEN c.msg.ep \notin Tables[ThreadOf[c.msg.ep]]
            ELSE c.by = c.msg.ep
        <4>1. /\ m.ep[2] = TimerId => h = Tick
              /\ m.ep[2] # TimerId /\ h = <<>> => m.ep \notin Tables[t]
              /\ m.ep[2] # TimerId /\ h # <<>> => h = m.ep
              /\ ThreadOf[m.ep] = t
          <5> HIDE DEF m
          <5> QED
            BY <3>2, OwnHandler
        <4>2. c.by = h /\ c.msg = m
          OBVIOUS
        <4> HIDE DEF c, h, m
        <4> QED
          BY <4>1, <4>2
      <3>7. OnlyOwnHandler'
        <4>1. handled' = handled \cup {c}
          BY <2>4 DEF Dispatch
        <4> HIDE DEF c
        <4> QED
          BY <1>0, <3>6, <4>1 DEF OnlyOwnHandler
      <3>8. hand' \in [Threads -> Seq(Outgoing)]
        <4> DEFINE next1 == [kind |-> Reaction[h].kind,
                             msg  |-> [ep |-> Reaction[h].to, no |-> m.no, fits |-> m.fits]]
                   given == IF h \in DOMAIN Reaction THEN <<next1>> ELSE <<>>
        <4>1. hand' = [hand EXCEPT ![t] = given]
          BY <2>4 DEF Dispatch
        <4>2. ASSUME h \in DOMAIN Reaction PROVE next1 \in Outgoing
          <5> HIDE DEF h
          <5>1. Reaction[h].to \in Endpoints
            BY <4>2 DEF Endpoints
          <5>2. [ep |-> Reaction[h].to, no |-> m.no, fits |-> m.fits] \in Messages
            BY <3>3, <5>1 DEF Messages
          <5> QED
            BY <4>2, <5>2 DEF Outgoing
        <4>3. given \in Seq(Outgoing)
          <5> HIDE DEF next1, h
          <5> QED
            BY <4>2
        <4> HIDE DEF given
        <4> QED
          BY <1>0, <4>1, <4>3 DEF PlacesOK
      <3> QED
        BY <1>0, <1>5, <2>4, <3>4, <3>7, <3>8 DEF CommStep, Dispatch, RoutesOK, HistoryOK,
           PlacesOK, assembled
    <2>5. ASSUME NEW t \in Threads, hand[t] # <<>> PROVE hand[t][1].msg \in Messages
      <3>1. hand[t] \in Seq(Outgoing)
        BY <1>0 DEF PlacesOK
      <3>2. hand[t][1] \in Outgoing
        BY <2>5, <3>1
      <3> QED
        BY <3>2 DEF Outgoing
    <2>6. ASSUME NEW t \in Threads, PublishExternal(t) PROVE RoutesOK'
      <3>1. hand[t][1].msg \in Messages
        BY <2>5, <2>6 DEF PublishExternal
      <3>2. HistoryOK' /\ available' \subseteq Subscribed
        BY <1>0, <2>6, <3>1, SendOK DEF PublishExternal, PlacesOK
      <3>3. hand' \in [Threads -> Seq(Outgoing)]
        BY <1>0, <2>6 DEF PublishExternal, PlacesOK
      <3> QED
        BY <1>0, <1>5, <2>6, <3>2, <3>3 DEF CommStep, PublishExternal, RoutesOK, BoxOK,
           PlacesOK, OnlyOwnHandler, assembled
    <2>7. ASSUME NEW t \in Threads, PublishInternal(t) PROVE RoutesOK'
      <3> DEFINE m == hand[t][1].msg
      <3>1. m \in Messages
        BY <2>5, <2>7 DEF PublishInternal
      <3>2. HistoryOK' /\ BoxOK' /\ available' \subseteq Subscribed
        <4>1. CASE m.ep \in localSubs
          <5>1. box' = Post(box, m) /\ UNCHANGED <<history, available>>
            BY <2>7, <4>1 DEF PublishInternal
          <5>2. m.ep \in Subscribed
            BY <1>0, <4>1 DEF PlacesOK
          <5> HIDE DEF m
          <5>3. BoxOK'
            BY <1>0, <3>1, <5>1, <5>2, PostOK
          <5> QED
            BY <1>0, <5>1, <5>3 DEF PlacesOK, HistoryOK
        <4>2. CASE m.ep \notin localSubs
          <5>1. Send(m) /\ UNCHANGED box
            BY <2>7, <4>2 DEF PublishInternal
          <5> HIDE DEF m
          <5>2. HistoryOK' /\ available' \subseteq Subscribed
            BY <1>0, <3>1, <5>1, SendOK DEF PlacesOK
          <5> QED
            BY <1>0, <5>1, <5>2 DEF BoxOK
        <4> QED
          BY <4>1, <4>2
      <3>3. hand' \in [Threads -> Seq(Outgoing)]
        BY <1>0, <2>7 DEF PublishInternal, PlacesOK
      <3> QED
        BY <1>0, <1>5, <2>7, <3>2, <3>3 DEF CommStep, PublishInternal, RoutesOK, PlacesOK,
           OnlyOwnHandler, assembled
    <2> QED
      BY <1>5, <2>1, <2>2, <2>3, <2>4, <2>6, <2>7 DEF CommStep, Listens, ThreadStep
  <1> QED
    BY <1>2, <1>3, <1>4, <1>5 DEF Next, AgentStep, vars

(* A message is handled by the handler of its own endpoint in the thread    *)
(* the endpoint is routed to, also where groups use the same msgId, and one *)
(* with the tick's msgId is a tick even where a group lists a handler for   *)
(* it (the entry functions, FindSessionTable and MsgTable::Find behind      *)
(* OnRouteMsg).                                                             *)
THEOREM HandlersMatch == Spec => []OnlyOwnHandler
  <1>1. RoutesOK => OnlyOwnHandler
    BY DEF RoutesOK
  <1> QED
    BY <1>1, InitRoutes, StepRoutes, PTL DEF Spec

-----------------------------------------------------------------------------
(* Where a message can wait, and what waits there.                          *)
Place == ({"history"} \X Subscribed) \cup ({"box"} \X Threads) \cup ({"hand"} \X Threads)

InHand(t) == {x.msg : x \in Range(hand[t])}

Waiting(p) ==
    IF p[1] = "history" THEN Range(history[p[2]])
    ELSE IF p[1] = "box" THEN Range(box[p[2]])
    ELSE InHand(p[2])

Done == {c.msg : c \in handled}
Met == direct \cup wire \cup Done \cup UNION {Waiting(p) : p \in Place}
Used == (1..requests) \cup (MaxRequests + 1 .. MaxRequests + batches)

(* No two waiting messages have the same number, and none waits twice.      *)
Alone ==
    \A p, q \in Place : \A x \in Waiting(p), y \in Waiting(q) : x.no = y.no => p = q /\ x = y
Single ==
    /\ \A e \in Subscribed : IsInjective(history[e])
    /\ \A t \in Threads : IsInjective(box[t]) /\ Len(hand[t]) <= 1

(* What waits has not been handled, and what a handler is about to publish  *)
(* has not been published.                                                  *)
Ahead ==
    /\ \A p \in Place : Waiting(p) \cap Done = {}
    /\ \A t \in Threads : InHand(t) \cap (direct \cup wire) = {}

(* A handler publishes what it does because its own message was handled.    *)
Follows ==
    \A m \in Met :
        /\ m.no \in Used
        /\ \A h \in DOMAIN Reaction :
              Reaction[h].to = m.ep => [ep |-> h, no |-> m.no, fits |-> m.fits] \in Done

(* What publish_internal has delivered was put in one mailbox and nowhere   *)
(* else.                                                                    *)
Delivered ==
    \A m \in direct :
        /\ m \notin wire /\ m.ep \in Subscribed
        /\ m \in Done \/ m \in Waiting(<<"box", ThreadOf[m.ep]>>)
        /\ \A e \in Subscribed : m \notin Waiting(<<"history", e>>)

Counted ==
    /\ requests \in Nat /\ batches \in Nat /\ requests <= MaxRequests
    /\ \A c, d \in handled : c.msg = d.msg => c = d

OnceInv == Alone /\ Single /\ Ahead /\ Follows /\ Delivered /\ Counted

-----------------------------------------------------------------------------
LEMMA AppendRange ==
  ASSUME NEW S, NEW s \in Seq(S), NEW m \in S
  PROVE  /\ Range(Append(s, m)) = Range(s) \cup {m}
         /\ IsInjective(s) /\ m \notin Range(s) => IsInjective(Append(s, m))
  <1> DEFINE q == Append(s, m)
  <1>1. /\ q \in Seq(S) /\ Len(q) = Len(s) + 1 /\ q[Len(s) + 1] = m /\ Len(s) \in Nat
        /\ \A i \in 1..Len(s) : q[i] = s[i]
    BY AppendProperties
  <1>2. DOMAIN s = 1..Len(s) /\ DOMAIN q = 1..(Len(s) + 1)
    BY <1>1
  <1> HIDE DEF q
  <1>3. Range(q) = Range(s) \cup {m}
    BY <1>1, <1>2 DEF Range
  <1>4. ASSUME IsInjective(s), m \notin Range(s), NEW i \in DOMAIN q, NEW j \in DOMAIN q, q[i] = q[j]
        PROVE  i = j
    <2>1. \A k \in 1..Len(s) : s[k] # m
      BY <1>2, <1>4 DEF Range
    <2> QED
      BY <1>1, <1>2, <1>4, <2>1 DEF IsInjective
  <1> QED
    BY <1>3, <1>4 DEF IsInjective, q

LEMMA TailRange ==
  ASSUME NEW S, NEW s \in Seq(S), s # <<>>
  PROVE  /\ Head(s) \in Range(s) /\ Range(Tail(s)) \subseteq Range(s)
         /\ Range(s) = Range(Tail(s)) \cup {Head(s)}
         /\ IsInjective(s) => IsInjective(Tail(s)) /\ Head(s) \notin Range(Tail(s))
  <1> DEFINE q == Tail(s)
  <1>1. /\ q \in Seq(S) /\ Len(q) = Len(s) - 1 /\ Len(s) \in Nat \ {0} /\ Head(s) = s[1]
        /\ \A i \in 1..Len(q) : q[i] = s[i + 1]
    BY HeadTailProperties, EmptySeq
  <1>2. DOMAIN s = 1..Len(s) /\ DOMAIN q = 1..(Len(s) - 1)
    BY <1>1
  <1> HIDE DEF q
  <1>3. Range(s) = Range(q) \cup {Head(s)}
    <2>1. ASSUME NEW i \in DOMAIN s PROVE s[i] \in Range(q) \cup {Head(s)}
      <3>1. CASE i = 1
        BY <1>1, <3>1
      <3>2. CASE i # 1
        <4>1. i - 1 \in DOMAIN q /\ (i - 1) + 1 = i
          BY <1>1, <1>2, <3>2
        <4>2. q[i - 1] = s[(i - 1) + 1]
          BY <1>1, <1>2, <4>1
        <4> QED
          BY <4>1, <4>2 DEF Range
      <3> QED
        BY <3>1, <3>2
    <2>2. 1 \in DOMAIN s /\ \A i \in DOMAIN q : q[i] = s[i + 1] /\ i + 1 \in DOMAIN s
      BY <1>1, <1>2
    <2>3. Range(s) \subseteq Range(q) \cup {Head(s)}
      BY <2>1 DEF Range
    <2>4. ASSUME NEW i \in DOMAIN q PROVE q[i] \in Range(s)
      BY <2>2 DEF Range
    <2>5. Range(q) \subseteq Range(s)
      BY <2>4 DEF Range
    <2>6. Head(s) \in Range(s)
      BY <1>1, <2>2 DEF Range
    <2> QED
      BY <2>3, <2>5, <2>6
  <1>4. ASSUME IsInjective(s) PROVE IsInjective(q) /\ Head(s) \notin Range(q)
    <2>1. \A i \in DOMAIN q : q[i] = s[i + 1] /\ i + 1 \in DOMAIN s /\ i + 1 # 1
      BY <1>1, <1>2
    <2>2. 1 \in DOMAIN s
      BY <1>1, <1>2
    <2>3. ASSUME NEW i \in DOMAIN q PROVE q[i] # Head(s)
      BY <1>1, <1>4, <2>1, <2>2 DEF IsInjective
    <2>4. ASSUME NEW i \in DOMAIN q, NEW j \in DOMAIN q, q[i] = q[j] PROVE i = j
      <3>1. i + 1 = j + 1
        BY <1>4, <2>1, <2>4 DEF IsInjective
      <3> QED
        BY <1>1, <1>2, <3>1
    <2> QED
      BY <2>3, <2>4 DEF IsInjective, Range
  <1> QED
    BY <1>3, <1>4 DEF q

LEMMA KeepRange ==
  ASSUME NEW S, NEW s \in Seq(S), NEW m \in S, IsInjective(s), m \notin Range(s)
  PROVE  /\ Range(Keep(Append(s, m))) \subseteq Range(s) \cup {m}
         /\ IsInjective(Keep(Append(s, m)))
  <1> DEFINE q == Append(s, m)
  <1>1. q \in Seq(S) /\ q # <<>> /\ Range(q) = Range(s) \cup {m} /\ IsInjective(q)
    BY AppendRange, Sequences1
  <1> HIDE DEF q
  <1>2. Range(Tail(q)) \subseteq Range(q) /\ IsInjective(Tail(q))
    BY <1>1, TailRange
  <1>3. Keep(q) \in {q, Tail(q)}
    BY DEF Keep
  <1> QED
    BY <1>1, <1>2, <1>3 DEF q

LEMMA Places3 ==
  /\ \A e \in Subscribed : <<"history", e>> \in Place /\ Waiting(<<"history", e>>) = Range(history[e])
  /\ \A t \in Threads : /\ <<"box", t>> \in Place /\ Waiting(<<"box", t>>) = Range(box[t])
                        /\ <<"hand", t>> \in Place /\ Waiting(<<"hand", t>>) = InHand(t)
  /\ \A p \in Place : \/ \E e \in Subscribed : p = <<"history", e>>
                      \/ \E t \in Threads : p = <<"box", t>> \/ p = <<"hand", t>>
  BY DEF Place, Waiting

(* The same of the next state.                                              *)
LEMMA Places3Next ==
  /\ \A e \in Subscribed : Waiting(<<"history", e>>)' = Range(history'[e])
  /\ \A t \in Threads : /\ Waiting(<<"box", t>>)' = Range(box'[t])
                        /\ Waiting(<<"hand", t>>)' = {x.msg : x \in Range(hand'[t])}
  BY DEF Waiting, InHand

(* One message leaves its place; it, or one with its number, may arrive at  *)
(* another.                                                                 *)
Passes(src, was, dst, new) ==
    \A p \in Place :
        Waiting(p)' \subseteq (IF p = src THEN Waiting(p) \ {was} ELSE Waiting(p))
                              \cup (IF p = dst THEN {new} ELSE {})

LEMMA LeftAlone ==
  ASSUME Alone, NEW src \in Place, NEW was \in Waiting(src), NEW dst, NEW new,
         Passes(src, was, dst, new)
  PROVE  \A p \in Place : \A x \in Waiting(p)' :
             \/ x \in Waiting(p) /\ x # was /\ x.no # was.no
             \/ p = dst /\ x = new
  <1> TAKE p \in Place
  <1> DEFINE now == Waiting(p)
             later == Waiting(p)'
  <1>1. later \subseteq (IF p = src THEN now \ {was} ELSE now)
                         \cup (IF p = dst THEN {new} ELSE {})
    BY DEF Passes
  <1>2. ASSUME NEW x \in now, p = src => x # was PROVE x # was /\ x.no # was.no
    BY <1>2 DEF Alone
  <1> HIDE DEF now, later
  <1>3. \A x \in later : (x \in now /\ (p = src => x # was)) \/ (p = dst /\ x = new)
    BY <1>1
  <1>4. \A x \in later : (x \in now /\ x # was /\ x.no # was.no) \/ (p = dst /\ x = new)
    BY <1>2, <1>3
  <1> QED
    BY <1>4 DEF now, later

LEMMA PassesAlone ==
  ASSUME Alone, NEW src \in Place, NEW was \in Waiting(src), NEW dst, NEW new,
         Passes(src, was, dst, new), new.no = was.no
  PROVE  Alone'
  <1> SUFFICES ASSUME NEW p \in Place, NEW q \in Place, NEW x \in Waiting(p)',
                      NEW y \in Waiting(q)', x.no = y.no
               PROVE  p = q /\ x = y
    BY DEF Alone, Place
  <1>1. (x \in Waiting(p) /\ x.no # was.no) \/ (p = dst /\ x = new)
    BY LeftAlone
  <1>2. (y \in Waiting(q) /\ y.no # was.no) \/ (q = dst /\ y = new)
    BY LeftAlone
  <1> QED
    BY <1>1, <1>2 DEF Alone

(* A message goes on to a reader or a mailbox, or is lost: TakeSample and   *)
(* the two kinds of publication.                                            *)
LEMMA GoesOn ==
  ASSUME Alone, Ahead, Follows, Delivered,
         NEW src \in Place, NEW was \in Waiting(src), NEW dst \in Place, dst[1] # "hand",
         Passes(src, was, dst, was), Used' = Used, handled' = handled,
         \A t \in Threads : Waiting(<<"box", t>>) \subseteq Waiting(<<"box", t>>)',
         \/ direct' = direct /\ wire' = wire /\ dst[1] = "box"
         \/ /\ src[1] = "hand" /\ direct' = direct /\ wire' \subseteq wire \cup {was}
         \/ /\ src[1] = "hand" /\ wire' = wire /\ direct' = direct \cup {was}
            /\ was.ep \in Subscribed /\ dst = <<"box", ThreadOf[was.ep]>>
            /\ was \in Waiting(dst)'
  PROVE  Alone' /\ Ahead' /\ Follows' /\ Delivered'
  <1>1. Alone'
    BY PassesAlone
  <1>2. Done' = Done
    BY DEF Done
  <1>3. Ahead'
    <2>1. ASSUME NEW p \in Place, NEW x \in Waiting(p)' PROVE x \notin Done'
      <3>1. x \in Waiting(p) \/ x = was
        BY <2>1, LeftAlone
      <3> QED
        BY <1>2, <3>1 DEF Ahead
    <2>2. ASSUME NEW t \in Threads, NEW x \in InHand(t)' PROVE x \notin direct' \cup wire'
      <3>1. <<"hand", t>> \in Place /\ x \in Waiting(<<"hand", t>>)'
        BY <2>2, Places3, Places3Next DEF InHand
      <3>2. x \in Waiting(<<"hand", t>>) /\ x # was
        BY <3>1, LeftAlone
      <3>3. x \notin direct \cup wire
        BY <3>2, Places3 DEF Ahead
      <3> QED
        BY <3>2, <3>3
    <2>3. \A p \in Place : Waiting(p)' \cap Done' = {}
      BY <2>1
    <2>4. \A t \in Threads : InHand(t)' \cap (direct' \cup wire') = {}
      BY <2>2
    <2> QED
      BY <2>3, <2>4 DEF Ahead, Place
  <1>4. Follows'
    <2>1. was \in Met
      BY DEF Met
    <2>2. \A p \in Place : \A x \in Waiting(p)' : x \in Waiting(p) \/ x = was
      BY LeftAlone
    <2>3. \A p \in Place : \A x \in Waiting(p) : x \in Met
      BY DEF Met
    <2>4. Met' = direct' \cup wire' \cup Done' \cup UNION {Waiting(p)' : p \in Place}
      BY DEF Met, Place
    <2>6. direct \cup wire \cup Done \subseteq Met
      BY DEF Met
    <2>7. direct' \cup wire' \cup Done' \subseteq Met
      BY <1>2, <2>1, <2>6
    <2>8. ASSUME NEW x \in Met' PROVE x \in Met
      <3>1. x \in direct' \cup wire' \cup Done' \/ \E p \in Place : x \in Waiting(p)'
        BY <2>4
      <3> QED
        BY <2>1, <2>2, <2>3, <2>7, <3>1
    <2>5. Met' \subseteq Met
      BY <2>8
    <2> QED
      BY <1>2, <2>5 DEF Follows
  <1>5. src[1] = "hand" => was \notin direct \cup wire
    <2> SUFFICES ASSUME src[1] = "hand" PROVE was \notin direct \cup wire
      OBVIOUS
    <2>1. PICK t \in Threads : src = <<"hand", t>>
      BY Places3
    <2> QED
      BY <2>1, Places3 DEF Ahead
  <1>6. ASSUME NEW m \in direct
        PROVE  /\ m \notin wire' /\ m.ep \in Subscribed
               /\ m \in Done \/ m \in Waiting(<<"box", ThreadOf[m.ep]>>)'
               /\ \A e \in Subscribed : m \notin Waiting(<<"history", e>>)'
    <2>1. /\ m \notin wire /\ m.ep \in Subscribed
          /\ m \in Done \/ m \in Waiting(<<"box", ThreadOf[m.ep]>>)
          /\ \A e \in Subscribed : m \notin Waiting(<<"history", e>>)
      BY DEF Delivered
    <2>2. ThreadOf[m.ep] \in Threads
      BY <2>1 DEF Threads
    <2>3. m \notin wire'
      BY <1>5, <2>1
    <2>4. ASSUME NEW e \in Subscribed, m \in Waiting(<<"history", e>>)' PROVE FALSE
      <3>1. <<"history", e>> \in Place
        BY Places3
      <3>2. <<"history", e>> = dst /\ m = was
        BY <2>1, <2>4, <3>1, LeftAlone
      <3>3. dst[1] = "history"
        BY <3>2
      <3> QED
        BY <1>5, <3>2, <3>3
    <2> QED
      BY <2>1, <2>2, <2>3, <2>4
  <1>7. ASSUME was \in direct', was \notin direct
        PROVE  /\ was \notin wire' /\ was.ep \in Subscribed
               /\ was \in Waiting(<<"box", ThreadOf[was.ep]>>)'
               /\ \A e \in Subscribed : was \notin Waiting(<<"history", e>>)'
    <2>1. /\ src[1] = "hand" /\ wire' = wire /\ was.ep \in Subscribed
          /\ dst = <<"box", ThreadOf[was.ep]>> /\ was \in Waiting(dst)'
      BY <1>7
    <2>2. ASSUME NEW e \in Subscribed, was \in Waiting(<<"history", e>>)' PROVE FALSE
      <3>1. <<"history", e>> \in Place
        BY Places3
      <3>2. <<"history", e>> = dst
        BY <2>2, <3>1, LeftAlone
      <3> QED
        BY <2>1, <3>2
    <2> QED
      BY <1>5, <2>1, <2>2
  <1>8. direct' \subseteq direct \cup {was}
    OBVIOUS
  <1>9. Delivered'
    BY <1>2, <1>6, <1>7, <1>8 DEF Delivered
  <1> QED
    BY <1>1, <1>3, <1>4, <1>9

(* What a handler is about to publish is new: it has met nobody before.     *)
LEMMA ReactionIsNew ==
  ASSUME OwnTargets, Ahead, Follows, NEW p \in Place, NEW m \in Messages, m \in Waiting(p),
         m.ep \in DOMAIN Reaction
  PROVE  [ep |-> Reaction[m.ep].to, no |-> m.no, fits |-> m.fits] \notin Met
  <1> DEFINE new == [ep |-> Reaction[m.ep].to, no |-> m.no, fits |-> m.fits]
  <1> SUFFICES ASSUME new \in Met PROVE FALSE
    OBVIOUS
  <1>1. [ep |-> m.ep, no |-> new.no, fits |-> new.fits] \in Done
    BY DEF Follows
  <1>2. m = [ep |-> m.ep, no |-> new.no, fits |-> new.fits]
    BY DEF Messages
  <1> QED
    BY <1>1, <1>2 DEF Ahead

(* A message is handled, and what its handler publishes takes its place.    *)
LEMMA IsHandled ==
  ASSUME OwnTargets, Alone, Ahead, Follows, Delivered,
         NEW t \in Threads, NEW m \in Messages, m \in Waiting(<<"box", t>>), NEW new,
         new.no = m.no, Passes(<<"box", t>>, m, <<"hand", t>>, new),
         \/ /\ m.ep \in DOMAIN Reaction
            /\ new = [ep |-> Reaction[m.ep].to, no |-> m.no, fits |-> m.fits]
         \/ Waiting(<<"hand", t>>)' = {},
         \A u \in Threads : Waiting(<<"box", u>>) \ {m} \subseteq Waiting(<<"box", u>>)',
         Done' = Done \cup {m}, Used' = Used, direct' = direct, wire' = wire
  PROVE  Alone' /\ Ahead' /\ Follows' /\ Delivered'
  <1>0. <<"box", t>> \in Place /\ <<"hand", t>> \in Place
    BY Places3
  <1>1. Alone'
    BY <1>0, PassesAlone
  <1>2. ASSUME NEW p \in Place, NEW x \in Waiting(p)'
        PROVE  \/ x \in Waiting(p) /\ x # m
               \/ /\ p = <<"hand", t>> /\ x = new /\ new \notin Met
                  /\ m.ep \in DOMAIN Reaction
                  /\ new = [ep |-> Reaction[m.ep].to, no |-> m.no, fits |-> m.fits]
    <2>1. (x \in Waiting(p) /\ x # m) \/ (p = <<"hand", t>> /\ x = new)
      BY <1>0, <1>2, LeftAlone
    <2>2. CASE p = <<"hand", t>> /\ x = new
      <3>1. /\ m.ep \in DOMAIN Reaction
            /\ new = [ep |-> Reaction[m.ep].to, no |-> m.no, fits |-> m.fits]
        BY <1>2, <2>2
      <3>2. new \notin Met
        BY <1>0, <3>1, ReactionIsNew
      <3> QED
        BY <2>2, <3>1, <3>2
    <2> QED
      BY <2>1, <2>2
  <1>3. m \in Met
    BY <1>0 DEF Met
  <1>4. Ahead'
    <2>1. ASSUME NEW p \in Place, NEW x \in Waiting(p)' PROVE x \notin Done \cup {m}
      <3>1. CASE x \in Waiting(p) /\ x # m
        BY <3>1 DEF Ahead
      <3>2. CASE x = new /\ new \notin Met
        BY <1>3, <3>2 DEF Met
      <3> QED
        BY <1>2, <2>1, <3>1, <3>2
    <2>2. ASSUME NEW u \in Threads, NEW x \in InHand(u)' PROVE x \notin direct \cup wire
      <3>1. <<"hand", u>> \in Place /\ x \in Waiting(<<"hand", u>>)'
        BY <2>2, Places3, Places3Next DEF InHand
      <3>2. CASE x \in Waiting(<<"hand", u>>)
        BY <3>2, Places3 DEF Ahead
      <3>3. CASE x = new /\ new \notin Met
        BY <3>3 DEF Met
      <3> QED
        BY <1>2, <3>1, <3>2, <3>3
    <2>3. \A p \in Place : Waiting(p)' \cap Done' = {}
      BY <2>1
    <2>4. \A u \in Threads : InHand(u)' \cap (direct' \cup wire') = {}
      BY <2>2
    <2> QED
      BY <2>3, <2>4 DEF Ahead, Place
  <1>5. Follows'
    <2>1. Met' = direct \cup wire \cup Done \cup {m} \cup UNION {Waiting(p)' : p \in Place}
      BY DEF Met, Place
    <2>2. \A x \in direct \cup wire \cup Done \cup {m} : x \in Met
      BY <1>3 DEF Met
    <2>3. \A p \in Place : \A x \in Waiting(p) : x \in Met
      BY DEF Met
    <2>4. \A p \in Place : \A x \in Waiting(p)' : x \in Met \/
             (/\ x = new /\ m.ep \in DOMAIN Reaction
              /\ new = [ep |-> Reaction[m.ep].to, no |-> m.no, fits |-> m.fits])
      BY <1>2, <2>3
    <2>5. ASSUME NEW x \in Met', NEW h \in DOMAIN Reaction, Reaction[h].to = x.ep
          PROVE  [ep |-> h, no |-> x.no, fits |-> x.fits] \in Done'
      <3>1. CASE x \in Met
        BY <2>5, <3>1 DEF Follows
      <3>2. CASE /\ x = new /\ m.ep \in DOMAIN Reaction
                 /\ new = [ep |-> Reaction[m.ep].to, no |-> m.no, fits |-> m.fits]
        <4>1. h = m.ep
          BY <2>5, <3>2 DEF OwnTargets
        <4>2. m = [ep |-> h, no |-> x.no, fits |-> x.fits]
          BY <3>2, <4>1 DEF Messages
        <4> QED
          BY <4>2
      <3> QED
        BY <2>1, <2>2, <2>4, <3>1, <3>2
    <2>6. ASSUME NEW x \in Met' PROVE x.no \in Used
      <3>1. x \in Met \/ x = new
        BY <2>1, <2>2, <2>4
      <3> QED
        BY <1>3, <3>1 DEF Follows
    <2> QED
      BY <2>5, <2>6 DEF Follows
  <1>6. Delivered'
    <2> SUFFICES ASSUME NEW x \in direct
                 PROVE  /\ x \notin wire /\ x.ep \in Subscribed
                        /\ x \in Done' \/ x \in Waiting(<<"box", ThreadOf[x.ep]>>)'
                        /\ \A e \in Subscribed : x \notin Waiting(<<"history", e>>)'
      BY DEF Delivered
    <2>1. /\ x \notin wire /\ x.ep \in Subscribed
          /\ x \in Done \/ x \in Waiting(<<"box", ThreadOf[x.ep]>>)
          /\ \A e \in Subscribed : x \notin Waiting(<<"history", e>>)
      BY DEF Delivered
    <2>2. ThreadOf[x.ep] \in Threads
      BY <2>1 DEF Threads
    <2>3. ASSUME NEW e \in Subscribed, x \in Waiting(<<"history", e>>)' PROVE FALSE
      <3>1. <<"history", e>> \in Place /\ <<"history", e>> # <<"hand", t>>
        BY Places3
      <3> QED
        BY <1>2, <2>1, <2>3, <3>1
    <2> QED
      BY <2>1, <2>2, <2>3
  <1> QED
    BY <1>1, <1>4, <1>5, <1>6

(* A message of another process or a batch of the agent has a new number.   *)
LEMMA IsFresh ==
  ASSUME Alone, Ahead, Follows, Delivered, NEW m,
         m.no \notin Used, m.no \in Used', Used \subseteq Used',
         \A h \in DOMAIN Reaction : Reaction[h].to # m.ep,
         \A p \in Place : Waiting(p)' \subseteq
             Waiting(p) \cup (IF p = <<"history", m.ep>> THEN {m} ELSE {}),
         UNCHANGED <<box, hand, handled, direct, wire>>
  PROVE  Alone' /\ Ahead' /\ Follows' /\ Delivered'
  <1>0. Done' = Done /\ \A t \in Threads : InHand(t)' = InHand(t)
    BY DEF Done, InHand
  <1>1. m \notin Met
    BY DEF Follows
  <1>2. \A p \in Place : \A x \in Waiting(p)' :
            x \in Waiting(p) \/ (p = <<"history", m.ep>> /\ x = m)
    OBVIOUS
  <1>3. \A p \in Place : \A x \in Waiting(p) : x \in Met /\ x.no # m.no
    BY DEF Met, Follows
  <1>4. Alone'
    <2> SUFFICES ASSUME NEW p \in Place, NEW q \in Place, NEW x \in Waiting(p)',
                        NEW y \in Waiting(q)', x.no = y.no
                 PROVE  p = q /\ x = y
      BY DEF Alone, Place
    <2>1. x \in Waiting(p) \/ (p = <<"history", m.ep>> /\ x = m)
      BY <1>2
    <2>2. y \in Waiting(q) \/ (q = <<"history", m.ep>> /\ y = m)
      BY <1>2
    <2> QED
      BY <1>3, <2>1, <2>2 DEF Alone
  <1>5. Ahead'
    <2>1. ASSUME NEW p \in Place, NEW x \in Waiting(p)' PROVE x \notin Done
      <3>1. x \in Waiting(p) \/ x = m
        BY <1>2
      <3>2. m \notin Done
        BY <1>1 DEF Met
      <3> QED
        BY <3>1, <3>2 DEF Ahead
    <2>2. \A p \in Place : Waiting(p)' \cap Done' = {}
      BY <1>0, <2>1
    <2>3. \A t \in Threads : InHand(t)' \cap (direct' \cup wire') = {}
      BY <1>0 DEF Ahead
    <2> QED
      BY <2>2, <2>3 DEF Ahead, Place
  <1>6. Follows'
    <2>1. Met' = direct \cup wire \cup Done \cup UNION {Waiting(p)' : p \in Place}
      BY <1>0 DEF Met, Place
    <2>2. \A x \in direct \cup wire \cup Done : x \in Met
      BY DEF Met
    <2>3. \A x \in Met' : x \in Met \/ x = m
      BY <1>2, <1>3, <2>1, <2>2
    <2> QED
      BY <1>0, <2>3 DEF Follows
  <1>7. Delivered'
    <2> SUFFICES ASSUME NEW x \in direct
                 PROVE  /\ x \notin wire /\ x.ep \in Subscribed
                        /\ x \in Done \/ x \in Waiting(<<"box", ThreadOf[x.ep]>>)'
                        /\ \A e \in Subscribed : x \notin Waiting(<<"history", e>>)'
      BY <1>0 DEF Delivered
    <2>1. /\ x \notin wire /\ x.ep \in Subscribed
          /\ x \in Done \/ x \in Waiting(<<"box", ThreadOf[x.ep]>>)
          /\ \A e \in Subscribed : x \notin Waiting(<<"history", e>>)
      BY DEF Delivered
    <2>2. ThreadOf[x.ep] \in Threads
      BY <2>1 DEF Threads
    <2>3. Waiting(<<"box", ThreadOf[x.ep]>>)' = Waiting(<<"box", ThreadOf[x.ep]>>)
      BY <2>2, Places3, Places3Next
    <2>4. x # m
      BY <1>1 DEF Met
    <2>5. \A e \in Subscribed : x \notin Waiting(<<"history", e>>)'
      BY <1>2, <2>1, <2>4, Places3
    <2> QED
      BY <2>1, <2>3, <2>5
  <1> QED
    BY <1>4, <1>5, <1>6, <1>7

-----------------------------------------------------------------------------
(* The steps of the communicator in these terms.                            *)
LEMMA ArrivesAt ==
  ASSUME HistoryOK, Single, readers \subseteq Subscribed, NEW m \in Messages, Arrives(m),
         \A e \in Subscribed : m \notin Range(history[e])
  PROVE  \A e \in Subscribed :
            /\ Range(history'[e]) \subseteq Range(history[e]) \cup (IF e = m.ep THEN {m} ELSE {})
            /\ IsInjective(history'[e])
  <1> DEFINE q == Keep(Append(history[m.ep], m))
  <1>1. CASE m.ep \in readers
    <2>1. m.ep \in Subscribed /\ history[m.ep] \in Seq(Messages) /\ IsInjective(history[m.ep])
      BY <1>1 DEF HistoryOK, Single
    <2>2. Range(q) \subseteq Range(history[m.ep]) \cup {m} /\ IsInjective(q)
      BY <2>1, KeepRange
    <2>3. history' = [history EXCEPT ![m.ep] = q]
      BY <1>1 DEF Arrives
    <2> HIDE DEF q
    <2>4. \A e \in Subscribed : history'[e] = IF e = m.ep THEN q ELSE history[e]
      BY <2>1, <2>3 DEF HistoryOK
    <2> QED
      BY <2>2, <2>4 DEF Single
  <1>2. CASE m.ep \notin readers
    BY <1>2 DEF Arrives, Single
  <1> QED
    BY <1>1, <1>2

LEMMA PostedAt ==
  ASSUME BoxOK, Single, NEW m \in Messages, m.ep \in Subscribed, box' = Post(box, m),
         m \notin Range(box[ThreadOf[m.ep]])
  PROVE  /\ ThreadOf[m.ep] \in Threads
         /\ \A u \in Threads :
               /\ Range(box'[u]) = Range(box[u]) \cup (IF u = ThreadOf[m.ep] THEN {m} ELSE {})
               /\ IsInjective(box'[u])
  <1> DEFINE t == ThreadOf[m.ep]
             q == Append(box[t], m)
  <1>1. t \in Threads
    BY DEF Threads
  <1>2. box[t] \in Seq(Messages) /\ IsInjective(box[t])
    BY <1>1 DEF BoxOK, Single
  <1>3. Range(q) = Range(box[t]) \cup {m} /\ IsInjective(q)
    BY <1>2, AppendRange
  <1>4. box' = [box EXCEPT ![t] = q]
    BY DEF Post
  <1> HIDE DEF q, t
  <1>5. \A u \in Threads : box'[u] = IF u = t THEN q ELSE box[u]
    BY <1>1, <1>4 DEF BoxOK
  <1>6. \A u \in Threads : Range(box'[u]) = Range(box[u]) \cup (IF u = t THEN {m} ELSE {})
    BY <1>3, <1>5
  <1>7. \A u \in Threads : IsInjective(box'[u])
    BY <1>3, <1>5 DEF Single
  <1> QED
    BY <1>1, <1>6, <1>7 DEF t

(* A running handler has one message to publish, and then none.             *)
LEMMA HandForm ==
  ASSUME PlacesOK, Single, NEW t \in Threads, hand[t] # <<>>
  PROVE  /\ InHand(t) = {hand[t][1].msg} /\ hand[t][1].msg \in Messages
  <1>1. hand[t] \in Seq(Outgoing) /\ Len(hand[t]) \in Nat /\ Len(hand[t]) # 0 /\ Len(hand[t]) <= 1
    BY EmptySeq DEF PlacesOK, Single
  <1>2. Len(hand[t]) = 1 /\ DOMAIN hand[t] = {1}
    <2>1. Len(hand[t]) = 1
      <3> DEFINE held == Len(hand[t])
      <3>1. held \in Nat /\ held # 0 /\ held <= 1
        BY <1>1
      <3> HIDE DEF held
      <3>2. held = 1
        BY <3>1
      <3> QED
        BY <3>2 DEF held
    <2>2. DOMAIN hand[t] = 1..Len(hand[t])
      BY <1>1, LenProperties
    <2> QED
      BY <2>1, <2>2
  <1>3. hand[t][1] \in Outgoing
    BY <1>1, <1>2
  <1>4. Range(hand[t]) = {hand[t][1]}
    BY <1>2 DEF Range
  <1> QED
    BY <1>3, <1>4 DEF InHand, Outgoing

LEMMA HandEmptied ==
  ASSUME PlacesOK, Single, NEW t \in Threads, hand' = [hand EXCEPT ![t] = <<>>]
  PROVE  /\ InHand(t)' = {} /\ \A u \in Threads : u # t => InHand(u)' = InHand(u)
         /\ \A u \in Threads : Len(hand'[u]) <= 1
  <1>1. \A u \in Threads : hand'[u] = IF u = t THEN <<>> ELSE hand[u]
    BY DEF PlacesOK
  <1>2. Range(<<>>) = {} /\ Len(<<>>) = 0
    BY EmptySeq DEF Range
  <1>3. InHand(t)' = {}
    BY <1>1, <1>2 DEF InHand
  <1>4. \A u \in Threads : u # t => InHand(u)' = InHand(u)
    BY <1>1 DEF InHand
  <1> QED
    BY <1>1, <1>2, <1>3, <1>4 DEF Single

LEMMA OnceTake ==
  ASSUME RoutesOK, OnceInv, NEW e \in Subscribed, TakeSample(e), history[e] # <<>>,
         UNCHANGED <<requests, batches>>
  PROVE  OnceInv'
  <1> DEFINE src == <<"history", e>>
             dst == <<"box", ThreadOf[e]>>
  <1>m. PICK m : m = Head(history[e])
    OBVIOUS
  <1>0. HistoryOK /\ BoxOK /\ Alone /\ Single /\ Ahead /\ Follows /\ Delivered /\ Counted
    BY DEF RoutesOK, OnceInv
  <1>1. history' = [history EXCEPT ![e] = Tail(history[e])] /\ box' = Post(box, m)
        /\ UNCHANGED <<hand, handled, direct, wire>>
    BY <1>m DEF TakeSample
  <1>2. history[e] \in Seq(At(e)) /\ history[e] \in Seq(Messages) /\ IsInjective(history[e])
    BY <1>0 DEF HistoryOK, Single
  <1>3. m \in At(e) /\ m \in Messages
    BY <1>2, <1>m, Sequences2
  <1>4. m.ep = e
    BY <1>3 DEF At
  <1>5. /\ m \in Range(history[e]) /\ Range(Tail(history[e])) = Range(history[e]) \ {m}
        /\ IsInjective(Tail(history[e]))
    BY <1>2, <1>m, TailRange
  <1>6. src \in Place /\ m \in Waiting(src)
    BY <1>5, Places3
  <1>7. ThreadOf[e] \in Threads /\ dst \in Place /\ dst # src
    BY Places3 DEF Threads
  <1>8. m \notin Range(box[ThreadOf[e]])
    <2>1. m \notin Waiting(dst)
      <3> HIDE DEF src, dst
      <3> QED
        BY <1>0, <1>6, <1>7 DEF Alone
    <2> QED
      BY <1>7, <2>1, Places3
  <1>9. \A u \in Threads :
            /\ Range(box'[u]) = Range(box[u]) \cup (IF u = ThreadOf[e] THEN {m} ELSE {})
            /\ IsInjective(box'[u])
    BY <1>0, <1>1, <1>3, <1>4, <1>8, PostedAt
  <1>10. \A f \in Subscribed : history'[f] = IF f = e THEN Tail(history[e]) ELSE history[f]
    BY <1>0, <1>1 DEF HistoryOK
  <1>11. Passes(src, m, dst, m)
    <2>1. ASSUME NEW f \in Subscribed
          PROVE  Waiting(<<"history", f>>)' \subseteq
                    IF <<"history", f>> = src THEN Waiting(<<"history", f>>) \ {m}
                    ELSE Waiting(<<"history", f>>)
      BY <1>5, <1>10, Places3, Places3Next
    <2>2. ASSUME NEW u \in Threads
          PROVE  Waiting(<<"box", u>>)' \subseteq
                    Waiting(<<"box", u>>) \cup (IF <<"box", u>> = dst THEN {m} ELSE {})
      BY <1>9, Places3, Places3Next
    <2>3. ASSUME NEW u \in Threads PROVE Waiting(<<"hand", u>>)' = Waiting(<<"hand", u>>)
      BY <1>1 DEF Waiting, InHand
    <2> QED
      BY <2>1, <2>2, <2>3, Places3 DEF Passes
  <1>12. ASSUME NEW u \in Threads PROVE Waiting(<<"box", u>>) \subseteq Waiting(<<"box", u>>)'
    <2>1. Waiting(<<"box", u>>) = Range(box[u]) /\ Waiting(<<"box", u>>)' = Range(box'[u])
      BY Places3, Places3Next
    <2> QED
      BY <1>9, <2>1
  <1>13. Alone' /\ Ahead' /\ Follows' /\ Delivered'
    <2>1. Used' = Used /\ dst[1] = "box"
      BY DEF Used
    <2> HIDE DEF src, dst
    <2> QED
      BY <1>0, <1>1, <1>6, <1>7, <1>11, <1>12, <2>1, GoesOn
  <1>14. Single'
    BY <1>0, <1>1, <1>5, <1>9, <1>10 DEF Single
  <1>15. Counted'
    BY <1>0, <1>1 DEF Counted
  <1> QED
    BY <1>13, <1>14, <1>15 DEF OnceInv

(* A running handler publishes: the message goes into a mailbox, to the     *)
(* wire and to a reader, or nowhere.                                        *)
LEMMA OncePublish ==
  ASSUME RoutesOK, OnceInv, NEW t \in Threads, PublishExternal(t) \/ PublishInternal(t),
         UNCHANGED <<requests, batches>>
  PROVE  OnceInv'
  <1> DEFINE src == <<"hand", t>>
  <1>m. PICK m : m = hand[t][1].msg
    OBVIOUS
  <1>0. /\ HistoryOK /\ BoxOK /\ PlacesOK /\ Alone /\ Single /\ Ahead /\ Follows /\ Delivered
        /\ Counted
    BY DEF RoutesOK, OnceInv
  <1>1. /\ hand[t] # <<>> /\ hand' = [hand EXCEPT ![t] = <<>>] /\ handled' = handled
        /\ \/ m.ep \in localSubs /\ box' = Post(box, m) /\ direct' = direct \cup {m}
              /\ UNCHANGED <<wire, history>>
           \/ Send(m) /\ UNCHANGED <<box, direct>>
    BY <1>m DEF PublishExternal, PublishInternal
  <1>2. InHand(t) = {m} /\ m \in Messages
    BY <1>0, <1>1, <1>m, HandForm
  <1>3. /\ InHand(t)' = {} /\ \A u \in Threads : u # t => InHand(u)' = InHand(u)
        /\ \A u \in Threads : Len(hand'[u]) <= 1
    BY <1>0, <1>1, HandEmptied
  <1>4. src \in Place /\ m \in Waiting(src)
    BY <1>2, Places3
  <1>5. /\ \A e \in Subscribed : m \notin Range(history[e])
        /\ \A u \in Threads : m \notin Range(box[u])
    <2>1. \A p \in Place : m \in Waiting(p) => p = src
      BY <1>0, <1>4 DEF Alone
    <2> QED
      BY <2>1, Places3
  <1>6. /\ \A u \in Threads :
              Waiting(<<"hand", u>>)' \subseteq
                 IF <<"hand", u>> = src THEN Waiting(<<"hand", u>>) \ {m} ELSE Waiting(<<"hand", u>>)
        /\ Used' = Used /\ src[1] = "hand"
    BY <1>3, Places3, Places3Next DEF InHand, Used
  <1>7. Counted'
    BY <1>0, <1>1 DEF Counted
  <1>8. CASE m.ep \in localSubs /\ box' = Post(box, m) /\ direct' = direct \cup {m}
             /\ UNCHANGED <<wire, history>>
    <2> DEFINE dst == <<"box", ThreadOf[m.ep]>>
    <2>1. m.ep \in Subscribed
      BY <1>0, <1>8 DEF PlacesOK
    <2>2. /\ ThreadOf[m.ep] \in Threads
          /\ \A u \in Threads :
                /\ Range(box'[u]) = Range(box[u]) \cup (IF u = ThreadOf[m.ep] THEN {m} ELSE {})
                /\ IsInjective(box'[u])
      <3>1. m \notin Range(box[ThreadOf[m.ep]])
        BY <1>5, <2>1 DEF Threads
      <3> QED
        BY <1>0, <1>2, <1>8, <2>1, <3>1, PostedAt
    <2>3. dst \in Place /\ dst[1] = "box" /\ m \in Waiting(dst)'
      <3>1. m \in Range(box'[ThreadOf[m.ep]])
        BY <2>2
      <3>2. Waiting(dst)' = Range(box'[ThreadOf[m.ep]]) /\ dst \in Place
        BY <2>2, Places3, Places3Next
      <3> QED
        BY <3>1, <3>2
    <2>4. Passes(src, m, dst, m)
      <3>1. ASSUME NEW u \in Threads
            PROVE  Waiting(<<"box", u>>)' \subseteq
                      Waiting(<<"box", u>>) \cup (IF <<"box", u>> = dst THEN {m} ELSE {})
        BY <2>2, Places3, Places3Next
      <3>2. ASSUME NEW e \in Subscribed
            PROVE  Waiting(<<"history", e>>)' = Waiting(<<"history", e>>)
        BY <1>8 DEF Waiting
      <3> QED
        BY <1>6, <3>1, <3>2, Places3 DEF Passes
    <2>5. ASSUME NEW u \in Threads PROVE Waiting(<<"box", u>>) \subseteq Waiting(<<"box", u>>)'
      <3>1. Waiting(<<"box", u>>) = Range(box[u]) /\ Waiting(<<"box", u>>)' = Range(box'[u])
        BY Places3, Places3Next
      <3> QED
        BY <2>2, <3>1
    <2>6. Alone' /\ Ahead' /\ Follows' /\ Delivered'
      <3>1. /\ src[1] = "hand" /\ wire' = wire /\ direct' = direct \cup {m}
            /\ m.ep \in Subscribed /\ dst = <<"box", ThreadOf[m.ep]>> /\ dst[1] # "hand"
        BY <1>8, <2>1
      <3>2. handled' = handled /\ Used' = Used
        BY <1>1, <1>6
      <3> HIDE DEF src, dst
      <3> QED
        BY <1>0, <1>4, <2>3, <2>4, <2>5, <3>1, <3>2, GoesOn
    <2>7. Single'
      BY <1>0, <1>3, <1>8, <2>2 DEF Single
    <2> QED
      BY <1>7, <2>6, <2>7 DEF OnceInv
  <1>9. CASE Send(m) /\ UNCHANGED <<box, direct>>
    <2> DEFINE dst == <<"history", m.ep>>
    <2>1. \A e \in Subscribed :
             /\ Range(history'[e]) \subseteq
                   Range(history[e]) \cup (IF e = m.ep THEN {m} ELSE {})
             /\ IsInjective(history'[e])
      <3>1. CASE Arrives(m)
        BY <1>0, <1>2, <1>5, <3>1, ArrivesAt DEF PlacesOK
      <3>2. CASE UNCHANGED history
        BY <1>0, <3>2 DEF Single
      <3> QED
        BY <1>9, <3>1, <3>2 DEF Send
    <2>2. wire' \subseteq wire \cup {m}
      BY <1>9 DEF Send
    <2>3. Single'
      BY <1>0, <1>3, <1>9, <2>1 DEF Single
    <2>4. ASSUME NEW e \in Subscribed
          PROVE  Waiting(<<"history", e>>)' \subseteq
                    Waiting(<<"history", e>>) \cup (IF <<"history", e>> = dst THEN {m} ELSE {})
      BY <2>1, Places3, Places3Next
    <2>5. ASSUME NEW u \in Threads PROVE Waiting(<<"box", u>>)' = Waiting(<<"box", u>>)
      BY <1>9 DEF Waiting
    <2>6. Alone' /\ Ahead' /\ Follows' /\ Delivered'
      <3>1. CASE m.ep \in Subscribed
        <4>1. Passes(src, m, dst, m)
          BY <1>6, <2>4, <2>5, Places3 DEF Passes
        <4>2. dst \in Place /\ dst[1] # "hand"
          BY <3>1, Places3
        <4> HIDE DEF src, dst
        <4> QED
          BY <1>0, <1>1, <1>4, <1>6, <1>9, <2>2, <2>5, <4>1, <4>2, GoesOn
      <3>2. CASE m.ep \notin Subscribed /\ Subscribed # {}
        <4>1. PICK e \in Subscribed : TRUE
          BY <3>2
        <4> DEFINE any == <<"history", e>>
        <4>2. Passes(src, m, any, m)
          BY <1>6, <2>4, <2>5, <3>2, Places3 DEF Passes
        <4>3. any \in Place /\ any[1] # "hand"
          BY Places3
        <4> HIDE DEF src, dst, any
        <4> QED
          BY <1>0, <1>1, <1>4, <1>6, <1>9, <2>2, <2>5, <4>2, <4>3, GoesOn
      <3>3. Subscribed # {}
        BY DEF Threads
      <3> QED
        BY <3>1, <3>2, <3>3
    <2> QED
      BY <1>7, <2>3, <2>6 DEF OnceInv
  <1> QED
    BY <1>1, <1>8, <1>9

LEMMA OnceDispatch ==
  ASSUME OwnTargets, RoutesOK, OnceInv, NEW t \in Threads, Dispatch(t),
         UNCHANGED <<requests, batches>>
  PROVE  OnceInv'
  <1> DEFINE src == <<"box", t>>
             dst == <<"hand", t>>
  <1>m. PICK m : m = Head(box[t])
    OBVIOUS
  <1> DEFINE h == Called(t, m)
             new == [ep |-> Reaction[h].to, no |-> m.no, fits |-> m.fits]
             answer == [kind |-> Reaction[h].kind, msg |-> new]
             given == IF h \in DOMAIN Reaction THEN <<answer>> ELSE <<>>
             c == [by |-> h, msg |-> m]
  <1>0. /\ HistoryOK /\ BoxOK /\ PlacesOK /\ Alone /\ Single /\ Ahead /\ Follows /\ Delivered
        /\ Counted
    BY DEF RoutesOK, OnceInv
  <1>1. /\ hand[t] = <<>> /\ box[t] # <<>> /\ box' = [box EXCEPT ![t] = Tail(box[t])]
        /\ hand' = [hand EXCEPT ![t] = given] /\ handled' = handled \cup {c}
        /\ UNCHANGED <<history, direct, wire>>
    BY <1>m DEF Dispatch
  <1>2. box[t] \in Seq(Messages) /\ box[t] \in Seq(For(t)) /\ IsInjective(box[t])
    BY <1>0 DEF BoxOK, Single
  <1>3. m \in Messages /\ m \in For(t)
    BY <1>1, <1>2, <1>m, Sequences2
  <1>4. /\ m \in Range(box[t]) /\ Range(Tail(box[t])) = Range(box[t]) \ {m}
        /\ IsInjective(Tail(box[t]))
    BY <1>1, <1>2, <1>m, TailRange
  <1>5. h \in DOMAIN Reaction => h = m.ep
    BY <1>3, OwnHandler
  <1>6. m \in Waiting(src)
    BY <1>4, Places3
  <1>7. \A u \in Threads : box'[u] = IF u = t THEN Tail(box[t]) ELSE box[u]
    BY <1>0, <1>1 DEF BoxOK
  <1>8. \A u \in Threads : hand'[u] = IF u = t THEN given ELSE hand[u]
    BY <1>0, <1>1 DEF PlacesOK
  <1>9. Done' = Done \cup {m} /\ Used' = Used
    <2>1. c.msg = m
      OBVIOUS
    <2> HIDE DEF c
    <2> QED
      BY <1>1, <2>1 DEF Done, Used
  <1>10. /\ Range(given) = IF h \in DOMAIN Reaction THEN {answer} ELSE {}
         /\ Len(given) <= 1
    <2> HIDE DEF answer, h
    <2>1. Range(<<answer>>) = {answer} /\ Len(<<answer>>) = 1
      BY DEF Range
    <2>2. Range(<<>>) = {} /\ Len(<<>>) = 0
      BY EmptySeq DEF Range
    <2>3. CASE h \in DOMAIN Reaction
      <3>1. given = <<answer>>
        BY <2>3
      <3> HIDE DEF given
      <3> QED
        BY <2>1, <2>3, <3>1
    <2>4. CASE h \notin DOMAIN Reaction
      <3>1. given = <<>>
        BY <2>4
      <3> HIDE DEF given
      <3> QED
        BY <2>2, <2>4, <3>1
    <2> QED
      BY <2>3, <2>4
  <1>11. InHand(t)' = IF h \in DOMAIN Reaction THEN {new} ELSE {}
    <2>1. answer.msg = new
      OBVIOUS
    <2>2. InHand(t)' = {x.msg : x \in Range(given)}
      BY <1>8 DEF InHand
    <2> HIDE DEF given, answer, new, h
    <2> QED
      BY <1>10, <2>1, <2>2
  <1>12. Counted'
    <2>1. c.msg = m
      OBVIOUS
    <2>2. \A d \in handled : d.msg # m
      <3>1. src \in Place
        BY Places3
      <3> HIDE DEF src
      <3>2. m \notin Done
        BY <1>0, <1>6, <3>1 DEF Ahead
      <3> QED
        BY <3>2 DEF Done
    <2> HIDE DEF c
    <2>3. \A a, b \in handled' : a.msg = b.msg => a = b
      BY <1>0, <1>1, <2>1, <2>2 DEF Counted
    <2> QED
      BY <1>0, <1>1, <2>3 DEF Counted
  <1>13. Single'
    <2> HIDE DEF given
    <2> QED
      BY <1>0, <1>1, <1>4, <1>7, <1>8, <1>10 DEF Single
  <1>14. /\ \A u \in Threads :
               /\ Waiting(<<"box", u>>)' \subseteq
                     IF <<"box", u>> = src THEN Waiting(<<"box", u>>) \ {m} ELSE Waiting(<<"box", u>>)
               /\ Waiting(<<"box", u>>) \ {m} \subseteq Waiting(<<"box", u>>)'
         /\ \A e \in Subscribed : Waiting(<<"history", e>>)' = Waiting(<<"history", e>>)
    <2>1. ASSUME NEW u \in Threads
          PROVE  Waiting(<<"box", u>>)' = IF u = t THEN Waiting(<<"box", u>>) \ {m}
                                          ELSE Waiting(<<"box", u>>)
      <3>1. Waiting(<<"box", u>>) = Range(box[u]) /\ Waiting(<<"box", u>>)' = Range(box'[u])
        BY Places3, Places3Next
      <3> QED
        BY <1>4, <1>7, <3>1
    <2>2. \A e \in Subscribed : Waiting(<<"history", e>>)' = Waiting(<<"history", e>>)
      BY <1>1 DEF Waiting
    <2>3. ASSUME NEW u \in Threads
          PROVE  /\ Waiting(<<"box", u>>)' \subseteq
                       IF <<"box", u>> = src THEN Waiting(<<"box", u>>) \ {m} ELSE Waiting(<<"box", u>>)
                 /\ Waiting(<<"box", u>>) \ {m} \subseteq Waiting(<<"box", u>>)'
      <3>1. <<"box", u>> = src <=> u = t
        OBVIOUS
      <3> HIDE DEF src
      <3> QED
        BY <2>1, <3>1
    <2> QED
      BY <2>2, <2>3
  <1>15. ASSUME NEW u \in Threads, u # t PROVE Waiting(<<"hand", u>>)' = Waiting(<<"hand", u>>)
    <2>1. hand'[u] = hand[u]
      BY <1>8, <1>15
    <2>2. Waiting(<<"hand", u>>) = InHand(u)
      BY Places3
    <2> QED
      BY <2>1, <2>2, Places3Next DEF InHand
  <1>16. Waiting(dst)' = InHand(t)'
    BY DEF Waiting
  <1>17. CASE h \in DOMAIN Reaction
    <2>1. m.ep \in DOMAIN Reaction /\ new = [ep |-> Reaction[m.ep].to, no |-> m.no, fits |-> m.fits]
      BY <1>5, <1>17
    <2>2. new.no = m.no
      OBVIOUS
    <2> HIDE DEF new, h
    <2>3. Passes(src, m, dst, new)
      <3>1. Waiting(dst)' = {new}
        BY <1>11, <1>16, <1>17
      <3> QED
        BY <1>14, <1>15, <3>1, Places3 DEF Passes
    <2>4. Alone' /\ Ahead' /\ Follows' /\ Delivered'
      BY <1>0, <1>1, <1>3, <1>6, <1>9, <1>14, <2>1, <2>2, <2>3, IsHandled
    <2> QED
      BY <1>12, <1>13, <2>4 DEF OnceInv
  <1>18. CASE h \notin DOMAIN Reaction
    <2> HIDE DEF new, h
    <2>1. Waiting(dst)' = {}
      BY <1>11, <1>16, <1>18
    <2>2. Passes(src, m, dst, m)
      BY <1>14, <1>15, <2>1, Places3 DEF Passes
    <2>3. Alone' /\ Ahead' /\ Follows' /\ Delivered'
      BY <1>0, <1>1, <1>3, <1>6, <1>9, <1>14, <2>1, <2>2, IsHandled
    <2> QED
      BY <1>12, <1>13, <2>3 DEF OnceInv
  <1> QED
    BY <1>17, <1>18

LEMMA OnceFresh ==
  ASSUME RoutesOK, OnceInv, NEW m \in Messages, Incoming(m),
         \A h \in DOMAIN Reaction : Reaction[h].to # m.ep,
         m.no \notin Used, m.no \in Used', Used \subseteq Used',
         requests' \in Nat, batches' \in Nat, requests' <= MaxRequests
  PROVE  OnceInv'
  <1>0. HistoryOK /\ PlacesOK /\ Alone /\ Single /\ Ahead /\ Follows /\ Delivered /\ Counted
    BY DEF RoutesOK, OnceInv
  <1>1. Arrives(m) /\ UNCHANGED <<box, hand, handled, direct, wire>>
    BY DEF Incoming
  <1>2. \A e \in Subscribed : m \notin Range(history[e])
    <2>1. \A p \in Place : m \notin Waiting(p)
      BY <1>0 DEF Follows, Met
    <2> QED
      BY <2>1, Places3
  <1>3. \A e \in Subscribed :
            /\ Range(history'[e]) \subseteq Range(history[e]) \cup (IF e = m.ep THEN {m} ELSE {})
            /\ IsInjective(history'[e])
    BY <1>0, <1>1, <1>2, ArrivesAt DEF PlacesOK
  <1>4. \A p \in Place : Waiting(p)' \subseteq
            Waiting(p) \cup (IF p = <<"history", m.ep>> THEN {m} ELSE {})
    <2>1. ASSUME NEW e \in Subscribed
          PROVE  Waiting(<<"history", e>>)' \subseteq
                    Waiting(<<"history", e>>)
                    \cup (IF <<"history", e>> = <<"history", m.ep>> THEN {m} ELSE {})
      BY <1>3, Places3, Places3Next
    <2>2. ASSUME NEW u \in Threads
          PROVE  /\ Waiting(<<"box", u>>)' = Waiting(<<"box", u>>)
                 /\ Waiting(<<"hand", u>>)' = Waiting(<<"hand", u>>)
      BY <1>1 DEF Waiting, InHand
    <2> QED
      BY <2>1, <2>2, Places3
  <1>5. Alone' /\ Ahead' /\ Follows' /\ Delivered'
    BY <1>0, <1>1, <1>4, IsFresh
  <1>6. Single'
    BY <1>0, <1>1, <1>3 DEF Single
  <1>7. Counted'
    BY <1>0, <1>1 DEF Counted
  <1> QED
    BY <1>5, <1>6, <1>7 DEF OnceInv

LEMMA OnceRests ==
  ASSUME OnceInv, UNCHANGED <<history, box, hand, handled, direct, wire, requests, batches>>
  PROVE  OnceInv'
  <1>1. /\ Met' = Met /\ Done' = Done /\ Used' = Used
        /\ \A p \in Place : Waiting(p)' = Waiting(p)
        /\ \A t \in Threads : InHand(t)' = InHand(t)
    BY DEF Met, Done, Used, Waiting, InHand, Place
  <1>2. Alone' /\ Ahead' /\ Follows'
    BY <1>1 DEF OnceInv, Alone, Ahead, Follows, Place
  <1>3. Delivered'
    BY <1>1 DEF OnceInv, Delivered, Waiting
  <1>4. Single' /\ Counted'
    BY DEF OnceInv, Single, Counted
  <1> QED
    BY <1>2, <1>3, <1>4 DEF OnceInv

LEMMA InitOnce == OwnTargets /\ Init => OnceInv
  <1> SUFFICES ASSUME Init PROVE OnceInv
    OBVIOUS
  <1>1. /\ \A e \in Subscribed : history[e] = <<>>
        /\ \A t \in Threads : box[t] = <<>> /\ hand[t] = <<>>
        /\ handled = {} /\ direct = {} /\ wire = {} /\ requests = 0 /\ batches = 0
    BY DEF Init, CommInit
  <1>2. /\ Range(<<>>) = {} /\ Len(<<>>) = 0 /\ IsInjective(<<>>)
    BY EmptySeq DEF Range, IsInjective
  <1>3. \A t \in Threads : InHand(t) = {}
    BY <1>1, <1>2 DEF InHand
  <1>4. \A p \in Place : Waiting(p) = {}
    BY <1>1, <1>2, <1>3, Places3
  <1>5. Met = {} /\ Done = {}
    BY <1>1, <1>4 DEF Met, Done
  <1>6. Alone /\ Single /\ Ahead
    BY <1>1, <1>2, <1>3, <1>4 DEF Alone, Single, Ahead
  <1>7. Follows /\ Delivered
    BY <1>1, <1>5 DEF Follows, Delivered
  <1>8. Counted
    BY <1>1, IngestAssumption DEF Counted
  <1> QED
    BY <1>6, <1>7, <1>8 DEF OnceInv

LEMMA StepOnce ==
  ASSUME OwnTargets, RoutesOK, OnceInv, [Next]_vars
  PROVE  OnceInv'
  <1>0. /\ Counted /\ MaxRequests \in Nat
        /\ \A h \in DOMAIN Reaction : Reaction[h].to \notin Requests \cup {OutKey}
    BY IngestAssumption DEF OnceInv, OwnTargets
  <1>1. ASSUME UNCHANGED <<commVars, requests, batches>> PROVE OnceInv'
    BY <1>1, OnceRests DEF commVars
  <1>2. CASE AgentPublishes
    <2>1. Batch \in Messages /\ Batch.no = MaxRequests + batches + 1 /\ Batch.ep = OutKey
      <3>1. MaxRequests + batches + 1 \in Nat /\ OutKey \in Endpoints
        BY <1>0 DEF Counted, Endpoints
      <3> QED
        BY <3>1 DEF Batch, Messages
    <2>2. Incoming(Batch) /\ batches' = batches + 1 /\ requests' = requests
      BY <1>2 DEF AgentPublishes
    <2>3. /\ Batch.no \notin Used /\ Batch.no \in Used' /\ Used \subseteq Used'
          /\ requests' \in Nat /\ batches' \in Nat /\ requests' <= MaxRequests
      BY <1>0, <2>1, <2>2 DEF Counted, Used
    <2> QED
      BY <1>0, <2>1, <2>2, <2>3, OnceFresh
  <1>3. ASSUME NEW e \in Requests, NEW f \in Fits, Request(e, f) PROVE OnceInv'
    <2> DEFINE m == [ep |-> e, no |-> requests + 1, fits |-> f]
    <2>1. m \in Messages /\ m.no = requests + 1 /\ m.ep = e
      <3>1. requests + 1 \in Nat /\ e \in Endpoints
        BY <1>0 DEF Counted, Endpoints
      <3> QED
        BY <3>1 DEF Messages
    <2>2. /\ Incoming(m) /\ requests < MaxRequests /\ requests' = requests + 1
          /\ batches' = batches
      BY <1>3 DEF Request
    <2> HIDE DEF m
    <2>3. /\ m.no \notin Used /\ m.no \in Used' /\ Used \subseteq Used'
          /\ requests' \in Nat /\ batches' \in Nat /\ requests' <= MaxRequests
      BY <1>0, <2>1, <2>2 DEF Counted, Used
    <2> QED
      BY <1>0, <2>1, <2>2, <2>3, OnceFresh
  <1>4. CASE CommStep
    <2>0. UNCHANGED <<requests, batches>>
      BY <1>4 DEF CommStep
    <2>1. CASE Assembly
      BY <2>0, <2>1, OnceRests DEF Assembly, Construct, CreateReader, EnterLocal, Assembled
    <2>2. ASSUME NEW e \in Subscribed, Listens(e) PROVE OnceInv'
      <3>1. CASE ListenerBegins(e)
        BY <2>0, <3>1, OnceRests DEF ListenerBegins
      <3>2. CASE TakeSample(e) /\ history[e] = <<>>
        BY <2>0, <3>2, OnceRests DEF TakeSample
      <3>3. CASE TakeSample(e) /\ history[e] # <<>>
        BY <2>0, <3>3, OnceTake
      <3> QED
        BY <2>2, <3>1, <3>2, <3>3 DEF Listens
    <2>3. ASSUME NEW t \in Threads, ThreadStep(t) PROVE OnceInv'
      BY <2>0, <2>3, OnceDispatch, OncePublish DEF ThreadStep
    <2> QED
      BY <1>4, <2>1, <2>2, <2>3 DEF CommStep
  <1> QED
    BY <1>1, <1>2, <1>3, <1>4 DEF Next, AgentStep, vars

(* What has been delivered is either in the mailbox, at one place, or in    *)
(* the one record of its handling.                                          *)
LEMMA OnceImplies ==
  ASSUME RoutesOK, OnceInv
  PROVE  InternalOnce
  <1> SUFFICES ASSUME NEW m \in direct
               PROVE  /\ m \notin wire /\ ~InHistory(m)
                      /\ Cardinality(InBox(m, ThreadOf[m.ep])) + Cardinality(Handled(m)) = 1
    BY DEF InternalOnce
  <1> DEFINE t == ThreadOf[m.ep]
  <1>0. /\ HistoryOK /\ BoxOK /\ Single /\ Ahead /\ Delivered /\ Counted
    BY DEF RoutesOK, OnceInv
  <1>1. /\ m \notin wire /\ m.ep \in Subscribed /\ t \in Threads
        /\ m \in Done \/ m \in Waiting(<<"box", t>>)
        /\ \A e \in Subscribed : m \notin Waiting(<<"history", e>>)
    BY <1>0 DEF Delivered, Threads
  <1>2. ~InHistory(m)
    <2>1. history[m.ep] \in Seq(Messages) /\ m \notin Range(history[m.ep])
      BY <1>0, <1>1, Places3 DEF HistoryOK
    <2> QED
      BY <2>1 DEF InHistory, Range
  <1>3. <<"box", t>> \in Place /\ Waiting(<<"box", t>>) = Range(box[t])
    BY <1>1, Places3
  <1>4. box[t] \in Seq(Messages) /\ IsInjective(box[t])
    BY <1>0, <1>1 DEF BoxOK, Single
  <1>5. DOMAIN box[t] = 1..Len(box[t])
    BY <1>4
  <1> HIDE DEF t
  <1>6. CASE m \in Done
    <2>1. m \notin Range(box[t])
      BY <1>0, <1>3, <1>6 DEF Ahead
    <2>2. InBox(m, t) = {}
      BY <1>5, <2>1 DEF InBox, Range
    <2>3. PICK c \in handled : c.msg = m
      BY <1>6 DEF Done
    <2>4. Handled(m) = {c}
      BY <1>0, <2>3 DEF Counted, Handled
    <2>5. Cardinality(InBox(m, t)) = 0 /\ Cardinality(Handled(m)) = 1
      BY <2>2, <2>4, FS_EmptySet, FS_Singleton
    <2> QED
      BY <1>1, <1>2, <2>5 DEF t
  <1>7. CASE m \notin Done
    <2>1. Handled(m) = {}
      BY <1>7 DEF Done, Handled
    <2>2. PICK i \in 1..Len(box[t]) : box[t][i] = m
      BY <1>1, <1>3, <1>5, <1>7 DEF Range
    <2>3. InBox(m, t) = {i}
      BY <1>4, <1>5, <2>2 DEF InBox, IsInjective
    <2>4. Cardinality(InBox(m, t)) = 1 /\ Cardinality(Handled(m)) = 0
      BY <2>1, <2>3, FS_EmptySet, FS_Singleton
    <2> QED
      BY <1>1, <1>2, <2>4 DEF t
  <1> QED
    BY <1>6, <1>7

(* What publish_internal hands to a subscriber of its own process is in its *)
(* mailbox or handled, once, and neither sent nor received again (detmw's   *)
(* local delivery), when handlers publish to endpoints of their own.        *)
THEOREM InternalDeliveredOnce ==
  ASSUME OwnTargets
  PROVE  Spec => []InternalOnce
  <1>1. Init => RoutesOK /\ OnceInv
    BY InitRoutes, InitOnce
  <1>2. RoutesOK /\ OnceInv /\ [Next]_vars => RoutesOK' /\ OnceInv'
    BY StepRoutes, StepOnce
  <1>3. RoutesOK /\ OnceInv => InternalOnce
    BY OnceImplies
  <1> QED
    BY <1>1, <1>2, <1>3, PTL DEF Spec
-----------------------------------------------------------------------------
(* No sample lies in a reader's history unless the listener runs there or   *)
(* is about to be called: on_data_available leaves none behind.             *)
Noticed == \A e \in Subscribed : history[e] # <<>> => e \in available \cup draining

(* What waits in a reader stays there, goes to the mailbox of its thread or *)
(* is overwritten; what waits in a mailbox stays there or is handled.       *)
SamplesPass ==
    \A e \in Subscribed : \A m \in Range(history[e]) :
        m \in Range(history'[e]) \cup Range(box'[ThreadOf[e]]) \cup overwritten'
MailPasses ==
    \A t \in Threads : \A m \in Range(box[t]) : m \in Range(box'[t]) \cup {c.msg : c \in handled'}

LEMMA ArrivesNoticed ==
  ASSUME HistoryOK, Noticed, NEW m \in Messages, Arrives(m), UNCHANGED draining
  PROVE  Noticed' /\ SamplesPass
  <1>1. CASE m.ep \in readers /\ m.ep \in Subscribed
    <2> DEFINE q == Append(history[m.ep], m)
    <2>1. history[m.ep] \in Seq(Messages)
      BY <1>1 DEF HistoryOK
    <2>2. q \in Seq(Messages) /\ q # <<>> /\ Range(history[m.ep]) \subseteq Range(q)
      BY <2>1, Sequences1, AppendRange
    <2>3. /\ history' = [history EXCEPT ![m.ep] = Keep(q)] /\ available' = available \cup {m.ep}
          /\ overwritten' = overwritten \cup Lost(q)
      BY <1>1 DEF Arrives
    <2> HIDE DEF q
    <2>4. Range(q) \subseteq Range(Keep(q)) \cup Lost(q)
      BY <2>2, TailRange DEF Keep, Lost
    <2>5. \A e \in Subscribed : e # m.ep => history'[e] = history[e]
      BY <2>3 DEF HistoryOK
    <2>6. history'[m.ep] = Keep(q)
      BY <1>1, <2>3 DEF HistoryOK
    <2>7. Noticed'
      BY <2>3, <2>5 DEF Noticed
    <2>8. ASSUME NEW e \in Subscribed, NEW x \in Range(history[e])
          PROVE  x \in Range(history'[e]) \cup overwritten'
      BY <2>2, <2>3, <2>4, <2>5, <2>6, <2>8
    <2> QED
      BY <2>7, <2>8 DEF SamplesPass
  <1>2. CASE m.ep \in readers /\ m.ep \notin Subscribed
    <2>1. history' = history /\ available \subseteq available'
      BY <1>2 DEF Arrives, HistoryOK
    <2> QED
      BY <2>1 DEF Noticed, SamplesPass
  <1>3. CASE m.ep \notin readers
    BY <1>3 DEF Arrives, Noticed, SamplesPass
  <1> QED
    BY <1>1, <1>2, <1>3

LEMMA SendNoticed ==
  ASSUME HistoryOK, Noticed, NEW m \in Messages, Send(m), UNCHANGED draining
  PROVE  Noticed' /\ SamplesPass
  BY ArrivesNoticed DEF Send, Noticed, SamplesPass

LEMMA PostPasses ==
  ASSUME BoxOK, NEW m \in Messages, m.ep \in Subscribed, box' = Post(box, m)
  PROVE  /\ \A t \in Threads : Range(box[t]) \subseteq Range(box'[t])
         /\ m \in Range(box'[ThreadOf[m.ep]])
  <1> DEFINE t == ThreadOf[m.ep]
             q == Append(box[t], m)
  <1>1. t \in Threads
    BY DEF Threads
  <1>2. box[t] \in Seq(Messages)
    BY <1>1 DEF BoxOK
  <1>3. Range(q) = Range(box[t]) \cup {m}
    BY <1>2, AppendRange
  <1>4. box' = [box EXCEPT ![t] = q]
    BY DEF Post
  <1> HIDE DEF q, t
  <1>5. \A u \in Threads : box'[u] = IF u = t THEN q ELSE box[u]
    BY <1>4 DEF BoxOK
  <1>6. m \in Range(box'[t])
    BY <1>1, <1>3, <1>5
  <1> QED
    BY <1>3, <1>5, <1>6 DEF t

LEMMA StepNoticed ==
  RoutesOK /\ Noticed /\ [Next]_vars => Noticed' /\ SamplesPass /\ MailPasses
  <1> SUFFICES ASSUME RoutesOK, Noticed, [Next]_vars
               PROVE  Noticed' /\ SamplesPass /\ MailPasses
    OBVIOUS
  <1>0. HistoryOK /\ BoxOK /\ PlacesOK
    BY DEF RoutesOK
  <1>1. ASSUME UNCHANGED <<history, available, draining, box>>
        PROVE  Noticed' /\ SamplesPass /\ MailPasses
    BY <1>1 DEF Noticed, SamplesPass, MailPasses
  <1>2. CASE AgentPublishes
    <2>1. Batch \in Messages
      BY <1>0, IngestAssumption DEF Batch, Messages, Endpoints, PlacesOK
    <2>2. Arrives(Batch) /\ UNCHANGED <<draining, box>>
      BY <1>2 DEF AgentPublishes, Incoming
    <2> QED
      BY <1>0, <2>1, <2>2, ArrivesNoticed DEF MailPasses
  <1>3. ASSUME NEW e \in Requests, NEW f \in Fits, Request(e, f)
        PROVE  Noticed' /\ SamplesPass /\ MailPasses
    <2> DEFINE m == [ep |-> e, no |-> requests + 1, fits |-> f]
    <2>1. m \in Messages
      <3>1. e \in Endpoints /\ requests + 1 \in Nat
        BY <1>0 DEF Endpoints, PlacesOK
      <3> QED
        BY <3>1 DEF Messages
    <2>2. Arrives(m) /\ UNCHANGED <<draining, box>>
      BY <1>3 DEF Request, Incoming
    <2> HIDE DEF m
    <2> QED
      BY <1>0, <2>1, <2>2, ArrivesNoticed DEF MailPasses
  <1>4. CASE AgentStep \/ UNCHANGED vars
    BY <1>1, <1>4 DEF AgentStep, commVars, vars
  <1>5. CASE Assembly
    BY <1>1, <1>5 DEF Assembly, Construct, CreateReader, EnterLocal, Assembled
  <1>6. ASSUME NEW e \in Subscribed, ListenerBegins(e) PROVE Noticed' /\ SamplesPass /\ MailPasses
    BY <1>6 DEF ListenerBegins, Noticed, SamplesPass, MailPasses
  <1>7. ASSUME NEW e \in Subscribed, TakeSample(e) PROVE Noticed' /\ SamplesPass /\ MailPasses
    <2>1. CASE history[e] = <<>>
      BY <1>7, <2>1 DEF TakeSample, Noticed, SamplesPass, MailPasses
    <2>2. CASE history[e] # <<>>
      <3> DEFINE m == Head(history[e])
                 q == Tail(history[e])
      <3>1. history[e] \in Seq(At(e)) /\ history[e] \in Seq(Messages)
        BY <1>0 DEF HistoryOK
      <3>2. m \in At(e) /\ m \in Messages /\ m.ep = e
        BY <2>2, <3>1, Sequences2 DEF At
      <3>3. Range(history[e]) = Range(q) \cup {m}
        BY <2>2, <3>1, TailRange
      <3>4. /\ history' = [history EXCEPT ![e] = q] /\ box' = Post(box, m)
            /\ UNCHANGED <<draining, available>> /\ e \in draining
        BY <1>7, <2>2 DEF TakeSample
      <3> HIDE DEF m, q
      <3>5. /\ \A t \in Threads : Range(box[t]) \subseteq Range(box'[t])
            /\ m \in Range(box'[ThreadOf[e]])
        BY <1>0, <3>2, <3>4, PostPasses
      <3>6. \A f \in Subscribed : history'[f] = IF f = e THEN q ELSE history[f]
        BY <1>0, <3>4 DEF HistoryOK
      <3>7. Noticed'
        BY <3>4, <3>6 DEF Noticed
      <3>8. SamplesPass
        BY <3>3, <3>5, <3>6 DEF SamplesPass
      <3> QED
        BY <3>5, <3>7, <3>8 DEF MailPasses
    <2> QED
      BY <2>1, <2>2
  <1>8. ASSUME NEW t \in Threads, Dispatch(t) PROVE Noticed' /\ SamplesPass /\ MailPasses
    <2> DEFINE m == Head(box[t])
               q == Tail(box[t])
    <2>1. box[t] \in Seq(Messages) /\ box[t] # <<>>
      BY <1>0, <1>8 DEF BoxOK, Dispatch
    <2>2. Range(box[t]) = Range(q) \cup {m}
      BY <2>1, TailRange
    <2>3. box' = [box EXCEPT ![t] = q] /\ UNCHANGED <<history, available, draining>>
      BY <1>8 DEF Dispatch
    <2>4. \E c \in handled' : c.msg = m
      <3> DEFINE c == [by |-> Called(t, m), msg |-> m]
      <3>1. c \in handled'
        BY <1>8 DEF Dispatch
      <3> QED
        BY <3>1
    <2>5. handled \subseteq handled'
      BY <1>8 DEF Dispatch
    <2> HIDE DEF m, q
    <2>6. \A u \in Threads : box'[u] = IF u = t THEN q ELSE box[u]
      BY <1>0, <2>3 DEF BoxOK
    <2>7. MailPasses
      BY <2>2, <2>4, <2>6 DEF MailPasses
    <2> QED
      BY <2>3, <2>7 DEF Noticed, SamplesPass
  <1>9. ASSUME NEW t \in Threads, hand[t] # <<>> PROVE hand[t][1].msg \in Messages
    <2>1. hand[t] \in Seq(Outgoing)
      BY <1>0 DEF PlacesOK
    <2>2. hand[t][1] \in Outgoing
      BY <1>9, <2>1
    <2> QED
      BY <2>2 DEF Outgoing
  <1>10. ASSUME NEW t \in Threads, PublishExternal(t)
         PROVE  Noticed' /\ SamplesPass /\ MailPasses
    <2> DEFINE m == hand[t][1].msg
    <2>1. m \in Messages /\ Send(m) /\ UNCHANGED <<draining, box>>
      BY <1>9, <1>10 DEF PublishExternal
    <2> HIDE DEF m
    <2> QED
      BY <1>0, <2>1, SendNoticed DEF MailPasses
  <1>11. ASSUME NEW t \in Threads, PublishInternal(t)
         PROVE  Noticed' /\ SamplesPass /\ MailPasses
    <2> DEFINE m == hand[t][1].msg
    <2>1. m \in Messages /\ UNCHANGED draining
      BY <1>9, <1>11 DEF PublishInternal
    <2>2. CASE m.ep \in localSubs
      <3>1. box' = Post(box, m) /\ UNCHANGED <<history, available>>
        BY <1>11, <2>2 DEF PublishInternal
      <3>2. m.ep \in Subscribed
        BY <1>0, <2>2 DEF PlacesOK
      <3> HIDE DEF m
      <3> QED
        BY <1>0, <2>1, <3>1, <3>2, PostPasses DEF Noticed, SamplesPass, MailPasses
    <2>3. CASE m.ep \notin localSubs
      <3>1. Send(m) /\ UNCHANGED box
        BY <1>11, <2>3 DEF PublishInternal
      <3> HIDE DEF m
      <3> QED
        BY <1>0, <2>1, <3>1, SendNoticed DEF MailPasses
    <2> QED
      BY <2>2, <2>3
  <1> QED
    BY <1>2, <1>3, <1>4, <1>5, <1>6, <1>7, <1>8, <1>10, <1>11
       DEF Next, CommStep, Listens, ThreadStep

LEMMA InitNoticed == Init => Noticed
  BY DEF Init, CommInit, Noticed

(* A sample that lies in a reader's history has a call of the listener      *)
(* ahead of it or under way, also one that arrives while take_next_sample   *)
(* finds nothing more (on_data_available).                                  *)
THEOREM ListenerLeavesNone == Spec => []Noticed
  <1>1. RoutesOK /\ Noticed /\ [Next]_vars => RoutesOK' /\ Noticed'
    BY StepRoutes, StepNoticed
  <1> QED
    BY <1>1, InitRoutes, InitNoticed, PTL DEF Spec

(* On the way from the reader to the handler nothing is dropped but what    *)
(* newer samples of the same endpoint overwrite (the receive listener,      *)
(* OnRouteMsg, the thread's mailbox): the safety part of AllTaken.          *)
THEOREM NothingDropped == Spec => [][SamplesPass /\ MailPasses]_vars
  <1>1. RoutesOK /\ Noticed /\ [Next]_vars => RoutesOK' /\ Noticed'
    BY StepRoutes, StepNoticed
  <1>2. RoutesOK /\ Noticed /\ [Next]_vars => [SamplesPass /\ MailPasses]_vars
    BY StepNoticed
  <1> QED
    BY <1>1, <1>2, InitRoutes, InitNoticed, PTL DEF Spec
=============================================================================
