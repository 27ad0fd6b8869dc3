---------------------------- MODULE StreamsProofs ----------------------------
(***************************************************************************)
(* What is proved of the streaming interfaces, for texts, frames and       *)
(* attempts without bound: wherever the upstream answer is cut into        *)
(* pieces, the client is sent the text before the first block of calls     *)
(* and no part of a tag; the stream has one end, as the last thing; the    *)
(* blocks it began are closed and numbered without a gap.                  *)
(*                                                                         *)
(* The sieve sees a piece at a time, and the properties speak of the whole *)
(* text: the invariant relates what the sieve holds to what the whole text *)
(* says, and a call of feed is shown to sift the longer text.              *)
(***************************************************************************)
EXTENDS Streams, SequenceTheorems, WellFoundedInduction, TLAPS

-----------------------------------------------------------------------------
(* The invariant.                                                          *)

(* An attempt in which something may still be sent.                        *)
Going == {"new", "streaming", "stopping"}

(* What is sent before the end of a stream.                                *)
Running == {"start", "think", "late"}

(* The sieve of feed captures from the first opening tag of the whole text *)
(* on, and holds the text from there; before it, it holds no more than     *)
(* what may be the first part of a tag.                                    *)
SieveInv ==
    tools /\ phase \in Going =>
       /\ sieve.capturing <=> Opens(fed)
       /\ ~sieve.capturing => sieve.buf = Leftover(fed)
       /\ sieve.capturing => fed = forwarded \o sieve.buf

(* The client has been sent a prefix of the text: all but what the sieve   *)
(* holds, or what comes before the first opening tag, unless a block of    *)
(* calls was found in an interface that drops the safe text of that piece. *)
SentInv ==
    /\ ~tools => forwarded = fed
    /\ tools /\ ~Opens(fed) => fed = forwarded \o Leftover(fed)
    /\ tools /\ Opens(fed) =>
          /\ \E rest \in Seq(Char) : fed = forwarded \o rest
          /\ Len(forwarded) < FirstOpening(fed)
          /\ \/ Framed /\ Called
             \/ Len(forwarded) = FirstOpening(fed) - 1

(* Nothing of an attempt that has not begun has been sent, and once there  *)
(* is text _content_started is set (an empty token may have set it, too).  *)
StartInv ==
    /\ phase = "new" => /\ fed = <<>> /\ forwarded = <<>>
                        /\ blocks = <<>> /\ marks = <<>> /\ ~started
    /\ fed # <<>> => started

(* The first n blocks of bs: thoughts, then text, numbered without a gap,  *)
(* the thoughts closed once the answer has text (s).                       *)
LaidOut(bs, n, s) ==
    /\ n \in {0, 1, 2}
    /\ \A i \in 1 .. n :
          /\ bs[i].index = i - 1
          /\ \/ bs[i].kind = "think" /\ i = 1 /\ (s => ~bs[i].open)
             \/ bs[i].kind = "text" /\ i = n /\ s

(* Every block is as LaidOut says while the attempt goes on, unless        *)
(* thoughts that were held back have come after the text.                  *)
ShapeInv ==
    phase \in Going /\ (Contains(marks, "late") => fed = <<>>) =>
       LaidOut(blocks, Len(blocks), fed # <<>>)

(* The chat interface has no blocks.                                       *)
ChatInv == ~Framed => blocks = <<>>

StreamsInv ==
    /\ StreamsTypeOK /\ SieveInv /\ SentInv /\ StartInv /\ ChatInv /\ ShapeInv
    /\ EndsOnce /\ BlocksClose

-----------------------------------------------------------------------------
(* Sequences.  Their lengths are named, so that a step about them needs no *)
(* type of theirs.                                                         *)

(* w is f, of length m, followed by b, of length n.                        *)
Joined(w, f, m, b, n) ==
    /\ Len(w) = m + n /\ Len(f) = m /\ Len(b) = n
    /\ \A i \in 1 .. m : w[i] = f[i]
    /\ \A i \in 1 .. n : w[m + i] = b[i]

LEMMA ConcatJoins ==
    ASSUME NEW S, NEW f \in Seq(S), NEW b \in Seq(S)
    PROVE  /\ Joined(f \o b, f, Len(f), b, Len(b))
           /\ Len(f) \in Nat /\ Len(b) \in Nat
<1>1. Len(f) \in Nat /\ Len(b) \in Nat
  BY LenProperties
<1>2. /\ Len(f \o b) = Len(f) + Len(b)
      /\ \A i \in 1 .. Len(f) + Len(b) :
            (f \o b)[i] = IF i <= Len(f) THEN f[i] ELSE b[i - Len(f)]
  BY ConcatProperties
<1>3. ASSUME NEW w, NEW m \in Nat, NEW n \in Nat,
             \A i \in 1 .. m + n : w[i] = IF i <= m THEN f[i] ELSE b[i - m]
      PROVE  /\ \A i \in 1 .. m : w[i] = f[i]
             /\ \A i \in 1 .. n : w[m + i] = b[i]
  <2>1. ASSUME NEW i \in 1 .. n PROVE w[m + i] = b[i]
    <3>1. m + i \in 1 .. m + n /\ ~ (m + i <= m) /\ (m + i) - m = i
      OBVIOUS
    <3> QED BY <1>3, <3>1
  <2> QED BY <1>3, <2>1
<1>4. /\ \A i \in 1 .. Len(f) : (f \o b)[i] = f[i]
      /\ \A i \in 1 .. Len(b) : (f \o b)[Len(f) + i] = b[i]
  BY <1>1, <1>2, <1>3, Zenon
<1> QED BY <1>1, <1>2, <1>4, Zenon DEF Joined

LEMMA JoinedConcat ==
    ASSUME NEW f \in Seq(Char), NEW b \in Seq(Char)
    PROVE  /\ Joined(f \o b, f, Len(f), b, Len(b))
           /\ Len(f) \in Nat /\ Len(b) \in Nat
BY ConcatJoins

LEMMA ChunkIsText == ASSUME NEW c \in Chunk PROVE c \in Seq(Char) /\ c # <<>>
<1>1. PICK n \in 0 .. MaxChars : c \in [1 .. n -> Char]
  BY DEF Chunk, BoundedSeq, SeqOf
<1>2. c \in Seq(Char)
  BY <1>1, SeqDef, StreamsAssumption
<1> QED BY <1>2 DEF Chunk

LEMMA Whole ==
    ASSUME NEW w \in Seq(Char), NEW n \in 0 .. Len(w)
    PROVE  w = SubSeq(w, 1, n) \o SubSeq(w, n + 1, Len(w))
<1>1. Len(w) \in Nat
  BY LenProperties
<1>2. 1 \in 1 .. Len(w) + 1 /\ n \in 1 - 1 .. Len(w) /\ Len(w) \in n .. Len(w)
  BY <1>1
<1>3. SubSeq(w, 1, n) \o SubSeq(w, n + 1, Len(w)) = SubSeq(w, 1, Len(w))
  BY <1>2, ConcatAdjacentSubSeq
<1> QED BY <1>3, SubSeqFull

LEMMA Piece ==
    ASSUME NEW w \in Seq(Char), NEW m \in Nat \ {0}, NEW n \in 0 .. Len(w)
    PROVE  /\ SubSeq(w, m, n) \in Seq(Char)
           /\ Len(SubSeq(w, m, n)) = IF m <= n THEN n - m + 1 ELSE 0
           /\ \A i \in 1 .. n - m + 1 : SubSeq(w, m, n)[i] = w[m + i - 1]
<1>1. \A i \in m .. n : w[i] \in Char
  <2>1. Len(w) \in Nat
    BY LenProperties
  <2>2. \A i \in m .. n : i \in 1 .. Len(w)
    BY <2>1
  <2> QED BY <2>2, ElementOfSeq
<1>2. m \in Int /\ n \in Int
  BY LenProperties
<1> QED BY <1>1, <1>2, SubSeqProperties

LEMMA FrontOfConcat ==
    ASSUME NEW f \in Seq(Char), NEW b \in Seq(Char)
    PROVE  SubSeq(f \o b, 1, Len(f)) = f
<1>1. Len(f) \in Nat
  BY LenProperties
<1>2. CASE Len(f) = 0
  <2>1. f = <<>>
    BY <1>2, EmptySeq
  <2> QED BY <1>2, <2>1, SubSeqEmpty
<1>3. CASE Len(f) > 0
  <2>1. 1 \in 1 .. Len(f) /\ Len(f) \in 1 .. Len(f)
    BY <1>1, <1>3
  <2>2. SubSeq(f \o b, 1, Len(f)) = SubSeq(f, 1, Len(f))
    BY <2>1, SubSeqOfConcat1
  <2> QED BY <2>2, SubSeqFull
<1> QED BY <1>1, <1>2, <1>3

LEMMA RearOfConcat ==
    ASSUME NEW f \in Seq(Char), NEW b \in Seq(Char), Len(b) > 0
    PROVE  SubSeq(f \o b, Len(f) + 1, Len(f \o b)) = b
<1>1. Len(f) \in Nat /\ Len(b) \in Nat /\ Len(f \o b) = Len(f) + Len(b)
  BY LenProperties, ConcatProperties
<1>2. /\ Len(f) + 1 \in Len(f) + 1 .. Len(f) + Len(b)
      /\ Len(f) + Len(b) \in Len(f) + 1 .. Len(f) + Len(b)
  BY <1>1
<1>3. SubSeq(f \o b, Len(f) + 1, Len(f) + Len(b)) =
         SubSeq(b, (Len(f) + 1) - Len(f), (Len(f) + Len(b)) - Len(f))
  BY <1>2, SubSeqOfConcat2
<1>4. (Len(f) + 1) - Len(f) = 1 /\ (Len(f) + Len(b)) - Len(f) = Len(b)
  BY <1>1
<1> QED BY <1>1, <1>3, <1>4, SubSeqFull, Zenon

LEMMA TextAssociative ==
    ASSUME NEW a \in Seq(Char), NEW b \in Seq(Char), NEW c \in Seq(Char)
    PROVE  (a \o b) \o c = a \o (b \o c)
BY ConcatAssociative

-----------------------------------------------------------------------------
(* The first opening tag.  There is one if there is any, for < is well-    *)
(* founded on the natural numbers.                                         *)

LessThan == {ss \in Nat \X Nat : ss[1] < ss[2]}

LEMMA LessThanWellFounded == IsWellFoundedOn(LessThan, Nat)
BY NatLessThanWellFounded DEF OpToRel, LessThan

LEMMA LessThanIs == \A x, y \in Nat : <<x, y>> \in LessThan <=> x < y
BY DEF LessThan

LEMMA FirstIs ==
    ASSUME NEW w, NEW n \in Openings(w), \A i \in Openings(w) : n <= i
    PROVE  FirstOpening(w) = n
<1>1. Openings(w) \subseteq Int
  BY DEF Openings
<1>2. \A m \in Openings(w) : (\A i \in Openings(w) : m <= i) => m = n
  BY <1>1
<1> HIDE DEF Openings
<1> QED BY <1>2, Zenon DEF FirstOpening

LEMMA FirstExists ==
    ASSUME NEW w, Len(w) \in Nat, Opens(w)
    PROVE  /\ FirstOpening(w) \in Openings(w)
           /\ \A i \in Openings(w) : FirstOpening(w) <= i
<1>1. Openings(w) \subseteq Nat /\ Openings(w) # {}
  BY DEF Openings, Opens
<1>2. PICK n \in Openings(w) : \A i \in Openings(w) : ~ (<<i, n>> \in LessThan)
  BY <1>1, LessThanWellFounded, WFMin
<1>3. \A i \in Openings(w) : n <= i
  <2>1. \A i \in Openings(w) : ~ (i < n)
    BY <1>1, <1>2, LessThanIs
  <2> HIDE DEF Openings
  <2> QED BY <1>1, <2>1
<1> QED BY <1>3, FirstIs, Zenon

(* When no tag opens in front of b, the first opening tag of the whole is  *)
(* the first of b.                                                         *)
LEMMA Shifted ==
    ASSUME NEW w, NEW f, NEW b, NEW m \in Nat, NEW n \in Nat,
           Joined(w, f, m, b, n), \A i \in Openings(w) : i > m
    PROVE  /\ Opens(w) <=> Opens(b)
           /\ Opens(b) => FirstOpening(w) = m + FirstOpening(b)
<1>1. \A i \in Openings(b) : m + i \in Openings(w)
  BY DEF Joined, Openings, OpensAt
<1>2. \A i \in Openings(w) : i - m \in Openings(b) /\ m + (i - m) = i
  <2> SUFFICES ASSUME NEW i \in Openings(w)
               PROVE  i - m \in Openings(b) /\ m + (i - m) = i
    OBVIOUS
  <2>1. /\ i \in Nat /\ i > m /\ i <= m + n - 1
        /\ w[i] = "lt" /\ w[i + 1] = "tag"
    BY DEF Joined, Openings, OpensAt
  <2>2. PICK j \in Nat : j = i - m
    BY <2>1
  <2>3. j \in 1 .. n - 1 /\ i = m + j /\ i + 1 = m + (j + 1) /\ j + 1 \in 1 .. n
    BY <2>1, <2>2
  <2>4. b[j] = "lt" /\ b[j + 1] = "tag"
    BY <2>1, <2>3 DEF Joined
  <2> QED BY <2>2, <2>3, <2>4 DEF Joined, Openings, OpensAt
<1>3. Opens(w) <=> Opens(b)
  BY <1>1, <1>2 DEF Opens
<1>4. ASSUME Opens(b) PROVE FirstOpening(w) = m + FirstOpening(b)
  <2>1. /\ FirstOpening(b) \in Openings(b)
        /\ \A i \in Openings(b) : FirstOpening(b) <= i
    BY <1>4, FirstExists DEF Joined
  <2>2. m + FirstOpening(b) \in Openings(w)
    BY <1>1, <2>1
  <2>3. FirstOpening(b) \in Int /\ \A i \in Openings(w) : i \in Int
    BY <2>1 DEF Openings
  <2>4. \A i \in Openings(w) : m + FirstOpening(b) <= i
    BY <1>2, <2>1, <2>3
  <2> QED BY <2>2, <2>4, FirstIs, Zenon
<1> QED BY <1>3, <1>4

(* What follows a text does not move its first opening tag.                *)
LEMMA Extended ==
    ASSUME NEW w, NEW f, NEW b, NEW m \in Nat, NEW n \in Nat,
           Joined(w, f, m, b, n), Opens(f)
    PROVE  /\ Opens(w) /\ FirstOpening(w) = FirstOpening(f)
           /\ FirstOpening(f) \in 1 .. m - 1
<1>1. /\ FirstOpening(f) \in Openings(f)
      /\ \A i \in Openings(f) : FirstOpening(f) <= i
  BY FirstExists DEF Joined
<1>2. \A i \in Openings(f) : i \in Openings(w) /\ i \in 1 .. m - 1
  BY DEF Openings, OpensAt, Joined
<1>3. \A i \in Openings(w) : i <= m - 1 => i \in Openings(f)
  BY DEF Openings, OpensAt, Joined
<1>4. FirstOpening(f) \in Openings(w) /\ FirstOpening(f) \in 1 .. m - 1
  BY <1>1, <1>2
<1>5. \A i \in Openings(w) : i \in Int
  BY DEF Openings
<1>6. \A i \in Openings(w) : FirstOpening(f) <= i
  BY <1>1, <1>3, <1>4, <1>5
<1>7. FirstOpening(w) = FirstOpening(f)
  BY <1>4, <1>6, FirstIs, Zenon
<1> QED BY <1>4, <1>7 DEF Opens

(* A tag that was cut in two is found: with what was held back (l) in      *)
(* front of the piece (c), no opening tag of the whole begins in what was  *)
(* passed on (g).                                                          *)
LEMMA Behind ==
    ASSUME NEW f, NEW g, NEW l, NEW c, NEW all, NEW w,
           NEW m \in Nat, NEW k \in Nat, NEW n \in Nat,
           Joined(f, g, m, l, k), Joined(all, l, k, c, n),
           Joined(w, g, m, all, k + n), ~Opens(f),
           k \in {0, 1}, k = 1 => l[1] = "lt",
           k = 0 => (Len(f) > 0 => f[Len(f)] # "lt")
    PROVE  \A i \in Openings(w) : i > m
<1> SUFFICES ASSUME NEW i \in Openings(w), i <= m PROVE FALSE
  BY DEF Openings
<1>1. /\ i \in 1 .. m /\ i <= m + (k + n) - 1
      /\ w[i] = "lt" /\ w[i + 1] = "tag"
  BY DEF Openings, OpensAt, Joined
<1>2. f[i] = "lt"
  BY <1>1 DEF Joined
<1>3. CASE i < m
  <2>1. i + 1 \in 1 .. m
    BY <1>1, <1>3
  <2>2. f[i + 1] = "tag"
    BY <1>1, <2>1 DEF Joined
  <2>3. Len(f) = m + k
    BY DEF Joined
  <2>4. i \in 1 .. Len(f) - 1
    BY <1>1, <1>3, <2>3
  <2>5. i \in Openings(f)
    BY <1>2, <2>2, <2>4 DEF Openings, OpensAt
  <2> QED BY <2>5 DEF Opens
<1>4. CASE i = m
  <2>1. k # 0
    <3> SUFFICES ASSUME k = 0 PROVE FALSE
      OBVIOUS
    <3>1. Len(f) = m /\ m > 0
      BY <1>1 DEF Joined
    <3> QED BY <1>2, <1>4, <3>1
  <2>2. k = 1 /\ 1 \in 1 .. k /\ 1 \in 1 .. k + n
    BY <2>1
  <2>3. w[m + 1] = all[1] /\ all[1] = l[1]
    BY <2>2 DEF Joined
  <2> QED BY <1>1, <1>4, <2>2, <2>3
<1> QED BY <1>1, <1>3, <1>4

(* _split_at_boundary: what is held back is the first character of a tag,  *)
(* or nothing, and the text does not end with one then.                    *)
LEMMA LeftoverIs ==
    ASSUME NEW w \in Seq(Char)
    PROVE  /\ Leftover(w) \in Seq(Char)
           /\ Len(Leftover(w)) \in {0, 1}
           /\ Len(Leftover(w)) = 1 =>
                 /\ Leftover(w) = <<"lt">> /\ Leftover(w)[1] = "lt"
                 /\ Len(w) > 0 /\ w[Len(w)] = "lt"
           /\ Len(Leftover(w)) = 0 =>
                 /\ Leftover(w) = <<>>
                 /\ (Len(w) > 0 => w[Len(w)] # "lt")
<1>1. Len(w) \in Nat /\ (w # <<>> => Len(w) > 0) /\ (w = <<>> => Len(w) = 0)
  BY LenProperties, EmptySeq
<1>2. CASE w # <<>> /\ Last(w) = "lt"
  <2>1. Leftover(w) = <<"lt">>
    BY <1>2 DEF Leftover
  <2>2. <<"lt">> \in Seq(Char) /\ Len(<<"lt">>) = 1 /\ <<"lt">>[1] = "lt"
    BY DEF Char
  <2> QED BY <1>1, <1>2, <2>1, <2>2 DEF Last
<1>3. CASE ~ (w # <<>> /\ Last(w) = "lt")
  <2>1. Leftover(w) = <<>>
    BY <1>3 DEF Leftover
  <2>2. <<>> \in Seq(Char) /\ Len(<<>>) = 0
    BY EmptySeq
  <2> QED BY <1>1, <1>3, <2>1, <2>2 DEF Last
<1> QED BY <1>2, <1>3

LEMMA LeftoverOfConcat ==
    ASSUME NEW f \in Seq(Char), NEW b \in Seq(Char), b # <<>>
    PROVE  Leftover(f \o b) = Leftover(b)
<1>1. Len(f) \in Nat /\ Len(b) \in Nat /\ Len(b) > 0
  BY LenProperties, EmptySeq
<1>2. /\ f \o b \in Seq(Char) /\ Len(f \o b) = Len(f) + Len(b)
      /\ \A i \in 1 .. Len(b) : (f \o b)[Len(f) + i] = b[i]
  BY JoinedConcat, ConcatProperties DEF Joined
<1>3. Last(f \o b) = Last(b)
  <2>1. Len(b) \in 1 .. Len(b)
    BY <1>1
  <2> QED BY <1>2, <2>1, Zenon DEF Last
<1>4. f \o b # <<>>
  BY <1>1, <1>2, EmptySeq
<1> QED BY <1>3, <1>4 DEF Leftover

LEMMA CutTail ==
    ASSUME NEW w \in Seq(Char)
    PROVE  w = SubSeq(w, 1, Len(w) - Len(Leftover(w))) \o Leftover(w)
<1>1. Len(w) \in Nat
  BY LenProperties
<1>2. CASE Len(Leftover(w)) = 0
  <2>1. Leftover(w) = <<>> /\ Len(w) - Len(Leftover(w)) = Len(w)
    BY <1>1, <1>2, LeftoverIs
  <2>2. SubSeq(w, 1, Len(w)) = w /\ w \o <<>> = w
    BY SubSeqFull, ConcatEmptySeq
  <2> QED BY <2>1, <2>2
<1>3. CASE Len(Leftover(w)) = 1
  <2>1. Leftover(w) = <<"lt">> /\ Len(w) > 0 /\ w[Len(w)] = "lt"
    BY <1>3, LeftoverIs
  <2>2. Len(w) - 1 \in 0 .. Len(w) /\ (Len(w) - 1) + 1 = Len(w)
    BY <1>1, <2>1
  <2>3. w = SubSeq(w, 1, Len(w) - 1) \o SubSeq(w, Len(w), Len(w))
    BY <2>2, Whole
  <2>4. Len(w) \in 1 .. Len(w) /\ Len(w) \in Len(w) .. Len(w)
    BY <1>1, <2>1
  <2>5. /\ SubSeq(w, Len(w), Len(w)) =
               <<w[Len(w)]>> \o SubSeq(w, Len(w) + 1, Len(w))
        /\ SubSeq(w, Len(w) + 1, Len(w)) = <<>>
    BY <2>4, <1>1, SubSeqRecursiveFirst, SubSeqEmpty
  <2>6. <<"lt">> \in Seq(Char)
    BY DEF Char
  <2>7. SubSeq(w, Len(w), Len(w)) = <<"lt">>
    BY <2>1, <2>5, <2>6, ConcatEmptySeq
  <2> QED BY <1>3, <2>1, <2>3, <2>7
<1> QED BY <1>2, <1>3, LeftoverIs

-----------------------------------------------------------------------------
(* The sieve.                                                              *)

LEMMA FeedTypes ==
    ASSUME StreamsTypeOK, NEW chunk \in Seq(Char)
    PROVE  /\ fed \o chunk \in Seq(Char)
           /\ sieve.buf \o chunk \in Seq(Char)
           /\ sieve.buf \in Seq(Char)
<1>1. fed \in Seq(Char) /\ sieve.buf \in Seq(Char)
  BY DEF StreamsTypeOK
<1> QED BY <1>1, ConcatProperties

(* A sieve that is not capturing decides on what it holds and the piece as *)
(* it would on the whole text.                                             *)
LEMMA FeedScans ==
    ASSUME StreamsTypeOK, SieveInv, SentInv, tools, phase = "streaming",
           ~sieve.capturing, NEW chunk \in Seq(Char), chunk # <<>>
    PROVE  LET all == sieve.buf \o chunk
           IN /\ fed \o chunk = forwarded \o all
              /\ all \in Seq(Char) /\ all # <<>>
              /\ Opens(fed \o chunk) <=> Opens(all)
              /\ Opens(all) => /\ FirstOpening(fed \o chunk) =
                                     Len(forwarded) + FirstOpening(all)
                               /\ FirstOpening(all) \in 1 .. Len(all) - 1
              /\ Leftover(fed \o chunk) = Leftover(all)
<1> DEFINE all == sieve.buf \o chunk
           w == fed \o chunk
<1>1. /\ ~Opens(fed) /\ sieve.buf = Leftover(fed)
      /\ fed = forwarded \o sieve.buf
  BY DEF SieveInv, SentInv, Going
<1>2. /\ fed \in Seq(Char) /\ forwarded \in Seq(Char) /\ sieve.buf \in Seq(Char)
      /\ all \in Seq(Char) /\ w \in Seq(Char)
  BY FeedTypes DEF StreamsTypeOK
<1>3. w = forwarded \o all
  <2>1. /\ forwarded \in Seq(Char) /\ sieve.buf \in Seq(Char)
        /\ chunk \in Seq(Char)
    BY <1>2
  <2>2. (forwarded \o sieve.buf) \o chunk = forwarded \o (sieve.buf \o chunk)
    BY <2>1, TextAssociative, Zenon
  <2> QED BY <1>1, <2>2, Zenon
<1>4. /\ Joined(fed, forwarded, Len(forwarded), sieve.buf, Len(sieve.buf))
      /\ Len(forwarded) \in Nat /\ Len(sieve.buf) \in Nat
  <2>1. /\ Joined(forwarded \o sieve.buf, forwarded, Len(forwarded), sieve.buf,
                  Len(sieve.buf))
        /\ Len(forwarded) \in Nat /\ Len(sieve.buf) \in Nat
    BY <1>2, JoinedConcat, Zenon
  <2> QED BY <1>1, <2>1, Zenon
<1>5. /\ Joined(sieve.buf \o chunk, sieve.buf, Len(sieve.buf), chunk,
                Len(chunk))
      /\ Len(chunk) \in Nat
  BY <1>2, JoinedConcat, Zenon
<1>6. /\ Joined(w, forwarded, Len(forwarded), all, Len(all))
      /\ Len(all) \in Nat
  <2> HIDE DEF all, w
  <2>1. /\ Joined(forwarded \o all, forwarded, Len(forwarded), all, Len(all))
        /\ Len(all) \in Nat
    BY <1>2, JoinedConcat, Zenon
  <2> QED BY <1>3, <2>1, Zenon
<1> DEFINE m == Len(forwarded)
           k == Len(sieve.buf)
           n == Len(chunk)
<1>7. /\ k \in {0, 1} /\ (k = 1 => sieve.buf[1] = "lt")
      /\ k = 0 => (Len(fed) > 0 => fed[Len(fed)] # "lt")
  <2>1. /\ Len(Leftover(fed)) \in {0, 1}
        /\ Len(Leftover(fed)) = 1 => Leftover(fed)[1] = "lt"
        /\ Len(Leftover(fed)) = 0 => (Len(fed) > 0 => fed[Len(fed)] # "lt")
    <3> HIDE DEF all, w, m, k, n
    <3>1. fed \in Seq(Char)
      BY <1>2
    <3> QED BY <3>1, LeftoverIs
  <2> QED BY <1>1, <2>1, Zenon
<1>8. /\ Joined(fed, forwarded, m, sieve.buf, k)
      /\ Joined(all, sieve.buf, k, chunk, n)
      /\ Joined(w, forwarded, m, all, k + n)
      /\ Joined(w, forwarded, m, all, Len(all))
      /\ m \in Nat /\ k \in Nat /\ n \in Nat /\ Len(all) \in Nat
  <2>1. Len(all) = k + n
    BY <1>5, Zenon DEF Joined
  <2> QED BY <1>4, <1>5, <1>6, <2>1, Zenon
<1>9. all # <<>>
  BY <1>2, ConcatEqualIffEmpty
<1>10. Leftover(w) = Leftover(all)
  BY <1>2, <1>3, <1>9, LeftoverOfConcat
<1> HIDE DEF all, w, m, k, n
<1>11. \A i \in Openings(w) : i > m
  BY <1>1, <1>7, <1>8, Behind
<1>12. /\ Opens(w) <=> Opens(all)
       /\ Opens(all) => FirstOpening(w) = m + FirstOpening(all)
  BY <1>8, <1>11, Shifted
<1>13. Opens(all) => FirstOpening(all) \in 1 .. Len(all) - 1
  BY <1>8, FirstExists DEF Openings
<1>14. w = forwarded \o all /\ all \in Seq(Char) /\ all # <<>>
  BY <1>2, <1>3, <1>9, Zenon
<1>15. Opens(all) => /\ FirstOpening(w) = m + FirstOpening(all)
                     /\ FirstOpening(all) \in 1 .. Len(all) - 1
  BY <1>12, <1>13, Zenon
<1>16. /\ w = forwarded \o all
       /\ all \in Seq(Char) /\ all # <<>>
       /\ Opens(w) <=> Opens(all)
       /\ Opens(all) => /\ FirstOpening(w) = m + FirstOpening(all)
                        /\ FirstOpening(all) \in 1 .. Len(all) - 1
       /\ Leftover(w) = Leftover(all)
  BY <1>12, <1>10, <1>14, <1>15, Zenon
<1> QED BY <1>16, Zenon DEF all, w, m

SieveType == [buf : Seq(Char), capturing : BOOLEAN, done : BOOLEAN]

(* f is what feed should return for the piece that makes the text w.       *)
Sifted(f, w) ==
    /\ f.safe \in Seq(Char) /\ f.sieve \in SieveType
    /\ w \in Seq(Char)
    /\ ~Opens(w) =>
          /\ ~f.found
          /\ ~f.sieve.capturing
          /\ f.sieve.buf = Leftover(w)
          /\ w = (forwarded \o f.safe) \o Leftover(w)
    /\ Opens(w) =>
          \E block \in Seq(Char) :
             /\ w = (forwarded \o f.safe) \o block
             /\ Len(forwarded \o f.safe) = FirstOpening(w) - 1
             /\ Len(block) > 0
             /\ f.found <=> Closes(block)
             /\ ~f.found => f.sieve.capturing /\ f.sieve.buf = block

LEMMA FeedOfPlain ==
    ASSUME StreamsTypeOK, NEW chunk, ~sieve.capturing,
           ~Opens(sieve.buf \o chunk)
    PROVE  LET all == sieve.buf \o chunk
           IN /\ Feed(chunk).sieve = [sieve EXCEPT !.buf = Leftover(all)]
              /\ Feed(chunk).safe =
                    SubSeq(all, 1, Len(all) - Len(Leftover(all)))
              /\ Feed(chunk).found = FALSE
<1> HIDE DEF StreamsTypeOK
<1> QED BY DEF Feed

LEMMA FeedOfBlock ==
    ASSUME NEW chunk, sieve.capturing \/ Opens(sieve.buf \o chunk)
    PROVE  LET all == sieve.buf \o chunk
               cut == IF sieve.capturing THEN 1 ELSE FirstOpening(all)
               block == SubSeq(all, cut, Len(all))
           IN /\ Feed(chunk).sieve =
                    IF Closes(block) THEN [Empty EXCEPT !.done = TRUE]
                    ELSE [Empty EXCEPT !.buf = block, !.capturing = TRUE]
              /\ Feed(chunk).safe = SubSeq(all, 1, cut - 1)
              /\ Feed(chunk).found <=> Closes(block)
BY Zenon DEF Feed

LEMMA SievesAre ==
    /\ [Empty EXCEPT !.done = TRUE] \in SieveType
    /\ \A b \in Seq(Char) :
          /\ [Empty EXCEPT !.buf = b, !.capturing = TRUE] \in SieveType
          /\ [Empty EXCEPT !.buf = b, !.capturing = TRUE].capturing
          /\ [Empty EXCEPT !.buf = b, !.capturing = TRUE].buf = b
    /\ \A s \in SieveType, b \in Seq(Char) :
          /\ [s EXCEPT !.buf = b] \in SieveType
          /\ [s EXCEPT !.buf = b].buf = b
          /\ [s EXCEPT !.buf = b].capturing = s.capturing
<1>1. <<>> \in Seq(Char)
  BY EmptySeq
<1> QED BY <1>1 DEF Empty, SieveType

(* feed on a piece that opens no tag, on one in or into a block, and on    *)
(* any.                                                                    *)
LEMMA PlainIsSifted ==
    ASSUME StreamsTypeOK, SieveInv, SentInv, tools, phase = "streaming",
           ~sieve.capturing, NEW chunk \in Seq(Char), chunk # <<>>,
           ~Opens(sieve.buf \o chunk)
    PROVE  Sifted(Feed(chunk), fed \o chunk)
<1> DEFINE all == sieve.buf \o chunk
           w == fed \o chunk
           f == Feed(chunk)
           safe == SubSeq(all, 1, Len(all) - Len(Leftover(all)))
<1>1. /\ w = forwarded \o all
      /\ all \in Seq(Char)
      /\ ~Opens(w)
      /\ Leftover(w) = Leftover(all)
  BY FeedScans
<1>2. /\ f.sieve = [sieve EXCEPT !.buf = Leftover(all)]
      /\ f.safe = safe
      /\ f.found = FALSE
  BY FeedOfPlain
<1>3. w \in Seq(Char) /\ forwarded \in Seq(Char) /\ sieve \in SieveType
  BY FeedTypes DEF StreamsTypeOK, SieveType
<1>4. Leftover(all) \in Seq(Char)
  BY <1>1, LeftoverIs
<1> HIDE DEF all, w, f
<1>5. f.sieve \in SieveType /\ f.sieve.buf = Leftover(w) /\ ~f.sieve.capturing
  <2>1. /\ f.sieve \in SieveType /\ f.sieve.buf = Leftover(all)
        /\ f.sieve.capturing = sieve.capturing
    <3> DEFINE l == Leftover(all)
    <3>1. /\ sieve \in SieveType /\ l \in Seq(Char)
          /\ f.sieve = [sieve EXCEPT !.buf = l]
      BY <1>2, <1>3, <1>4, Zenon
    <3> HIDE DEF l
    <3>2. /\ [sieve EXCEPT !.buf = l] \in SieveType
          /\ [sieve EXCEPT !.buf = l].buf = l
          /\ [sieve EXCEPT !.buf = l].capturing = sieve.capturing
      BY <3>1, SievesAre, Zenon
    <3>3. /\ f.sieve \in SieveType /\ f.sieve.buf = l
          /\ f.sieve.capturing = sieve.capturing
      BY <3>1, <3>2, Zenon
    <3> QED BY <3>3 DEF l
  <2>2. ~f.sieve.capturing
    BY <2>1, Zenon
  <2> QED BY <1>1, <2>1, <2>2, Zenon
<1>6. safe \in Seq(Char)
  <2>1. Len(all) - Len(Leftover(all)) \in 0 .. Len(all)
    <3>1. Len(Leftover(all)) = 1 => Len(all) > 0
      BY <1>1, LeftoverIs
    <3>2. Len(all) \in Nat /\ Len(Leftover(all)) \in {0, 1}
      BY <1>1, LeftoverIs, LenProperties
    <3>3. \A n \in Nat, k \in {0, 1} : (k = 1 => n > 0) => n - k \in 0 .. n
      OBVIOUS
    <3> QED BY <3>1, <3>2, <3>3, Zenon
  <2> QED BY <1>1, <2>1, Piece
<1>7. w = (forwarded \o f.safe) \o Leftover(w)
  <2>1. all = safe \o Leftover(all)
    BY <1>1, CutTail
  <2> HIDE DEF safe
  <2>2. /\ forwarded \in Seq(Char) /\ safe \in Seq(Char)
        /\ Leftover(all) \in Seq(Char)
    BY <1>3, <1>4, <1>6
  <2>3. (forwarded \o safe) \o Leftover(all) =
           forwarded \o (safe \o Leftover(all))
    BY <2>2, TextAssociative, Zenon
  <2> QED BY <1>1, <1>2, <2>1, <2>3, Zenon
<1> HIDE DEF safe
<1>8. ~f.found /\ f.safe \in Seq(Char)
  BY <1>2, <1>6
<1>9. Sifted(f, w)
  BY <1>1, <1>3, <1>5, <1>7, <1>8, Zenon DEF Sifted
<1> QED BY <1>9 DEF f, w

LEMMA BlockIsSifted ==
    ASSUME StreamsTypeOK, SieveInv, SentInv, tools, phase = "streaming",
           ~Called, NEW chunk \in Seq(Char), chunk # <<>>,
           sieve.capturing \/ Opens(sieve.buf \o chunk)
    PROVE  Sifted(Feed(chunk), fed \o chunk)
<1> DEFINE all == sieve.buf \o chunk
           w == fed \o chunk
           f == Feed(chunk)
           cut == IF sieve.capturing THEN 1 ELSE FirstOpening(all)
           block == SubSeq(all, cut, Len(all))
           safe == SubSeq(all, 1, cut - 1)
<1>1. /\ f.sieve = IF Closes(block) THEN [Empty EXCEPT !.done = TRUE]
                   ELSE [Empty EXCEPT !.buf = block, !.capturing = TRUE]
      /\ f.safe = safe
      /\ f.found <=> Closes(block)
  BY FeedOfBlock
<1>2. /\ w \in Seq(Char) /\ forwarded \in Seq(Char) /\ sieve \in SieveType
      /\ all \in Seq(Char) /\ sieve.buf \in Seq(Char) /\ fed \in Seq(Char)
  BY FeedTypes DEF StreamsTypeOK, SieveType
<1>3. Len(all) \in Nat /\ Len(forwarded) \in Nat /\ Len(all) > 0
  <2>1. all # <<>>
    BY <1>2, ConcatEqualIffEmpty
  <2> QED BY <1>2, <2>1, LenProperties, EmptySeq
<1>4. /\ w = forwarded \o all
      /\ Opens(w)
      /\ cut \in 1 .. Len(all)
      /\ FirstOpening(w) = Len(forwarded) + cut
  <2>1. CASE sieve.capturing
    <3>1. Opens(fed) /\ fed = forwarded \o sieve.buf
      BY <2>1 DEF SieveInv, Going
    <3>2. FirstOpening(fed) = Len(forwarded) + 1
      <4>1. Len(forwarded) = FirstOpening(fed) - 1
        BY <3>1 DEF SentInv
      <4>2. FirstOpening(fed) \in Int
        <5>1. Len(fed) \in Nat
          BY <1>2, LenProperties
        <5> QED BY <3>1, <5>1, FirstExists DEF Openings
      <4> QED BY <4>1, <4>2
    <3>3. w = forwarded \o all
      <4>1. forwarded \in Seq(Char) /\ sieve.buf \in Seq(Char)
        BY <1>2
      <4>2. (forwarded \o sieve.buf) \o chunk =
               forwarded \o (sieve.buf \o chunk)
        BY <4>1, TextAssociative, Zenon
      <4> QED BY <3>1, <4>2, Zenon
    <3>4. Opens(w) /\ FirstOpening(w) = FirstOpening(fed)
      <4>1. /\ Joined(fed \o chunk, fed, Len(fed), chunk, Len(chunk))
            /\ Len(fed) \in Nat /\ Len(chunk) \in Nat
        BY <1>2, JoinedConcat, Zenon
      <4> QED BY <3>1, <4>1, Extended, Zenon
    <3>5. cut = 1 /\ 1 \in 1 .. Len(all)
      BY <1>3, <2>1
    <3> QED BY <3>2, <3>3, <3>4, <3>5
  <2>2. CASE ~sieve.capturing
    <3>1. /\ w = forwarded \o all
          /\ Opens(w)
          /\ FirstOpening(w) = Len(forwarded) + FirstOpening(all)
          /\ FirstOpening(all) \in 1 .. Len(all) - 1
      BY <2>2, FeedScans
    <3>2. cut = FirstOpening(all)
      BY <2>2
    <3>3. FirstOpening(all) \in 1 .. Len(all)
      BY <1>3, <3>1
    <3> QED BY <3>1, <3>2, <3>3
  <2> QED BY <2>1, <2>2
<1> HIDE DEF all, w, f, cut
<1>5. /\ block \in Seq(Char)
      /\ Len(block) = Len(all) - cut + 1 /\ Len(block) > 0
      /\ safe \in Seq(Char) /\ Len(safe) = cut - 1
  <2>1. cut \in Nat \ {0} /\ Len(all) \in 0 .. Len(all) /\ cut <= Len(all)
    BY <1>3, <1>4
  <2>2. 1 \in Nat \ {0} /\ cut - 1 \in 0 .. Len(all)
    BY <1>3, <2>1
  <2>3. block \in Seq(Char) /\ Len(block) = Len(all) - cut + 1
    BY <1>2, <2>1, Piece
  <2>4. /\ safe \in Seq(Char)
        /\ Len(safe) = IF 1 <= cut - 1 THEN (cut - 1) - 1 + 1 ELSE 0
    BY <1>2, <2>2, Piece
  <2> HIDE DEF block, safe
  <2> QED BY <1>3, <2>1, <2>3, <2>4
<1>6. all = safe \o block
  <2>1. cut - 1 \in 0 .. Len(all) /\ (cut - 1) + 1 = cut
    BY <1>3, <1>4
  <2> QED BY <1>2, <2>1, Whole
<1> HIDE DEF safe, block
<1>7. w = (forwarded \o safe) \o block
  <2>1. forwarded \in Seq(Char) /\ safe \in Seq(Char) /\ block \in Seq(Char)
    BY <1>2, <1>5
  <2>2. (forwarded \o safe) \o block = forwarded \o (safe \o block)
    BY <2>1, TextAssociative, Zenon
  <2> QED BY <1>4, <1>6, <2>2, Zenon
<1>8. Len(forwarded \o safe) = FirstOpening(w) - 1
  <2>1. Len(forwarded \o safe) = Len(forwarded) + Len(safe)
    BY <1>2, <1>5, ConcatProperties
  <2>2. cut \in Int
    BY <1>4
  <2> QED BY <1>3, <1>4, <1>5, <2>1, <2>2
<1>9. /\ f.sieve \in SieveType
      /\ ~f.found => f.sieve.capturing /\ f.sieve.buf = block
  <2>1. CASE Closes(block)
    BY <1>1, <2>1, SievesAre, Zenon
  <2>2. CASE ~Closes(block)
    <3>1. f.sieve = [Empty EXCEPT !.buf = block, !.capturing = TRUE]
      BY <1>1, <2>2
    <3> QED BY <1>5, <3>1, SievesAre, Zenon
  <2> QED BY <2>1, <2>2
<1>10. Sifted(f, w)
  BY <1>1, <1>2, <1>4, <1>5, <1>7, <1>8, <1>9, Zenon DEF Sifted
<1> QED BY <1>10 DEF f, w

LEMMA ChunkIsSifted ==
    ASSUME StreamsTypeOK, SieveInv, SentInv, tools, phase = "streaming",
           ~Called, NEW chunk \in Seq(Char), chunk # <<>>
    PROVE  Sifted(Feed(chunk), fed \o chunk)
BY PlainIsSifted, BlockIsSifted

LEMMA LongerText ==
    ASSUME NEW f \in Seq(Char), NEW c \in Seq(Char), c # <<>>
    PROVE  f \o c # <<>>
<1>1. Len(f) \in Nat /\ Len(c) \in Nat /\ Len(c) # 0
  BY LenProperties, EmptySeq
<1>2. Len(f \o c) = Len(f) + Len(c)
  BY ConcatProperties
<1> QED BY <1>1, <1>2, EmptySeq

-----------------------------------------------------------------------------
(* Blocks.                                                                 *)

(* The first n blocks are closed and numbered without a gap.               *)
Closed(bs, n) ==
    \A i \in 1 .. n : bs[i].index = i - 1 /\ ~bs[i].open

(* Of the first n blocks only text is open, and only calls may have the    *)
(* index of another.                                                       *)
Tidy(bs, n) ==
    \A i \in 1 .. n : /\ bs[i].open => bs[i].kind = "text"
                      /\ bs[i].index = i - 1 \/ bs[i].kind = "calls"

(* t is bs with the blocks of kind k closed; t is bs followed by b.        *)
ShutFrom(t, bs, n, k) ==
    \A i \in 1 .. n :
        /\ t[i].kind = bs[i].kind
        /\ t[i].index = bs[i].index
        /\ IF bs[i].kind = k THEN ~t[i].open ELSE t[i].open = bs[i].open

LongerBy(t, bs, n, b) == (\A i \in 1 .. n : t[i] = bs[i]) /\ t[n + 1] = b

LEMMA ShutProperties ==
    ASSUME NEW bs \in Seq(Block), NEW k
    PROVE  /\ Shut(bs, k) \in Seq(Block)
           /\ Len(Shut(bs, k)) = Len(bs)
           /\ ShutFrom(Shut(bs, k), bs, Len(bs), k)
<1> DEFINE s == Shut(bs, k)
<1>1. \A i \in 1 .. Len(bs) : bs[i] \in Block
  BY ElementOfSeq
<1>2. \A b \in Block : /\ [b EXCEPT !.open = FALSE] \in Block
                       /\ [b EXCEPT !.open = FALSE].kind = b.kind
                       /\ [b EXCEPT !.open = FALSE].index = b.index
                       /\ [b EXCEPT !.open = FALSE].open = FALSE
  BY DEF Block
<1>3. s \in [1 .. Len(bs) -> Block] /\ Len(bs) \in Nat
  BY <1>1, <1>2, LenProperties DEF Shut
<1>4. s \in Seq(Block)
  BY <1>3, SeqDef
<1>5. DOMAIN s = 1 .. Len(bs)
  BY DEF Shut
<1>6. Len(s) = Len(bs)
  BY <1>3, <1>4, <1>5, LenProperties
<1>7. \A i \in 1 .. Len(bs) :
         s[i] = IF bs[i].kind = k THEN [bs[i] EXCEPT !.open = FALSE]
                ELSE bs[i]
  BY DEF Shut
<1> HIDE DEF s
<1>8. ASSUME NEW i \in 1 .. Len(bs)
      PROVE  /\ s[i].kind = bs[i].kind
             /\ s[i].index = bs[i].index
             /\ IF bs[i].kind = k THEN ~s[i].open ELSE s[i].open = bs[i].open
  <2>1. CASE bs[i].kind = k
    <3>1. s[i] = [bs[i] EXCEPT !.open = FALSE] /\ bs[i] \in Block
      BY <1>1, <1>7, <2>1
    <3>2. /\ s[i].kind = bs[i].kind /\ s[i].index = bs[i].index
          /\ s[i].open = FALSE
      BY <1>2, <3>1, Zenon
    <3>3. ~s[i].open
      BY <3>2, Zenon
    <3> QED BY <2>1, <3>2, <3>3
  <2>2. CASE bs[i].kind # k
    BY <1>7, <2>2
  <2> QED BY <2>1, <2>2
<1>9. ShutFrom(s, bs, Len(bs), k)
  BY <1>8 DEF ShutFrom
<1> QED BY <1>4, <1>6, <1>9 DEF s

LEMMA BegunProperties ==
    ASSUME NEW bs \in Seq(Block), NEW k \in {"think", "text", "calls"},
           NEW n \in Nat, Framed
    PROVE  LET b == [kind |-> k, index |-> n, open |-> TRUE]
           IN /\ Begun(bs, k, n) \in Seq(Block)
              /\ Len(Begun(bs, k, n)) = Len(bs) + 1
              /\ LongerBy(Begun(bs, k, n), bs, Len(bs), b)
<1> DEFINE b == [kind |-> k, index |-> n, open |-> TRUE]
<1>1. b \in Block
  BY DEF Block
<1>2. Begun(bs, k, n) = Append(bs, b)
  BY DEF Begun
<1> HIDE DEF b
<1>3. /\ Append(bs, b) \in Seq(Block)
      /\ Len(Append(bs, b)) = Len(bs) + 1
      /\ \A i \in 1 .. Len(bs) : Append(bs, b)[i] = bs[i]
      /\ Append(bs, b)[Len(bs) + 1] = b
  BY <1>1, AppendProperties
<1>4. LongerBy(Append(bs, b), bs, Len(bs), b)
  BY <1>3, Zenon DEF LongerBy
<1> QED BY <1>2, <1>3, <1>4, Zenon DEF b

LEMMA LayShut ==
    ASSUME NEW bs, NEW t, NEW n, NEW s \in BOOLEAN,
           LaidOut(bs, n, s), ShutFrom(t, bs, n, "think")
    PROVE  LaidOut(t, n, TRUE)
BY DEF LaidOut, ShutFrom

LEMMA LayThoughtsIndex ==
    ASSUME NEW bs, NEW n, LaidOut(bs, n, FALSE), Len(bs) = n, ~Has(bs, "think")
    PROVE  n = 0 /\ Index(bs) = 0
<1>1. n = 0
  BY DEF LaidOut, Has
<1> QED BY <1>1 DEF Index

LEMMA LayThoughts ==
    ASSUME NEW t, NEW bs, NEW n, n = 0,
           LongerBy(t, bs, n, [kind |-> "think", index |-> 0, open |-> TRUE])
    PROVE  LaidOut(t, n + 1, FALSE)
BY DEF LaidOut, LongerBy

LEMMA LayTextIndex ==
    ASSUME NEW bs, NEW n, LaidOut(bs, n, TRUE), Len(bs) = n, ~Has(bs, "text")
    PROVE  Index(bs) = n /\ n \in {0, 1}
<1>1. \A i \in 1 .. n : bs[i].kind = "think" /\ i = 1 /\ ~bs[i].open
  BY DEF LaidOut, Has
<1>2. n # 2
  <2> SUFFICES ASSUME n = 2 PROVE FALSE
    OBVIOUS
  <2>1. 2 \in 1 .. n
    OBVIOUS
  <2> QED BY <1>1, <2>1
<1>3. n \in {0, 1}
  BY <1>2 DEF LaidOut
<1>4. CASE n = 0
  BY <1>4 DEF Index
<1>5. CASE n = 1
  <2>1. 1 \in 1 .. Len(bs) /\ bs[1].kind = "think" /\ ~bs[1].open
    BY <1>1, <1>5
  <2> QED BY <1>5, <2>1 DEF Index
<1> QED BY <1>3, <1>4, <1>5

LEMMA LayText ==
    ASSUME NEW bs, NEW t, NEW n,
           LaidOut(bs, n, TRUE), n \in {0, 1}, Len(bs) = n, ~Has(bs, "text"),
           LongerBy(t, bs, n, [kind |-> "text", index |-> n, open |-> TRUE])
    PROVE  LaidOut(t, n + 1, TRUE)
BY DEF LaidOut, LongerBy, Has

LEMMA IndexText ==
    ASSUME NEW bs, NEW n, LaidOut(bs, n, TRUE), Len(bs) = n, Has(bs, "text")
    PROVE  n \in {1, 2} /\ Index(bs) + 1 = n
<1>1. PICK j \in 1 .. n : bs[j].kind = "text" /\ j = n
  BY DEF LaidOut, Has
<1>2. n \in {1, 2}
  BY <1>1 DEF LaidOut
<1>3. CASE n = 1
  <2>1. \A i \in 1 .. Len(bs) : bs[i].kind # "think"
    BY <1>1, <1>3
  <2> QED BY <1>3, <2>1 DEF Index
<1>4. CASE n = 2
  <2>1. 1 \in 1 .. Len(bs) /\ bs[1].kind = "think" /\ ~bs[1].open
    BY <1>4 DEF LaidOut
  <2> QED BY <1>4, <2>1 DEF Index
<1> QED BY <1>2, <1>3, <1>4

LEMMA LayNoText ==
    ASSUME NEW bs, NEW n, LaidOut(bs, n, TRUE), Len(bs) = n, ~Has(bs, "text")
    PROVE  Closed(bs, n)
BY DEF LaidOut, Has, Closed

LEMMA LayBothClosed ==
    ASSUME NEW bs, NEW t, NEW u, NEW n, NEW s \in BOOLEAN,
           LaidOut(bs, n, s), ShutFrom(t, bs, n, "think"),
           ShutFrom(u, t, n, "text")
    PROVE  Closed(u, n)
BY DEF LaidOut, ShutFrom, Closed

LEMMA LayShutText ==
    ASSUME NEW bs, NEW t, NEW n, LaidOut(bs, n, TRUE),
           ShutFrom(t, bs, n, "text")
    PROVE  LaidOut(t, n, TRUE) /\ Closed(t, n)
BY DEF LaidOut, ShutFrom, Closed

LEMMA CallsClosed ==
    ASSUME NEW bs, NEW t, NEW u, NEW n \in Nat, Closed(bs, n),
           LongerBy(t, bs, n, [kind |-> "calls", index |-> n, open |-> TRUE]),
           ShutFrom(u, t, n + 1, "calls")
    PROVE  Closed(u, n + 1)
BY DEF Closed, LongerBy, ShutFrom

LEMMA LayTidy ==
    ASSUME NEW bs, NEW n, LaidOut(bs, n, TRUE) PROVE Tidy(bs, n)
BY DEF LaidOut, Tidy

LEMMA CallsTidy ==
    ASSUME NEW bs, NEW t, NEW u, NEW n \in Nat, NEW m, Tidy(bs, n),
           LongerBy(t, bs, n, [kind |-> "calls", index |-> m, open |-> TRUE]),
           ShutFrom(u, t, n + 1, "calls")
    PROVE  Tidy(u, n + 1)
BY DEF Tidy, LongerBy, ShutFrom

LEMMA IndexType == ASSUME NEW bs PROVE Index(bs) \in {0, 1}
BY DEF Index

LEMMA EnsuredType ==
    ASSUME NEW bs \in Seq(Block), NEW k \in {"think", "text", "calls"}
    PROVE  Ensured(bs, k) \in Seq(Block)
<1>1. CASE Has(bs, k) \/ ~Framed
  BY <1>1 DEF Ensured, Begun
<1>2. CASE ~Has(bs, k) /\ Framed
  <2>1. Ensured(bs, k) = Begun(bs, k, Index(bs)) /\ Index(bs) \in Nat
    BY <1>2, IndexType DEF Ensured
  <2> QED BY <1>2, <2>1, BegunProperties
<1> QED BY <1>1, <1>2

LEMMA WithCallsType ==
    ASSUME NEW bs \in Seq(Block), NEW n \in Nat
    PROVE  WithCalls(bs, n) \in Seq(Block)
<1>1. Begun(bs, "calls", n) \in Seq(Block)
  <2>1. CASE Framed
    BY <2>1, BegunProperties
  <2>2. CASE ~Framed
    BY <2>2 DEF Begun
  <2> QED BY <2>1, <2>2
<1> QED BY <1>1, ShutProperties DEF WithCalls

LEMMA ShutEmpty == ASSUME NEW k PROVE Shut(<<>>, k) = <<>>
BY EmptySeq DEF Shut

LEMMA HasShut ==
    ASSUME NEW bs \in Seq(Block), NEW k, NEW x
    PROVE  Has(Shut(bs, k), x) <=> Has(bs, x)
<1>1. Len(Shut(bs, k)) = Len(bs) /\ ShutFrom(Shut(bs, k), bs, Len(bs), k)
  BY ShutProperties
<1>2. \A n, t : Len(t) = n /\ Len(bs) = n /\ ShutFrom(t, bs, n, k) =>
                   (Has(t, x) <=> Has(bs, x))
  BY DEF ShutFrom, Has
<1> QED BY <1>1, <1>2, Zenon

LEMMA HasBegun ==
    ASSUME NEW bs \in Seq(Block), NEW k \in {"think", "text", "calls"},
           NEW n \in Nat, NEW x, Has(bs, x)
    PROVE  Has(Begun(bs, k, n), x)
<1>1. CASE ~Framed
  BY <1>1 DEF Begun
<1>2. CASE Framed
  <2> DEFINE t == Begun(bs, k, n)
             b == [kind |-> k, index |-> n, open |-> TRUE]
  <2>1. Len(t) = Len(bs) + 1 /\ LongerBy(t, bs, Len(bs), b) /\ Len(bs) \in Nat
    BY <1>2, BegunProperties, LenProperties
  <2>2. \A u, d : \A m \in Nat :
           Len(u) = m + 1 /\ Len(bs) = m /\ LongerBy(u, bs, m, d) => Has(u, x)
    BY DEF LongerBy, Has
  <2> HIDE DEF t, b
  <2>3. Has(t, x)
    BY <2>1, <2>2, Zenon
  <2> QED BY <2>3 DEF t
<1> QED BY <1>1, <1>2

LEMMA HasWithCalls ==
    ASSUME NEW bs \in Seq(Block), NEW n \in Nat, NEW x, Has(bs, x)
    PROVE  Has(WithCalls(bs, n), x)
<1>1. Begun(bs, "calls", n) \in Seq(Block)
  <2>1. CASE Framed
    BY <2>1, BegunProperties
  <2>2. CASE ~Framed
    BY <2>2 DEF Begun
  <2> QED BY <2>1, <2>2
<1>2. Has(Begun(bs, "calls", n), x)
  BY HasBegun
<1> QED BY <1>1, <1>2, HasShut DEF WithCalls

(* A block of calls begun behind closed blocks, at the index that is next, *)
(* leaves all closed.                                                      *)
LEMMA WithCallsClosed ==
    ASSUME NEW bs \in Seq(Block), Closed(bs, Len(bs)), ~Framed => bs = <<>>,
           NEW n \in Nat, n = Len(bs)
    PROVE  Closed(WithCalls(bs, n), Len(WithCalls(bs, n)))
<1>1. CASE ~Framed
  <2>1. WithCalls(bs, n) = <<>>
    BY <1>1, ShutEmpty DEF WithCalls, Begun
  <2> QED BY <2>1, EmptySeq DEF Closed
<1>2. CASE Framed
  <2> DEFINE t == Begun(bs, "calls", n)
             u == Shut(t, "calls")
             b == [kind |-> "calls", index |-> n, open |-> TRUE]
  <2>1. /\ t \in Seq(Block) /\ Len(t) = n + 1
        /\ LongerBy(t, bs, n, b)
    BY <1>2, BegunProperties
  <2> HIDE DEF t
  <2>2. Len(u) = n + 1 /\ ShutFrom(u, t, n + 1, "calls")
    BY <2>1, ShutProperties
  <2> HIDE DEF u
  <2>3. Closed(u, n + 1)
    BY <2>1, <2>2, CallsClosed
  <2> QED BY <2>2, <2>3 DEF WithCalls, u, t
<1> QED BY <1>1, <1>2

LEMMA WithCallsTidy ==
    ASSUME NEW bs \in Seq(Block), Tidy(bs, Len(bs)), Framed, NEW m \in Nat
    PROVE  Tidy(WithCalls(bs, m), Len(WithCalls(bs, m)))
<1> DEFINE n == Len(bs)
           t == Begun(bs, "calls", m)
           u == Shut(t, "calls")
           b == [kind |-> "calls", index |-> m, open |-> TRUE]
<1>1. n \in Nat
  BY LenProperties
<1>2. t \in Seq(Block) /\ Len(t) = n + 1 /\ LongerBy(t, bs, n, b)
  BY BegunProperties
<1> HIDE DEF t
<1>3. Len(u) = n + 1 /\ ShutFrom(u, t, n + 1, "calls")
  BY <1>2, ShutProperties
<1> HIDE DEF u
<1>4. Tidy(u, n + 1)
  BY <1>1, <1>2, <1>3, CallsTidy
<1> QED BY <1>3, <1>4 DEF WithCalls, u, t

(* The first piece of text closes the thoughts and begins a block behind   *)
(* them.                                                                   *)
LEMMA ShutLaidOut ==
    ASSUME NEW bs \in Seq(Block), NEW s \in BOOLEAN, LaidOut(bs, Len(bs), s)
    PROVE  LET t == Shut(bs, "think")
           IN t \in Seq(Block) /\ Len(t) = Len(bs) /\ LaidOut(t, Len(t), TRUE)
<1> DEFINE t == Shut(bs, "think")
<1>1. t \in Seq(Block) /\ Len(t) = Len(bs) /\ ShutFrom(t, bs, Len(bs), "think")
  BY ShutProperties
<1> HIDE DEF t
<1>2. \A n : LaidOut(bs, n, s) /\ ShutFrom(t, bs, n, "think") =>
                LaidOut(t, n, TRUE)
  BY LayShut
<1>3. LaidOut(t, Len(bs), TRUE)
  BY <1>1, <1>2, Zenon
<1> QED BY <1>1, <1>3 DEF t

LEMMA TextLaidOut ==
    ASSUME NEW t \in Seq(Block), LaidOut(t, Len(t), TRUE), NEW safe
    PROVE  LET u == WithText(t, safe)
           IN u \in Seq(Block) /\ LaidOut(u, Len(u), TRUE)
<1>1. CASE safe = <<>> \/ Has(t, "text") \/ ~Framed
  <2>1. WithText(t, safe) = t
    BY <1>1 DEF WithText, Ensured, Begun
  <2> QED BY <2>1
<1>2. CASE safe # <<>> /\ ~Has(t, "text") /\ Framed
  <2> DEFINE n == Len(t)
             u == Begun(t, "text", n)
  <2>1. Index(t) = n /\ n \in {0, 1}
    BY <1>2, LayTextIndex
  <2>2. WithText(t, safe) = u
    BY <1>2, <2>1 DEF WithText, Ensured
  <2>3. n \in Nat
    BY <2>1
  <2>4. /\ u \in Seq(Block) /\ Len(u) = n + 1
        /\ LongerBy(u, t, n, [kind |-> "text", index |-> n, open |-> TRUE])
    BY <1>2, <2>3, BegunProperties
  <2> HIDE DEF u
  <2>5. LaidOut(u, n + 1, TRUE)
    BY <1>2, <2>1, <2>4, LayText
  <2> QED BY <2>2, <2>4, <2>5
<1> QED BY <1>1, <1>2

-----------------------------------------------------------------------------
(* What else is sent.                                                      *)

LEMMA LongerMarks ==
    ASSUME NEW t, NEW s, NEW e, NEW n \in Nat,
           Len(t) = n + 1, Len(s) = n, LongerBy(t, s, n, e)
    PROVE  /\ \A x : Contains(t, x) <=> Contains(s, x) \/ x = e
           /\ (\A i \in 1 .. Len(s) : s[i] \in Running) /\ e \in Running =>
                 \A i \in 1 .. Len(t) : t[i] \in Running
<1>1. \A i \in 1 .. n + 1 : i \in 1 .. n \/ i = n + 1
  OBVIOUS
<1>2. n + 1 \in 1 .. n + 1 /\ \A i \in 1 .. n : i \in 1 .. n + 1
  OBVIOUS
<1> QED BY <1>1, <1>2 DEF Contains, LongerBy

LEMMA MarkAdded ==
    ASSUME NEW ms \in Seq(StreamMark), NEW e \in StreamMark
    PROVE  /\ Append(ms, e) \in Seq(StreamMark)
           /\ \A x : Contains(Append(ms, e), x) <=> Contains(ms, x) \/ x = e
           /\ (\A i \in 1 .. Len(ms) : ms[i] \in Running) /\ e \in Running =>
                 \A i \in 1 .. Len(Append(ms, e)) : Append(ms, e)[i] \in Running
<1>1. /\ Append(ms, e) \in Seq(StreamMark)
      /\ Len(Append(ms, e)) = Len(ms) + 1
      /\ \A i \in 1 .. Len(ms) : Append(ms, e)[i] = ms[i]
      /\ Append(ms, e)[Len(ms) + 1] = e
      /\ Len(ms) \in Nat
  BY AppendProperties, LenProperties
<1>2. LongerBy(Append(ms, e), ms, Len(ms), e)
  BY <1>1, Zenon DEF LongerBy
<1> QED BY <1>1, <1>2, LongerMarks, Zenon

LEMMA JoinedMarks ==
    ASSUME NEW t, NEW s, NEW r, NEW m \in Nat, NEW n \in Nat,
           Joined(t, s, m, r, n), NEW x
    PROVE  Contains(t, x) <=> Contains(s, x) \/ Contains(r, x)
<1>1. /\ Len(t) = m + n /\ Len(s) = m /\ Len(r) = n
      /\ \A i \in 1 .. m : i \in 1 .. m + n /\ t[i] = s[i]
      /\ \A i \in 1 .. n : m + i \in 1 .. m + n /\ t[m + i] = r[i]
  BY DEF Joined
<1>2. \A i \in 1 .. m + n : i \in 1 .. m \/ \E j \in 1 .. n : i = m + j
  <2> SUFFICES ASSUME NEW i \in 1 .. m + n, ~ (i <= m)
               PROVE  \E j \in 1 .. n : i = m + j
    OBVIOUS
  <2>1. i - m \in 1 .. n /\ i = m + (i - m)
    OBVIOUS
  <2> QED BY <2>1
<1>3. ASSUME Contains(t, x) PROVE Contains(s, x) \/ Contains(r, x)
  <2>1. PICK i \in 1 .. m + n : t[i] = x
    BY <1>1, <1>3 DEF Contains
  <2>2. CASE i \in 1 .. m
    BY <1>1, <2>1, <2>2 DEF Contains
  <2>3. CASE \E j \in 1 .. n : i = m + j
    BY <1>1, <2>1, <2>3 DEF Contains
  <2> QED BY <1>2, <2>2, <2>3
<1>4. ASSUME Contains(s, x) PROVE Contains(t, x)
  BY <1>1, <1>4 DEF Contains
<1>5. ASSUME Contains(r, x) PROVE Contains(t, x)
  BY <1>1, <1>5 DEF Contains
<1> QED BY <1>3, <1>4, <1>5

LEMMA MarksEnd ==
    ASSUME NEW ms \in Seq(StreamMark), NEW e \in Seq(StreamMark)
    PROVE  /\ ms \o e \in Seq(StreamMark)
           /\ Joined(ms \o e, ms, Len(ms), e, Len(e))
           /\ Len(ms) \in Nat /\ Len(e) \in Nat
           /\ \A x : Contains(ms \o e, x) <=> Contains(ms, x) \/ Contains(e, x)
<1>1. ms \o e \in Seq(StreamMark)
  BY ConcatProperties
<1>2. /\ Joined(ms \o e, ms, Len(ms), e, Len(e))
      /\ Len(ms) \in Nat /\ Len(e) \in Nat
  BY ConcatJoins
<1> QED BY <1>1, <1>2, JoinedMarks, Zenon

LEMMA Endings ==
    /\ <<"final", "done">> \in Seq(StreamMark) /\ Len(<<"final", "done">>) = 2
    /\ <<"calls", "final", "done">> \in Seq(StreamMark)
    /\ Len(<<"calls", "final", "done">>) = 3
    /\ \A x : Contains(<<"final", "done">>, x) <=> x \in {"final", "done"}
    /\ \A x : Contains(<<"calls", "final", "done">>, x) <=>
                 x \in {"calls", "final", "done"}
BY DEF StreamMark, Contains

LEMMA NotEnded ==
    ASSUME StreamsTypeOK
    PROVE  phase # "ended" =>
              /\ EndsOnce <=> \A i \in 1 .. Len(marks) : marks[i] \in Running
              /\ EndsOnce => ~Called
<1> SUFFICES ASSUME phase # "ended"
             PROVE  /\ EndsOnce <=> \A i \in 1 .. Len(marks) :
                                       marks[i] \in Running
                    /\ EndsOnce => ~Called
  OBVIOUS
<1>1. marks \in Seq(StreamMark)
  BY DEF StreamsTypeOK
<1>2. Len(marks) \in Nat /\ Len(<<>>) = 0
  BY <1>1, LenProperties, EmptySeq
<1>3. \A n \in Nat : n - 0 = n /\ n >= 0 /\ 1 .. 0 = {}
  OBVIOUS
<1>4. EndsOnce <=> \A i \in 1 .. Len(marks) : marks[i] \in Running
  BY <1>2, <1>3 DEF EndsOnce, Running
<1>5. (\A i \in 1 .. Len(marks) : marks[i] \in Running) => ~Called
  BY DEF Called, Contains, Running
<1> QED BY <1>4, <1>5

LEMMA RunningOn ==
    ASSUME phase' # "ended", marks' \in Seq(StreamMark),
           \A i \in 1 .. Len(marks') : marks'[i] \in Running
    PROVE  EndsOnce' /\ ~Called'
<1>1. Len(marks') \in Nat /\ Len(<<>>) = 0
  BY LenProperties, EmptySeq
<1>2. \A n \in Nat : n - 0 = n /\ n >= 0 /\ 1 .. 0 = {}
  OBVIOUS
<1>3. EndsOnce'
  BY <1>1, <1>2 DEF EndsOnce, Running
<1> QED BY <1>3 DEF Called, Contains, Running

(* The two endings: a stream sends either of them once, and nothing of     *)
(* them was sent before.                                                   *)
LEMMA CallsAreLast ==
    ASSUME StreamsTypeOK, EndsOnce, phase # "ended", phase' = "ended",
           marks' = marks \o <<"calls", "final", "done">>
    PROVE  /\ marks' \in Seq(StreamMark) /\ EndsOnce' /\ Called'
           /\ Contains(marks', "late") <=> Contains(marks, "late")
<1> DEFINE e == <<"calls", "final", "done">>
<1>1. /\ marks \in Seq(StreamMark)
      /\ \A i \in 1 .. Len(marks) : marks[i] \in Running
  BY NotEnded DEF StreamsTypeOK
<1>2. /\ e \in Seq(StreamMark) /\ Len(e) = 3
      /\ Contains(e, "calls") /\ ~Contains(e, "late")
  BY Endings
<1> HIDE DEF e
<1>3. /\ marks' \in Seq(StreamMark)
      /\ Joined(marks', marks, Len(marks), e, 3) /\ Len(marks) \in Nat
      /\ \A x : Contains(marks', x) <=> Contains(marks, x) \/ Contains(e, x)
  <2>1. /\ marks \o e \in Seq(StreamMark)
        /\ Joined(marks \o e, marks, Len(marks), e, Len(e))
        /\ Len(marks) \in Nat
        /\ \A x : Contains(marks \o e, x) <=>
                     Contains(marks, x) \/ Contains(e, x)
    BY <1>1, <1>2, MarksEnd
  <2>2. marks' = marks \o e
    BY DEF e
  <2> QED BY <1>2, <2>1, <2>2
<1>4. Called'
  BY <1>2, <1>3 DEF Called
<1>5. Contains(marks', "late") <=> Contains(marks, "late")
  BY <1>2, <1>3, Zenon
<1>6. ASSUME NEW m \in Nat, Joined(marks', marks, m, e, 3)
      PROVE  EndsOnce'
  <2>1. Len(marks') - Len(e) = m /\ Len(marks) = m
    BY <1>6, <1>2 DEF Joined
  <2>2. /\ m >= 0 /\ \A i \in 1 .. m : marks'[i] \in Running
        /\ \A i \in 1 .. Len(e) : marks'[m + i] = e[i]
    BY <1>1, <1>2, <1>6, <2>1 DEF Joined
  <2>3. e = <<"calls", "final", "done">>
    BY DEF e
  <2> QED BY <1>4, <2>1, <2>2, <2>3, Zenon DEF EndsOnce, Running
<1> QED BY <1>3, <1>4, <1>5, <1>6

LEMMA FinalIsLast ==
    ASSUME StreamsTypeOK, EndsOnce, phase # "ended", phase' = "ended",
           marks' = marks \o <<"final", "done">>
    PROVE  /\ marks' \in Seq(StreamMark) /\ EndsOnce' /\ ~Called'
           /\ Contains(marks', "late") <=> Contains(marks, "late")
<1> DEFINE e == <<"final", "done">>
<1>1. /\ marks \in Seq(StreamMark)
      /\ \A i \in 1 .. Len(marks) : marks[i] \in Running
  BY NotEnded DEF StreamsTypeOK
<1>2. /\ e \in Seq(StreamMark) /\ Len(e) = 2
      /\ ~Contains(e, "calls") /\ ~Contains(e, "late")
  BY Endings
<1> HIDE DEF e
<1>3. /\ marks' \in Seq(StreamMark)
      /\ Joined(marks', marks, Len(marks), e, 2) /\ Len(marks) \in Nat
      /\ \A x : Contains(marks', x) <=> Contains(marks, x) \/ Contains(e, x)
  <2>1. /\ marks \o e \in Seq(StreamMark)
        /\ Joined(marks \o e, marks, Len(marks), e, Len(e))
        /\ Len(marks) \in Nat
        /\ \A x : Contains(marks \o e, x) <=>
                     Contains(marks, x) \/ Contains(e, x)
    BY <1>1, <1>2, MarksEnd
  <2>2. marks' = marks \o e
    BY DEF e
  <2> QED BY <1>2, <2>1, <2>2
<1>4. ~Called'
  <2>1. ~Called
    BY NotEnded
  <2> QED BY <1>2, <1>3, <2>1 DEF Called
<1>5. Contains(marks', "late") <=> Contains(marks, "late")
  BY <1>2, <1>3, Zenon
<1>6. ASSUME NEW m \in Nat, Joined(marks', marks, m, e, 2)
      PROVE  EndsOnce'
  <2>1. Len(marks') - Len(e) = m /\ Len(marks) = m
    BY <1>6, <1>2 DEF Joined
  <2>2. /\ m >= 0 /\ \A i \in 1 .. m : marks'[i] \in Running
        /\ \A i \in 1 .. Len(e) : marks'[m + i] = e[i]
    BY <1>1, <1>2, <1>6, <2>1 DEF Joined
  <2>3. e = <<"final", "done">>
    BY DEF e
  <2> QED BY <1>4, <2>1, <2>2, <2>3, Zenon DEF EndsOnce, Running
<1> QED BY <1>3, <1>4, <1>5, <1>6

-----------------------------------------------------------------------------
(* Every step keeps the invariant.                                         *)

LEMMA NothingOpens == ~Opens(<<>>) /\ Leftover(<<>>) = <<>>
<1>1. 1 .. Len(<<>>) - 1 = {}
  BY EmptySeq
<1> QED BY <1>1 DEF Opens, Openings, Leftover

LEMMA SentStays ==
    ASSUME SentInv, UNCHANGED <<fed, forwarded, tools, api>>, Called => Called'
    PROVE  SentInv'
BY DEF SentInv, Framed

LEMMA SieveStays ==
    ASSUME SieveInv, UNCHANGED <<fed, forwarded, tools, sieve>>,
           phase' \in Going => phase \in Going
    PROVE  SieveInv'
BY DEF SieveInv

(* The pieces of text: what the client has been sent once they are fed to  *)
(* the sieve.                                                              *)
LEMMA SentText ==
    ASSUME StreamsInv, NEW chunk \in Chunk, TextChunk(chunk)
    PROVE  /\ fed' \in Seq(Char) /\ forwarded' \in Seq(Char)
           /\ sieve' \in SieveType
           /\ SieveInv' /\ SentInv'
<1>1. /\ StreamsTypeOK /\ SieveInv /\ SentInv /\ EndsOnce
      /\ phase = "streaming" /\ phase' = "streaming"
      /\ tools' = tools /\ api' = api /\ marks' = marks
      /\ fed' = fed \o chunk
  BY DEF StreamsInv, TextChunk
<1>2. chunk \in Seq(Char) /\ chunk # <<>> /\ ~Called
  BY <1>1, ChunkIsText, NotEnded
<1>3. fed \in Seq(Char) /\ forwarded \in Seq(Char) /\ sieve \in SieveType
  BY <1>1 DEF StreamsTypeOK, SieveType
<1>4. CASE ~tools
  <2>1. forwarded' = forwarded \o chunk /\ sieve' = sieve /\ forwarded = fed
    BY <1>1, <1>4 DEF TextChunk, SentInv
  <2>2. fed' \in Seq(Char) /\ forwarded' = fed'
    BY <1>1, <1>2, <1>3, <2>1, ConcatProperties
  <2>3. SieveInv' /\ SentInv'
    BY <1>1, <1>4, <2>2 DEF SieveInv, SentInv
  <2> QED BY <1>3, <2>1, <2>2, <2>3
<1>5. CASE tools
  <2> DEFINE f == Feed(chunk)
  <2>1. forwarded' = forwarded \o f.safe /\ sieve' = f.sieve /\ ~f.found
    BY <1>5 DEF TextChunk
  <2>2. Sifted(f, fed')
    BY <1>1, <1>2, <1>5, ChunkIsSifted
  <2> HIDE DEF f
  <2>3. fed' \in Seq(Char) /\ forwarded' \in Seq(Char) /\ sieve' \in SieveType
    BY <1>3, <2>1, <2>2, ConcatProperties DEF Sifted
  <2>4. CASE ~Opens(fed')
    <3>1. ~sieve'.capturing /\ sieve'.buf = Leftover(fed')
      BY <2>1, <2>2, <2>4, Zenon DEF Sifted
    <3>2. fed' = forwarded' \o Leftover(fed')
      BY <2>1, <2>2, <2>4, Zenon DEF Sifted
    <3> QED BY <1>1, <1>5, <2>3, <2>4, <3>1, <3>2, Zenon DEF SieveInv, SentInv
  <2>5. CASE Opens(fed')
    <3>1. PICK block \in Seq(Char) :
             /\ fed' = forwarded' \o block
             /\ Len(forwarded') = FirstOpening(fed') - 1
             /\ sieve'.capturing /\ sieve'.buf = block
      BY <2>1, <2>2, <2>5, Zenon DEF Sifted
    <3>2. Len(forwarded') < FirstOpening(fed')
      <4>1. FirstOpening(fed') \in Int
        <5>1. Len(fed') \in Nat
          BY <2>3, LenProperties
        <5> QED BY <2>5, <5>1, FirstExists DEF Openings
      <4> QED BY <3>1, <4>1
    <3>3. SieveInv'
      BY <2>5, <3>1, Zenon DEF SieveInv
    <3>4. SentInv'
      BY <1>1, <1>5, <2>5, <3>1, <3>2, Zenon DEF SentInv
    <3> QED BY <2>3, <3>3, <3>4
  <2> QED BY <2>4, <2>5
<1> QED BY <1>4, <1>5

LEMMA SentBlock ==
    ASSUME StreamsInv, NEW chunk \in Chunk, ToolChunk(chunk)
    PROVE  /\ fed' \in Seq(Char) /\ forwarded' \in Seq(Char)
           /\ sieve' \in SieveType
           /\ SieveInv' /\ SentInv'
           /\ Opens(fed')
           /\ Closes(SubSeq(fed', FirstOpening(fed'), Len(fed')))
<1>1. /\ StreamsTypeOK /\ SieveInv /\ SentInv /\ EndsOnce
      /\ phase = "streaming" /\ phase' = "ended" /\ tools
      /\ tools' = tools /\ api' = api
      /\ marks' = marks \o <<"calls", "final", "done">>
      /\ fed' = fed \o chunk
  BY DEF StreamsInv, ToolChunk, EndWithCalls
<1>2. chunk \in Seq(Char) /\ chunk # <<>> /\ ~Called
  BY <1>1, ChunkIsText, NotEnded
<1>3. fed \in Seq(Char) /\ forwarded \in Seq(Char) /\ marks \in Seq(StreamMark)
  BY <1>1 DEF StreamsTypeOK
<1> DEFINE f == Feed(chunk)
<1>4. /\ forwarded' = forwarded \o IF Framed THEN <<>> ELSE f.safe
      /\ sieve' = f.sieve /\ f.found
  BY DEF ToolChunk
<1>5. Sifted(f, fed')
  BY <1>1, <1>2, ChunkIsSifted
<1> HIDE DEF f
<1>6. /\ Opens(fed') /\ fed' \in Seq(Char) /\ f.safe \in Seq(Char)
      /\ sieve' \in SieveType
  BY <1>4, <1>5, Zenon DEF Sifted
<1>7. PICK block \in Seq(Char) :
         /\ fed' = (forwarded \o f.safe) \o block
         /\ Len(forwarded \o f.safe) = FirstOpening(fed') - 1
         /\ Len(block) > 0
         /\ Closes(block)
  BY <1>4, <1>5, <1>6, Zenon DEF Sifted
<1>8. FirstOpening(fed') \in Nat
  <2>1. Len(fed') \in Nat
    BY <1>6, LenProperties
  <2> QED BY <1>6, <2>1, FirstExists DEF Openings
<1>9. Closes(SubSeq(fed', FirstOpening(fed'), Len(fed')))
  <2>1. forwarded \o f.safe \in Seq(Char)
    BY <1>3, <1>6, ConcatProperties
  <2>2. SubSeq(fed', Len(forwarded \o f.safe) + 1, Len(fed')) = block
    BY <1>7, <2>1, RearOfConcat
  <2>3. Len(forwarded \o f.safe) + 1 = FirstOpening(fed')
    BY <1>7, <1>8
  <2> QED BY <1>7, <2>2, <2>3
<1>10. SieveInv'
  BY <1>1 DEF SieveInv, Going
<1>11. Called'
  BY <1>1, CallsAreLast
<1>12. CASE Framed
  <2>1. forwarded' = forwarded
    BY <1>3, <1>4, <1>12, ConcatEmptySeq
  <2>2. f.safe \o block \in Seq(Char)
    BY <1>6, <1>7, ConcatProperties
  <2>3. forwarded \in Seq(Char) /\ f.safe \in Seq(Char) /\ block \in Seq(Char)
    BY <1>3, <1>6, <1>7
  <2>4. (forwarded \o f.safe) \o block = forwarded \o (f.safe \o block)
    BY <2>3, TextAssociative, Zenon
  <2>5. fed' = forwarded' \o (f.safe \o block)
    BY <1>7, <2>1, <2>4, Zenon
  <2>6. Len(forwarded') < FirstOpening(fed')
    <3>1. Len(forwarded \o f.safe) = Len(forwarded) + Len(f.safe)
      BY <1>3, <1>6, ConcatProperties
    <3>2. Len(forwarded) \in Nat /\ Len(f.safe) \in Nat
      BY <1>3, <1>6, LenProperties
    <3>3. \A a, b, c \in Nat : a + b = c - 1 => a < c
      OBVIOUS
    <3> QED BY <1>7, <1>8, <2>1, <3>1, <3>2, <3>3, Zenon
  <2>7. Framed'
    BY <1>1, <1>12 DEF Framed
  <2>8. SentInv'
    BY <1>1, <1>6, <1>11, <2>2, <2>5, <2>6, <2>7, Zenon DEF SentInv
  <2> QED BY <1>3, <1>6, <1>9, <1>10, <2>1, <2>8
<1>13. CASE ~Framed
  <2>1. forwarded' = forwarded \o f.safe
    BY <1>4, <1>13
  <2>2. forwarded' \in Seq(Char)
    BY <1>3, <1>6, <2>1, ConcatProperties
  <2>3. fed' = forwarded' \o block /\ Len(forwarded') = FirstOpening(fed') - 1
    BY <1>7, <2>1, Zenon
  <2>4. Len(forwarded') < FirstOpening(fed')
    BY <1>8, <2>3
  <2>5. SentInv'
    BY <1>1, <1>6, <1>7, <2>3, <2>4, Zenon DEF SentInv
  <2> QED BY <1>6, <1>9, <1>10, <2>2, <2>5
<1> QED BY <1>12, <1>13

LEMMA BeginKeeps == ASSUME StreamsInv, BeginAttempt PROVE StreamsInv'
<1>1. /\ StreamsTypeOK /\ SieveInv /\ SentInv /\ StartInv /\ ChatInv /\ ShapeInv
      /\ EndsOnce /\ BlocksClose
      /\ phase = "new" /\ phase' \in {"streaming", "failed"}
      /\ phase' = "streaming" => marks' = IF Framed THEN <<"start">> ELSE <<>>
      /\ phase' = "failed" => marks' = marks
      /\ UNCHANGED <<api, tools, tries, sieve, started, held, blocks, forwarded,
                     fed>>
  BY DEF StreamsInv, BeginAttempt
<1>2. /\ fed = <<>> /\ forwarded = <<>> /\ blocks = <<>> /\ marks = <<>>
      /\ ~started
  BY <1>1 DEF StartInv
<1>3. /\ marks' \in Seq(StreamMark)
      /\ \A i \in 1 .. Len(marks') : marks'[i] \in Running
  <2>1. /\ <<"start">> \in Seq(StreamMark) /\ Len(<<"start">>) = 1
        /\ <<"start">>[1] = "start"
    BY DEF StreamMark
  <2>2. <<>> \in Seq(StreamMark) /\ Len(<<>>) = 0
    BY EmptySeq
  <2>3. marks' \in {<<>>, <<"start">>}
    BY <1>1, <1>2
  <2>4. CASE marks' = <<>>
    BY <2>2, <2>4
  <2>5. CASE marks' = <<"start">>
    BY <2>1, <2>5 DEF Running
  <2> QED BY <2>3, <2>4, <2>5
<1>4. StreamsTypeOK'
  BY <1>1, <1>3 DEF StreamsTypeOK, StreamPhase
<1>5. EndsOnce' /\ ~Called'
  <2>1. phase' # "ended"
    BY <1>1
  <2> QED BY <1>3, <2>1, RunningOn
<1>6. SentInv' /\ SieveInv'
  <2>1. ~Opens(fed)
    BY <1>2, NothingOpens
  <2> QED BY <1>1, <2>1 DEF SentInv, SieveInv, Going
<1>7. StartInv'
  BY <1>1 DEF StartInv
<1>8. ShapeInv'
  <2>1. LaidOut(blocks', Len(blocks'), fed' # <<>>)
    BY <1>1, <1>2, EmptySeq DEF LaidOut
  <2> QED BY <2>1 DEF ShapeInv
<1>9. BlocksClose'
  BY <1>1 DEF BlocksClose
<1>10. ChatInv'
  BY <1>1 DEF ChatInv, Framed
<1> QED BY <1>4, <1>5, <1>6, <1>7, <1>8, <1>9, <1>10 DEF StreamsInv

LEMMA ThoughtsKeep ==
    ASSUME StreamsInv, phase = "streaming",
           phase' \in {"streaming", "stopping"},
           held' \in BOOLEAN,
           UNCHANGED <<api, tools, tries, sieve, started, forwarded, fed>>,
           blocks' = Ensured(blocks, "think"),
           \/ marks' = Append(marks, "think") /\ ~started
           \/ marks' = Append(marks, "late")
    PROVE  StreamsInv'
<1>1. /\ StreamsTypeOK /\ SieveInv /\ SentInv /\ StartInv /\ ChatInv /\ ShapeInv
      /\ EndsOnce /\ BlocksClose
  BY DEF StreamsInv
<1>2. marks \in Seq(StreamMark) /\ blocks \in Seq(Block)
  BY <1>1 DEF StreamsTypeOK
<1>3. PICK e \in {"think", "late"} : marks' = Append(marks, e)
                                    /\ (e = "think" => ~started)
  OBVIOUS
<1>4. /\ marks' \in Seq(StreamMark)
      /\ \A x : Contains(marks', x) <=> Contains(marks, x) \/ x = e
      /\ \A i \in 1 .. Len(marks') : marks'[i] \in Running
  <2>1. \A i \in 1 .. Len(marks) : marks[i] \in Running
    BY <1>1, NotEnded
  <2>2. e \in StreamMark /\ e \in Running
    BY DEF StreamMark, Running
  <2> QED BY <1>2, <1>3, <2>1, <2>2, MarkAdded
<1>5. blocks' \in Seq(Block)
  BY <1>2, EnsuredType
<1>6. StreamsTypeOK'
  BY <1>1, <1>4, <1>5 DEF StreamsTypeOK, StreamPhase
<1>7. EndsOnce'
  <2>1. phase' # "ended"
    OBVIOUS
  <2> QED BY <1>4, <2>1, RunningOn
<1>8. SentInv' /\ SieveInv'
  <2>1. Called => Called'
    BY <1>4 DEF Called
  <2> QED BY <1>1, <2>1, SentStays, SieveStays DEF Going
<1>9. StartInv'
  BY <1>1 DEF StartInv
<1>10. ShapeInv'
  <2> SUFFICES ASSUME Contains(marks', "late") => fed = <<>>
               PROVE  LaidOut(blocks', Len(blocks'), fed # <<>>)
    BY DEF ShapeInv
  <2>1. fed = <<>>
    BY <1>1, <1>3, <1>4 DEF StartInv
  <2>2. LaidOut(blocks, Len(blocks), FALSE)
    <3>1. LaidOut(blocks, Len(blocks), fed # <<>>)
      BY <1>1, <2>1 DEF ShapeInv, Going
    <3>2. (fed # <<>>) = FALSE
      BY <2>1
    <3> QED BY <3>1, <3>2, Zenon
  <2>3. LaidOut(blocks', Len(blocks'), FALSE)
    <3>1. CASE Has(blocks, "think") \/ ~Framed
      BY <2>2, <3>1 DEF Ensured, Begun
    <3>2. CASE ~Has(blocks, "think") /\ Framed
      <4> DEFINE n == Len(blocks)
                 t == Begun(blocks, "think", 0)
      <4>1. n = 0 /\ Index(blocks) = 0
        BY <2>2, <3>2, LayThoughtsIndex
      <4>2. blocks' = t
        BY <3>2, <4>1 DEF Ensured
      <4>3. /\ Len(t) = n + 1
            /\ LongerBy(t, blocks, n,
                        [kind |-> "think", index |-> 0, open |-> TRUE])
        BY <1>2, <3>2, BegunProperties
      <4> HIDE DEF t
      <4>4. LaidOut(t, n + 1, FALSE)
        BY <3>2, <4>1, <4>3, LayThoughts
      <4> QED BY <4>2, <4>3, <4>4
    <3> QED BY <3>1, <3>2
  <2>4. (fed # <<>>) = FALSE
    BY <2>1
  <2> QED BY <2>3, <2>4, Zenon
<1>11. BlocksClose'
  BY DEF BlocksClose
<1>12. ChatInv'
  BY <1>1 DEF ChatInv, Framed, Ensured, Begun
<1> QED BY <1>6, <1>7, <1>8, <1>9, <1>10, <1>11, <1>12 DEF StreamsInv

LEMMA ThinkKeeps == ASSUME StreamsInv, Think PROVE StreamsInv'
<1>1. /\ phase = "streaming" /\ phase' = "streaming" /\ ~started
      /\ UNCHANGED <<api, tools, tries, sieve, started, forwarded, fed>>
  BY DEF Think
<1>2. CASE HoldBack
  <2>1. UNCHANGED <<api, tools, phase, tries, sieve, started, forwarded, fed,
                    blocks, marks>> /\ held' = TRUE
    BY <1>2 DEF Think, HoldBack
  <2>2. Called' = Called
    BY <2>1 DEF Called
  <2>3. StreamsTypeOK'
    BY <2>1 DEF StreamsInv, StreamsTypeOK
  <2>4. SieveInv' /\ SentInv'
    BY <2>1, <2>2, SieveStays, SentStays DEF StreamsInv
  <2>5. StartInv'
    BY <2>1 DEF StreamsInv, StartInv
  <2>6. ShapeInv'
    BY <2>1 DEF StreamsInv, ShapeInv
  <2>7. EndsOnce'
    BY <2>1, <2>2 DEF StreamsInv, EndsOnce
  <2>8. BlocksClose'
    BY <1>1 DEF BlocksClose
  <2>9. ChatInv'
    BY <2>1 DEF StreamsInv, ChatInv, Framed
  <2> QED BY <2>3, <2>4, <2>5, <2>6, <2>7, <2>8, <2>9 DEF StreamsInv
<1>3. CASE PassOn
  <2>1. /\ held' = FALSE /\ blocks' = Ensured(blocks, "think")
        /\ marks' = Append(marks, "think")
    BY <1>3 DEF PassOn
  <2> QED BY <1>1, <2>1, ThoughtsKeep
<1> QED BY <1>2, <1>3 DEF Think

LEMMA SoftStopKeeps == ASSUME StreamsInv, SoftStop PROVE StreamsInv'
BY ThoughtsKeep DEF SoftStop

LEMMA EmptyKeeps == ASSUME StreamsInv, EmptyToken PROVE StreamsInv'
<1>1. /\ phase = "streaming" /\ started' = TRUE
      /\ UNCHANGED <<api, tools, phase, tries, sieve, held, blocks, marks,
                     forwarded, fed>>
  BY DEF EmptyToken
<1>2. Called' = Called /\ Framed' = Framed
  BY <1>1 DEF Called, Framed
<1>3. StreamsTypeOK' /\ StartInv' /\ ChatInv' /\ ShapeInv'
  BY <1>1, <1>2 DEF StreamsInv, StreamsTypeOK, StartInv, ChatInv, ShapeInv
<1>4. SieveInv' /\ SentInv'
  BY <1>1, <1>2, SieveStays, SentStays DEF StreamsInv
<1>5. EndsOnce' /\ BlocksClose'
  BY <1>1, <1>2 DEF StreamsInv, EndsOnce, BlocksClose
<1> QED BY <1>3, <1>4, <1>5 DEF StreamsInv

LEMMA TextKeeps ==
    ASSUME StreamsInv, NEW chunk \in Chunk, TextChunk(chunk)
    PROVE  StreamsInv'
<1>1. /\ StreamsTypeOK /\ StartInv /\ ChatInv /\ ShapeInv /\ EndsOnce
      /\ phase = "streaming" /\ started' = TRUE
      /\ UNCHANGED <<api, tools, phase, tries, held, marks>>
  BY DEF StreamsInv, TextChunk
<1>2. PICK safe : blocks' = WithText(Shut(blocks, "think"), safe)
  BY DEF TextChunk
<1>3. blocks \in Seq(Block)
  BY <1>1 DEF StreamsTypeOK
<1>4. blocks' \in Seq(Block)
  <2>1. Shut(blocks, "think") \in Seq(Block)
    BY <1>3, ShutProperties
  <2> QED BY <1>2, <2>1, EnsuredType DEF WithText
<1>5. StreamsTypeOK'
  BY <1>1, <1>4, SentText DEF StreamsTypeOK, SieveType
<1>6. SieveInv' /\ SentInv'
  BY SentText
<1>7. StartInv'
  BY <1>1 DEF StartInv
<1>8. ChatInv'
  <2> SUFFICES ASSUME ~Framed PROVE blocks' = <<>>
    BY <1>1 DEF ChatInv, Framed
  <2>1. Shut(blocks, "think") = <<>>
    BY <1>1, ShutEmpty DEF ChatInv
  <2> QED BY <1>2, <2>1 DEF WithText, Ensured, Begun
<1>12. fed' # <<>>
  <2>1. fed' = fed \o chunk /\ fed \in Seq(Char)
    BY <1>1 DEF TextChunk, StreamsTypeOK
  <2> QED BY <2>1, ChunkIsText, LongerText
<1>9. ShapeInv'
  <2> SUFFICES ASSUME ~Contains(marks, "late")
               PROVE  LaidOut(blocks', Len(blocks'), TRUE)
    <3>1. fed' # <<>>
      BY <1>1, <1>12
    <3>2. (fed' # <<>>) = TRUE
      BY <3>1
    <3>3. LaidOut(blocks', Len(blocks'), TRUE) =>
             LaidOut(blocks', Len(blocks'), fed' # <<>>)
      BY <3>2, Zenon
    <3> QED BY <1>1, <3>1, <3>3 DEF ShapeInv
  <2>1. LaidOut(blocks, Len(blocks), fed # <<>>)
    BY <1>1 DEF ShapeInv, Going
  <2> DEFINE s == fed # <<>>
  <2>2. s \in BOOLEAN /\ LaidOut(blocks, Len(blocks), s)
    BY <2>1
  <2> HIDE DEF s
  <2> QED BY <1>2, <1>3, <2>2, ShutLaidOut, TextLaidOut
<1>10. EndsOnce'
  BY <1>1 DEF EndsOnce, Called
<1>11. BlocksClose'
  BY <1>1 DEF BlocksClose
<1> QED BY <1>5, <1>6, <1>7, <1>8, <1>9, <1>10, <1>11 DEF StreamsInv

LEMMA ToolKeeps ==
    ASSUME StreamsInv, NEW chunk \in Chunk, ToolChunk(chunk)
    PROVE  StreamsInv'
<1> DEFINE b0 == Shut(blocks, "think")
<1>1. /\ StreamsTypeOK /\ StartInv /\ ChatInv /\ ShapeInv /\ EndsOnce
      /\ phase = "streaming" /\ phase' = "ended" /\ started' = TRUE
      /\ blocks' \in {b0, WithCalls(b0, Index(b0))}
      /\ marks' = marks \o <<"calls", "final", "done">>
      /\ UNCHANGED <<api, tools, tries, held>>
  BY DEF StreamsInv, ToolChunk, Parsed, EndWithCalls
<1>2. /\ fed' \in Seq(Char) /\ forwarded' \in Seq(Char) /\ sieve' \in SieveType
      /\ SieveInv' /\ SentInv'
      /\ Opens(fed') /\ Closes(SubSeq(fed', FirstOpening(fed'), Len(fed')))
  BY SentBlock
<1>3. /\ marks' \in Seq(StreamMark) /\ EndsOnce' /\ Called'
      /\ Contains(marks', "late") <=> Contains(marks, "late")
  BY <1>1, CallsAreLast
<1>4. blocks \in Seq(Block) /\ b0 \in Seq(Block) /\ Index(b0) \in Nat
  <2>1. blocks \in Seq(Block)
    BY <1>1 DEF StreamsTypeOK
  <2>2. Index(b0) \in Nat
    BY IndexType
  <2> QED BY <2>1, <2>2, ShutProperties
<1>5. blocks' \in Seq(Block)
  BY <1>1, <1>4, WithCallsType
<1>6. StreamsTypeOK'
  BY <1>1, <1>2, <1>3, <1>5 DEF StreamsTypeOK, SieveType, StreamPhase
<1>7. StartInv' /\ ShapeInv'
  BY <1>1 DEF StartInv, ShapeInv, Going
<1>8. ~Framed => b0 = <<>>
  BY <1>1, ShutEmpty DEF ChatInv
<1>9. ChatInv'
  <2> SUFFICES ASSUME ~Framed PROVE blocks' = <<>>
    BY <1>1 DEF ChatInv, Framed
  <2>1. WithCalls(b0, Index(b0)) = <<>>
    BY <1>8, ShutEmpty DEF WithCalls, Begun
  <2> QED BY <1>1, <1>8, <2>1
<1>11. /\ Framed' = Framed /\ fed' # <<>>
       /\ CallsBehindText' <=> Has(blocks', "text")
  <2>1. ~CutOff'
    BY <1>2 DEF CutOff
  <2>2. fed' # <<>>
    BY <1>2, NothingOpens
  <2> QED BY <1>1, <1>3, <2>1, <2>2 DEF CallsBehindText, Framed
<1>10. BlocksClose'
  <2> SUFFICES ASSUME ~Contains(marks, "late")
               PROVE  \/ Closed(blocks', Len(blocks'))
                      \/ /\ Tidy(blocks', Len(blocks'))
                         /\ Has(blocks', "text")
    BY <1>3, <1>11, Zenon DEF BlocksClose, Closed, Tidy
  <2> DEFINE s == fed # <<>>
  <2>1. s \in BOOLEAN /\ LaidOut(blocks, Len(blocks), s)
    BY <1>1 DEF ShapeInv, Going
  <2> HIDE DEF s
  <2>2. LaidOut(b0, Len(b0), TRUE)
    BY <1>4, <2>1, ShutLaidOut
  <2> HIDE DEF b0
  <2>3. CASE ~Has(b0, "text")
    <3>1. Closed(b0, Len(b0)) /\ Index(b0) = Len(b0)
      BY <2>2, <2>3, LayNoText, LayTextIndex
    <3>2. Closed(WithCalls(b0, Index(b0)), Len(WithCalls(b0, Index(b0))))
      BY <1>4, <1>8, <3>1, WithCallsClosed
    <3> QED BY <1>1, <3>1, <3>2
  <2>4. CASE Has(b0, "text")
    <3>1. Tidy(b0, Len(b0))
      BY <2>2, LayTidy
    <3>2. /\ Tidy(WithCalls(b0, Index(b0)), Len(WithCalls(b0, Index(b0))))
          /\ Has(WithCalls(b0, Index(b0)), "text")
      <4>1. Framed
        BY <1>8, <2>4, EmptySeq DEF Has
      <4> QED BY <1>4, <2>4, <3>1, <4>1, WithCallsTidy, HasWithCalls
    <3> QED BY <1>1, <2>4, <3>1, <3>2
  <2> QED BY <2>3, <2>4
<1> QED BY <1>2, <1>3, <1>6, <1>7, <1>9, <1>10 DEF StreamsInv

LEMMA FlushKeeps == ASSUME StreamsInv, FlushCalls PROVE StreamsInv'
<1> DEFINE text == api = "messages" /\ Has(blocks, "text")
           bs == IF text THEN Shut(blocks, "text") ELSE blocks
           n == Index(bs) + IF text THEN 1 ELSE 0
<1>1. /\ StreamsTypeOK /\ SieveInv /\ SentInv /\ StartInv /\ ChatInv /\ ShapeInv
      /\ EndsOnce
      /\ phase \in {"streaming", "stopping"} /\ phase' = "ended"
      /\ tools /\ sieve.capturing
      /\ blocks' = WithCalls(bs, n)
      /\ marks' = marks \o <<"calls", "final", "done">>
      /\ sieve' = [Empty EXCEPT !.done = TRUE]
      /\ UNCHANGED <<api, tools, tries, started, held, forwarded, fed>>
  BY DEF StreamsInv, FlushCalls, EndWithCalls, Reading, Flushable
<1>2. /\ marks' \in Seq(StreamMark) /\ EndsOnce' /\ Called'
      /\ Contains(marks', "late") <=> Contains(marks, "late")
  BY <1>1, CallsAreLast
<1>3. blocks \in Seq(Block) /\ started \in BOOLEAN
  BY <1>1 DEF StreamsTypeOK
<1>4. bs \in Seq(Block) /\ n \in Nat
  <2>1. Index(bs) \in {0, 1}
    BY IndexType
  <2>2. n \in Nat
    BY <2>1
  <2> QED BY <1>3, <2>2, ShutProperties
<1>5. blocks' \in Seq(Block)
  BY <1>1, <1>4, WithCallsType
<1>6. sieve' \in SieveType
  BY <1>1, SievesAre
<1>7. StreamsTypeOK'
  BY <1>1, <1>2, <1>5, <1>6 DEF StreamsTypeOK, SieveType, StreamPhase
<1>8. SieveInv' /\ SentInv'
  BY <1>1, <1>2, SentStays DEF SieveInv, Going
<1>9. StartInv' /\ ShapeInv'
  BY <1>1 DEF StartInv, ShapeInv, Going
<1>10. ~Framed => bs = <<>>
  BY <1>1, ShutEmpty DEF ChatInv
<1>11. ChatInv'
  <2> SUFFICES ASSUME ~Framed PROVE blocks' = <<>>
    BY <1>1 DEF ChatInv, Framed
  <2>1. WithCalls(bs, n) = <<>>
    BY <1>10, ShutEmpty DEF WithCalls, Begun
  <2> QED BY <1>1, <2>1
<1>12. /\ fed # <<>> /\ Framed' = Framed
       /\ CallsBehindText' <=> /\ Has(blocks', "text")
                              /\ ~(api = "messages" /\ CutOff)
  <2>1. Opens(fed)
    BY <1>1 DEF SieveInv, Going
  <2>2. CutOff' = CutOff
    BY <1>1 DEF CutOff
  <2> QED BY <1>1, <1>2, <2>1, <2>2, NothingOpens DEF CallsBehindText, Framed
<1>13. BlocksClose'
  <2> SUFFICES ASSUME ~Contains(marks, "late")
               PROVE  \/ Closed(blocks', Len(blocks'))
                      \/ /\ Tidy(blocks', Len(blocks'))
                         /\ Has(blocks', "text") /\ api # "messages"
    BY <1>1, <1>2, <1>12, Zenon DEF BlocksClose, Closed, Tidy
  <2>1. LaidOut(blocks, Len(blocks), TRUE)
    <3>1. LaidOut(blocks, Len(blocks), fed # <<>>)
      BY <1>1 DEF ShapeInv, Going
    <3>2. (fed # <<>>) = TRUE
      BY <1>12
    <3> QED BY <3>1, <3>2, Zenon
  <2>2. CASE ~text /\ Has(blocks, "text")
    <3>1. bs = blocks /\ api # "messages" /\ Tidy(blocks, Len(blocks))
      BY <2>1, <2>2, LayTidy
    <3>2. /\ Tidy(WithCalls(blocks, n), Len(WithCalls(blocks, n)))
          /\ Has(WithCalls(blocks, n), "text")
      <4> HIDE DEF n
      <4>1. CASE Framed
        BY <1>3, <1>4, <2>2, <3>1, <4>1, WithCallsTidy, HasWithCalls
      <4>2. CASE ~Framed
        BY <1>10, <2>2, <3>1, <4>2, EmptySeq DEF Has
      <4> QED BY <4>1, <4>2
    <3> QED BY <1>1, <3>1, <3>2
  <2>3. CASE text \/ ~Has(blocks, "text")
    <3>1. Closed(bs, Len(bs)) /\ n = Len(bs)
      <4>1. CASE text
        <5>1. /\ Len(bs) = Len(blocks)
              /\ ShutFrom(bs, blocks, Len(blocks), "text")
              /\ Has(bs, "text")
          BY <1>3, <4>1, ShutProperties, HasShut
        <5>2. LaidOut(bs, Len(bs), TRUE) /\ Closed(bs, Len(bs))
          BY <2>1, <5>1, LayShutText, Zenon
        <5> HIDE DEF bs
        <5>3. Index(bs) + 1 = Len(bs)
          BY <5>1, <5>2, IndexText
        <5> QED BY <4>1, <5>2, <5>3
      <4>2. CASE ~Has(blocks, "text")
        <5>1. bs = blocks /\ n = Index(blocks) + 0 /\ Index(blocks) \in {0, 1}
          BY <4>2, IndexType
        <5>2. bs = blocks /\ n = Index(blocks)
          BY <5>1
        <5>3. Index(blocks) = Len(blocks) /\ Closed(blocks, Len(blocks))
          BY <2>1, <4>2, LayTextIndex, LayNoText
        <5> QED BY <5>2, <5>3
      <4> QED BY <2>3, <4>1, <4>2
    <3> HIDE DEF bs, n
    <3>2. Closed(WithCalls(bs, n), Len(WithCalls(bs, n)))
      BY <1>4, <1>10, <3>1, WithCallsClosed
    <3> QED BY <1>1, <3>2
  <2> QED BY <2>2, <2>3
<1> QED BY <1>2, <1>7, <1>8, <1>9, <1>11, <1>13 DEF StreamsInv

LEMMA EndTurnKeeps == ASSUME StreamsInv, EndTurn PROVE StreamsInv'
<1> DEFINE calm == Shut(blocks, "think")
<1>1. /\ StreamsTypeOK /\ SieveInv /\ SentInv /\ StartInv /\ ChatInv /\ ShapeInv
      /\ EndsOnce
      /\ phase \in {"streaming", "stopping"} /\ phase' = "ended"
      /\ sieve' = IF tools /\ sieve.buf # <<>>
                  THEN [sieve EXCEPT !.buf = <<>>, !.done = TRUE] ELSE sieve
      /\ blocks' = IF api = "messages" THEN Shut(calm, "text")
                   ELSE Shut(blocks, "text")
      /\ marks' = marks \o <<"final", "done">>
      /\ UNCHANGED <<api, tools, tries, started, held, forwarded, fed>>
  BY DEF StreamsInv, EndTurn, Reading
<1>2. /\ marks' \in Seq(StreamMark) /\ EndsOnce' /\ ~Called'
      /\ Contains(marks', "late") <=> Contains(marks, "late")
  BY <1>1, FinalIsLast
<1>3. blocks \in Seq(Block) /\ started \in BOOLEAN
  BY <1>1 DEF StreamsTypeOK
<1>4. calm \in Seq(Block) /\ blocks' \in Seq(Block)
  <2>1. calm \in Seq(Block)
    BY <1>3, ShutProperties
  <2> HIDE DEF calm
  <2>2. Shut(calm, "text") \in Seq(Block) /\ Shut(blocks, "text") \in Seq(Block)
    BY <1>3, <2>1, ShutProperties
  <2> QED BY <1>1, <2>1, <2>2
<1>5. sieve' \in SieveType
  <2>1. sieve \in SieveType
    BY <1>1 DEF StreamsTypeOK, SieveType
  <2>2. \A s \in SieveType :
           [s EXCEPT !.buf = <<>>, !.done = TRUE] \in SieveType
    BY EmptySeq DEF SieveType
  <2> QED BY <1>1, <2>1, <2>2
<1>6. StreamsTypeOK'
  BY <1>1, <1>2, <1>4, <1>5 DEF StreamsTypeOK, SieveType, StreamPhase
<1>7. ~Called
  BY <1>1, NotEnded
<1>8. SieveInv' /\ SentInv'
  BY <1>1, <1>7, SentStays DEF SieveInv, Going
<1>9. StartInv' /\ ShapeInv'
  BY <1>1 DEF StartInv, ShapeInv, Going
<1>10. ChatInv'
  <2> SUFFICES ASSUME ~Framed PROVE blocks' = <<>>
    BY <1>1 DEF ChatInv, Framed
  <2> QED BY <1>1, ShutEmpty DEF ChatInv
<1>11. BlocksClose'
  <2> SUFFICES ASSUME Contains(marks, "late") => fed = <<>>
               PROVE  \/ Closed(blocks', Len(blocks'))
                      \/ /\ \A i \in 1 .. Len(blocks') :
                               /\ blocks'[i].index = i - 1
                               /\ blocks'[i].open => blocks'[i].kind = "think"
                         /\ api = "responses" /\ fed = <<>>
    BY <1>1, <1>2, Zenon DEF BlocksClose, Closed
  <2> DEFINE s == fed # <<>>
  <2>1. s \in BOOLEAN /\ LaidOut(blocks, Len(blocks), s)
    BY <1>1 DEF ShapeInv, Going
  <2>2. CASE ~Framed
    <3>1. blocks' = <<>>
      BY <1>1, <2>2, ShutEmpty DEF ChatInv
    <3> QED BY <3>1, EmptySeq DEF Closed
  <2>3. CASE api = "messages"
    <3>1. /\ Len(calm) = Len(blocks)
          /\ ShutFrom(calm, blocks, Len(blocks), "think")
      BY <1>3, ShutProperties
    <3> HIDE DEF calm
    <3>2. /\ Len(Shut(calm, "text")) = Len(calm)
          /\ ShutFrom(Shut(calm, "text"), calm, Len(calm), "text")
      BY <1>4, ShutProperties
    <3>3. blocks' = Shut(calm, "text")
      BY <1>1, <2>3
    <3>4. /\ Len(blocks') = Len(blocks)
          /\ ShutFrom(blocks', calm, Len(blocks), "text")
      BY <3>1, <3>2, <3>3, Zenon
    <3> HIDE DEF s
    <3> QED BY <2>1, <3>1, <3>4, LayBothClosed, Zenon
  <2>4. CASE api = "responses"
    <3>1. blocks' = Shut(blocks, "text")
      BY <1>1, <2>4
    <3>2. /\ Len(blocks') = Len(blocks)
          /\ ShutFrom(blocks', blocks, Len(blocks), "text")
      BY <1>3, <3>1, ShutProperties
    <3>3. CASE fed # <<>>
      <4>1. s = TRUE
        BY <3>3
      <4> HIDE DEF s
      <4> QED BY <2>1, <3>2, <4>1, LayShutText, Zenon
    <3>4. CASE fed = <<>>
      <4>1. s = FALSE
        BY <3>4
      <4> HIDE DEF s
      <4>2. LaidOut(blocks, Len(blocks), FALSE)
        BY <2>1, <4>1, Zenon
      <4>3. \A i \in 1 .. Len(blocks') : /\ blocks'[i].index = i - 1
                                         /\ blocks'[i].kind = "think"
        BY <3>2, <4>2 DEF LaidOut, ShutFrom
      <4> QED BY <2>4, <3>4, <4>3
    <3> QED BY <3>3, <3>4
  <2> QED BY <1>1, <2>2, <2>3, <2>4 DEF Framed, StreamsTypeOK, Api
<1> QED BY <1>2, <1>6, <1>8, <1>9, <1>10, <1>11 DEF StreamsInv

LEMMA FreshStart ==
    ASSUME phase' = "new", sieve' = Empty, started' = FALSE,
           blocks' = <<>>, marks' = <<>>, forwarded' = <<>>, fed' = <<>>,
           api' \in Api, tools' \in BOOLEAN, tries' \in 0 .. Retries,
           held' \in BOOLEAN
    PROVE  StreamsInv'
<1>1. /\ <<>> \in Seq(Char) /\ <<>> \in Seq(Block) /\ <<>> \in Seq(StreamMark)
      /\ Len(<<>>) = 0
  BY EmptySeq
<1>2. StreamsTypeOK'
  BY <1>1 DEF StreamsTypeOK, StreamPhase, Empty
<1>3. ~Opens(<<>>) /\ Leftover(<<>>) = <<>> /\ <<>> \o <<>> = <<>>
  BY <1>1, NothingOpens, ConcatEmptySeq
<1>4. SieveInv' /\ SentInv'
  BY <1>3 DEF SieveInv, SentInv, Empty
<1>5. StartInv' /\ ChatInv'
  BY DEF StartInv, ChatInv
<1>6. ShapeInv'
  BY <1>1 DEF ShapeInv, LaidOut
<1>7. EndsOnce'
  BY <1>1, RunningOn
<1>8. BlocksClose'
  BY DEF BlocksClose
<1> QED BY <1>2, <1>4, <1>5, <1>6, <1>7, <1>8 DEF StreamsInv

LEMMA BreakOffKeeps == ASSUME StreamsInv, BreakOff PROVE StreamsInv'
<1>1. /\ StreamsTypeOK /\ UNCHANGED <<api, tools>>
      /\ phase \in {"streaming", "stopping"}
  BY DEF StreamsInv, BreakOff, Reading
<1>2. CASE tries < Retries /\ tries' = tries + 1 /\ phase' = "new"
  <2>1. /\ api' \in Api /\ tools' \in BOOLEAN /\ tries' \in 0 .. Retries
    BY <1>1, <1>2, StreamsAssumption DEF StreamsTypeOK
  <2>2. /\ sieve' = Empty /\ started' = FALSE /\ held' = FALSE
        /\ blocks' = <<>> /\ marks' = <<>> /\ forwarded' = <<>> /\ fed' = <<>>
    BY <1>2 DEF BreakOff
  <2> QED BY <1>2, <2>1, <2>2, FreshStart
<1>3. CASE /\ phase' = "failed"
           /\ UNCHANGED <<tries, sieve, started, held, blocks, marks, forwarded,
                          fed>>
  <2>1. Called' = Called
    BY <1>3 DEF Called
  <2>2. StreamsTypeOK'
    BY <1>1, <1>3 DEF StreamsTypeOK, StreamPhase
  <2>3. SieveInv' /\ SentInv'
    BY <1>1, <1>3, <2>1, SieveStays, SentStays DEF StreamsInv, Going
  <2>4. StartInv' /\ ShapeInv'
    BY <1>3 DEF StreamsInv, StartInv, ShapeInv, Going
  <2>5. ChatInv'
    BY <1>1, <1>3 DEF StreamsInv, ChatInv, Framed
  <2>6. EndsOnce'
    <3>1. \A i \in 1 .. Len(marks) : marks[i] \in Running
      BY <1>1, NotEnded DEF StreamsInv
    <3> QED BY <1>3, <2>2, <3>1, RunningOn DEF StreamsTypeOK
  <2>7. BlocksClose'
    BY <1>3 DEF BlocksClose
  <2> QED BY <2>2, <2>3, <2>4, <2>5, <2>6, <2>7 DEF StreamsInv
<1> QED BY <1>2, <1>3 DEF BreakOff

LEMMA StreamsStep == StreamsInv /\ [StreamsNext]_streamVars => StreamsInv'
<1> SUFFICES ASSUME StreamsInv, [StreamsNext]_streamVars PROVE StreamsInv'
  OBVIOUS
<1>1. CASE BeginAttempt
  BY <1>1, BeginKeeps
<1>2. CASE Think
  BY <1>2, ThinkKeeps
<1>3. CASE SoftStop
  BY <1>3, SoftStopKeeps
<1>4. CASE FlushCalls
  BY <1>4, FlushKeeps
<1>5. CASE EndTurn
  BY <1>5, EndTurnKeeps
<1>6. CASE BreakOff
  BY <1>6, BreakOffKeeps
<1>7. ASSUME NEW chunk \in Chunk, TextChunk(chunk) PROVE StreamsInv'
  BY <1>7, TextKeeps
<1>8. ASSUME NEW chunk \in Chunk, ToolChunk(chunk) PROVE StreamsInv'
  BY <1>8, ToolKeeps
<1>10. CASE EmptyToken
  BY <1>10, EmptyKeeps
<1>9. CASE UNCHANGED streamVars
  <2>1. UNCHANGED <<api, tools, phase, tries, sieve, started, held, blocks,
                    marks, forwarded, fed>>
    BY <1>9 DEF streamVars
  <2>2. Called' = Called /\ Framed' = Framed
    BY <2>1 DEF Called, Framed
  <2>3. StreamsTypeOK' /\ StartInv' /\ ChatInv' /\ ShapeInv'
    BY <2>1, <2>2 DEF StreamsInv, StreamsTypeOK, StartInv, ChatInv, ShapeInv
  <2>4. SieveInv' /\ SentInv'
    BY <2>1, <2>2, SieveStays, SentStays DEF StreamsInv
  <2>5. CallsBehindText' = CallsBehindText
    BY <2>1, <2>2 DEF CallsBehindText, CutOff
  <2>6. EndsOnce' /\ BlocksClose'
    BY <2>1, <2>2, <2>5 DEF StreamsInv, EndsOnce, BlocksClose
  <2> QED BY <2>3, <2>4, <2>6 DEF StreamsInv
<1> QED
  BY <1>1, <1>2, <1>3, <1>4, <1>5, <1>6, <1>7, <1>8, <1>9, <1>10 DEF StreamsNext

LEMMA StreamsInitially == StreamsInit => StreamsInv
<1> SUFFICES ASSUME StreamsInit PROVE StreamsInv
  OBVIOUS
<1>1. /\ <<>> \in Seq(Char) /\ <<>> \in Seq(Block) /\ <<>> \in Seq(StreamMark)
      /\ Len(<<>>) = 0
  BY EmptySeq
<1>2. StreamsTypeOK
  <2>1. sieve \in [buf : Seq(Char), capturing : BOOLEAN, done : BOOLEAN]
    BY <1>1 DEF StreamsInit, Empty
  <2>2. tries \in 0 .. Retries
    BY StreamsAssumption DEF StreamsInit
  <2>3. phase \in StreamPhase
    BY DEF StreamsInit, StreamPhase
  <2>4. /\ blocks \in Seq(Block) /\ marks \in Seq(StreamMark)
        /\ forwarded \in Seq(Char) /\ fed \in Seq(Char)
    BY <1>1 DEF StreamsInit
  <2>5. /\ api \in Api /\ tools \in BOOLEAN
        /\ started \in BOOLEAN /\ held \in BOOLEAN
    BY DEF StreamsInit
  <2> QED BY <2>1, <2>2, <2>3, <2>4, <2>5 DEF StreamsTypeOK
<1>3. ~Opens(<<>>) /\ Leftover(<<>>) = <<>> /\ <<>> \o <<>> = <<>>
  BY <1>1, NothingOpens, ConcatEmptySeq
<1>4. SieveInv /\ SentInv
  BY <1>3 DEF StreamsInit, SieveInv, SentInv, Empty
<1>5. StartInv /\ ChatInv
  BY DEF StreamsInit, StartInv, ChatInv
<1>6. ShapeInv
  BY <1>1 DEF StreamsInit, ShapeInv, LaidOut
<1>7. EndsOnce
  <2>1. \A i \in 1 .. Len(marks) : marks[i] \in Running
    BY <1>1 DEF StreamsInit
  <2> QED BY <1>2, <2>1, NotEnded DEF StreamsInit
<1>8. BlocksClose
  BY DEF StreamsInit, BlocksClose
<1> QED BY <1>2, <1>4, <1>5, <1>6, <1>7, <1>8 DEF StreamsInv

-----------------------------------------------------------------------------
(* The theorems.                                                           *)

(* The strengthened invariant holds in every state of every stream.        *)
THEOREM StreamsInvariant == StreamsSpec => []StreamsInv
BY StreamsInitially, StreamsStep, PTL DEF StreamsSpec

(* Every variable of a stream keeps its type, whatever upstream sends.     *)
THEOREM StreamsTypeCorrect == StreamsSpec => []StreamsTypeOK
<1>1. StreamsInv => StreamsTypeOK
  BY DEF StreamsInv
<1> QED BY <1>1, StreamsInvariant, PTL

LEMMA PrefixOfConcat ==
    ASSUME NEW f \in Seq(Char), NEW b \in Seq(Char)
    PROVE  IsPrefix(f, f \o b)
<1>1. SubSeq(f \o b, 1, Len(f)) = f /\ SubSeq(f, 1, Len(f)) = f
  BY FrontOfConcat, SubSeqFull
<1>2. Len(f) <= Len(f \o b)
  <2>1. Len(f \o b) = Len(f) + Len(b)
    BY ConcatProperties
  <2>2. Len(f) \in Nat /\ Len(b) \in Nat
    BY LenProperties
  <2>3. \A m, n \in Nat : m <= m + n
    OBVIOUS
  <2> QED BY <2>1, <2>2, <2>3, Zenon
<1> QED BY <1>1, <1>2, Zenon DEF IsPrefix

LEMMA PrefixOfFront ==
    ASSUME NEW w \in Seq(Char), NEW f \in Seq(Char), NEW b \in Seq(Char),
           w = f \o b, NEW n \in Nat, n <= Len(w), Len(f) <= n
    PROVE  /\ IsPrefix(f, SubSeq(w, 1, n))
           /\ Len(f) = n => f = SubSeq(w, 1, n)
<1> DEFINE s == SubSeq(w, 1, n)
<1>1. Len(w) \in Nat /\ Len(f) \in Nat /\ Len(b) \in Nat
  BY LenProperties
<1>2. n \in 0 .. Len(w) /\ 1 \in Nat \ {0}
  BY <1>1
<1>3. /\ s \in Seq(Char) /\ Len(s) = (IF 1 <= n THEN n - 1 + 1 ELSE 0)
      /\ \A i \in 1 .. n - 1 + 1 : s[i] = w[1 + i - 1]
  BY <1>2, Piece
<1>4. Len(s) = n /\ \A i \in 1 .. n : s[i] = w[i]
  <2> HIDE DEF s
  <2>1. Len(s) = n
    BY <1>3
  <2>2. ASSUME NEW i \in 1 .. n PROVE s[i] = w[i]
    <3>1. i \in 1 .. n - 1 + 1 /\ 1 + i - 1 = i
      OBVIOUS
    <3> QED BY <1>3, <3>1
  <2> QED BY <2>1, <2>2
<1>5. \A i \in 1 .. Len(f) : w[i] = f[i]
  BY JoinedConcat DEF Joined
<1> HIDE DEF s
<1>6. Len(f) = n => f = s
  <2> SUFFICES ASSUME Len(f) = n PROVE f = s
    OBVIOUS
  <2>1. Len(f) = Len(s) /\ \A i \in 1 .. Len(f) : f[i] = s[i]
    BY <1>4, <1>5
  <2> QED BY <1>3, <2>1, SeqEqual
<1>7. IsPrefix(f, s)
  <2>1. SubSeq(f, 1, Len(f)) = f
    BY SubSeqFull
  <2>2. SubSeq(s, 1, Len(f)) = f
    <3> DEFINE p == SubSeq(s, 1, Len(f))
    <3>1. Len(f) \in 0 .. Len(s)
      BY <1>1, <1>4
    <3>2. /\ p \in Seq(Char)
          /\ Len(p) = (IF 1 <= Len(f) THEN Len(f) - 1 + 1 ELSE 0)
          /\ \A i \in 1 .. Len(f) - 1 + 1 : p[i] = s[1 + i - 1]
      BY <1>2, <1>3, <3>1, Piece
    <3> HIDE DEF p
    <3>3. Len(p) = Len(f)
      BY <1>1, <3>2
    <3>4. ASSUME NEW i \in 1 .. Len(f) PROVE p[i] = f[i]
      <4>1. i \in 1 .. Len(f) - 1 + 1 /\ 1 + i - 1 = i /\ i \in 1 .. n
        BY <1>1
      <4> QED BY <1>4, <1>5, <3>2, <4>1
    <3>5. p = f
      BY <3>2, <3>3, <3>4, SeqEqual
    <3> QED BY <3>5 DEF p
  <2> QED BY <1>4, <2>1, <2>2 DEF IsPrefix
<1> QED BY <1>6, <1>7 DEF s

(* ToolSieve.feed, for every way to cut an answer into pieces: the client  *)
(* has been sent a prefix of the text before the first opening tag (but a  *)
(* torn one, with a capital in its first part, counts as text), and        *)
(* all of it but a "lt" held back or, in the Responses and Messages        *)
(* interfaces, the text of the piece that completes a block of calls.      *)
THEOREM TextIsFaithful == StreamsSpec => []TextFaithful
<1>1. ASSUME StreamsInv PROVE TextFaithful
  <2>1. fed \in Seq(Char) /\ forwarded \in Seq(Char)
    BY <1>1 DEF StreamsInv, StreamsTypeOK
  <2>2. CASE ~tools
    <3>1. Shown = fed /\ forwarded = fed
      BY <1>1, <2>2 DEF StreamsInv, SentInv, Shown
    <3>2. fed \o <<>> = fed /\ <<>> \in Seq(Char)
      BY <2>1, ConcatEmptySeq, EmptySeq
    <3>3. IsPrefix(fed, fed)
      BY <2>1, <3>2, PrefixOfConcat
    <3> QED BY <3>1, <3>3 DEF TextFaithful
  <2>3. CASE tools /\ ~Opens(fed)
    <3>1. Shown = fed /\ fed = forwarded \o Leftover(fed)
      BY <1>1, <2>3 DEF StreamsInv, SentInv, Shown
    <3>2. Leftover(fed) \in {<<>>, <<"lt">>} /\ Leftover(fed) \in Seq(Char)
      BY <2>1, LeftoverIs
    <3>3. IsPrefix(forwarded, forwarded \o Leftover(fed))
      BY <2>1, <3>2, PrefixOfConcat
    <3>4. forwarded \o <<>> = forwarded
      BY <2>1, ConcatEmptySeq
    <3> QED BY <3>1, <3>2, <3>3, <3>4, Zenon DEF TextFaithful
  <2>4. CASE tools /\ Opens(fed)
    <3> DEFINE n == FirstOpening(fed) - 1
    <3>1. PICK rest \in Seq(Char) : fed = forwarded \o rest
      BY <1>1, <2>4 DEF StreamsInv, SentInv
    <3>2. /\ Len(forwarded) < FirstOpening(fed)
          /\ \/ Framed /\ Called
             \/ Len(forwarded) = n
          /\ Shown = SubSeq(fed, 1, n)
      BY <1>1, <2>4 DEF StreamsInv, SentInv, Shown
    <3>3. Len(fed) \in Nat /\ Len(forwarded) \in Nat
      BY <2>1, LenProperties
    <3>4. FirstOpening(fed) \in 1 .. Len(fed) - 1
      BY <2>4, <3>3, FirstExists DEF Openings
    <3>5. n \in Nat /\ n <= Len(fed) /\ Len(forwarded) <= n
      BY <3>2, <3>3, <3>4
    <3> HIDE DEF n
    <3>6. /\ IsPrefix(forwarded, SubSeq(fed, 1, n))
          /\ Len(forwarded) = n => forwarded = SubSeq(fed, 1, n)
      BY <2>1, <3>1, <3>5, PrefixOfFront
    <3> QED BY <3>2, <3>6, Zenon DEF TextFaithful
  <2> QED BY <2>2, <2>3, <2>4
<1> QED BY <1>1, StreamsInvariant, PTL

(* The generators end once: "final" and [DONE] are the last things sent,   *)
(* with the calls directly before them if there are any, and a stream that *)
(* was broken off has sent none of them.                                   *)
THEOREM StreamEndsOnce == StreamsSpec => []EndsOnce
<1>1. StreamsInv => EndsOnce
  BY DEF StreamsInv
<1> QED BY <1>1, StreamsInvariant, PTL

(* At the end of an answer the blocks are closed and numbered 0, 1, ... but *)
(* for the blocks BlocksClose names, for any sequence of thoughts, empty   *)
(* tokens, text and calls (reasoning_closed, block_index, base_idx).       *)
THEOREM BlocksAreClosed == StreamsSpec => []BlocksClose
<1>1. StreamsInv => BlocksClose
  BY DEF StreamsInv
<1> QED BY <1>1, StreamsInvariant, PTL
=============================================================================
