----------------------------- MODULE ServerProofs -----------------------------
(* Safety of Server for every set of connections and commands and every     *)
(* bound, proved from ServerAssumption alone.                               *)
(*                                                                         *)
(* The inductive invariant is Typed (types, and a frame at hand when the    *)
(* thread handles one), AtHand (the command a handler has begun is the one  *)
(* it is a handler of), and the two invariants of the replies themselves.   *)
EXTENDS Server, SequenceTheorems, TLAPS

Typed == /\ TypeOK
         /\ pc # "loop" => done[cur] < read[cur] /\ conn[cur] # "closed"

AtHand == /\ pc = "document" => This.op = "document" /\ This.id \in Int
          /\ pc \in {"cleanup", "unwind"} => This.op = "docid"
          /\ pc = "query" => This.op = "query"
          /\ pc = "submit" => This.op = "submit"

LEMMA BoundsKnown == MaxCommands \in Nat /\ NDocuments \in Nat
BY ServerAssumption

LEMMA Sums ==
  \A m, n \in Nat : /\ m + n \in Nat /\ m <= m + n
                    /\ \A k \in 1 .. m : k \in 1 .. m + n /\ k <= m
OBVIOUS

LEMMA Longer == \A m, top \in Nat : \A n \in Nat \ {0} : m + n <= top => m + n \in m + 1 .. top
OBVIOUS

LEMMA FrameAtHand == Typed /\ pc # "loop" => This \in Frame
<1> SUFFICES ASSUME Typed, pc # "loop" PROVE This \in Frame
  OBVIOUS
<1>1. sent[cur] \in Seq(Frame) /\ done[cur] \in Nat /\ read[cur] \in Nat
      /\ done[cur] < read[cur] /\ read[cur] <= Len(sent[cur])
  BY DEF Typed, TypeOK
<1>2. Len(sent[cur]) \in Nat
  BY <1>1, LenProperties
<1> QED
  BY <1>1, <1>2, ElementOfSeq DEF This

LEMMA TypedInit == Init => Typed
<1> SUFFICES ASSUME Init PROVE Typed
  OBVIOUS
<1>1. \A S : <<>> \in Seq(S) /\ Len(<<>>) = 0
  BY EmptySeq
<1> QED
  BY <1>1 DEF Init, Typed, TypeOK

(* What a reply does to the replies of its connection, and to the types.   *)
LEMMA SayTyped ==
  ASSUME Typed, NEW kind \in Kinds, NEW ids \in SUBSET Int, Say(kind, ids)
  PROVE  queue' \in [Conns -> Seq(Reply)]
<1>1. [to |-> Number, kind |-> kind, ids |-> ids] \in Reply
  BY DEF Reply, Number, Typed, TypeOK
<1>2. Append(queue[cur], [to |-> Number, kind |-> kind, ids |-> ids]) \in Seq(Reply)
  BY <1>1, AppendProperties DEF Typed, TypeOK
<1> QED
  BY <1>2 DEF Say, Typed, TypeOK

LEMMA ConcatAppend ==
  ASSUME NEW S, NEW w \in Seq(S), NEW q \in Seq(S), NEW r \in S
  PROVE  /\ Len(w \o Append(q, r)) = Len(w \o q) + 1 /\ Len(w \o q) \in Nat
         /\ \A k \in 1 .. Len(w \o q) : (w \o Append(q, r))[k] = (w \o q)[k]
         /\ (w \o Append(q, r))[Len(w \o q) + 1] = r
<1>1. PICK q2 \in Seq(S) : /\ q2 = Append(q, r) /\ Len(q2) = Len(q) + 1
                           /\ \A k \in 1 .. Len(q) : q2[k] = q[k]
                           /\ q2[Len(q) + 1] = r
  BY AppendProperties
<1>2. Len(q) \in Nat /\ Len(w) \in Nat
  BY LenProperties
<1>3. /\ Len(w \o q) = Len(w) + Len(q)
      /\ \A k \in 1 .. Len(w) + Len(q) :
           (w \o q)[k] = IF k <= Len(w) THEN w[k] ELSE q[k - Len(w)]
  BY ConcatProperties
<1>4. /\ Len(w \o q2) = Len(w) + Len(q2)
      /\ \A k \in 1 .. Len(w) + Len(q2) :
           (w \o q2)[k] = IF k <= Len(w) THEN w[k] ELSE q2[k - Len(w)]
  BY ConcatProperties
<1>5. \A k \in 1 .. Len(w) + Len(q) : (w \o q2)[k] = (w \o q)[k]
  <2> SUFFICES ASSUME NEW k \in 1 .. Len(w) + Len(q) PROVE (w \o q2)[k] = (w \o q)[k]
    OBVIOUS
  <2>1. k \in 1 .. Len(w) + Len(q2)
    BY <1>1, <1>2
  <2>2. ~(k <= Len(w)) => k - Len(w) \in 1 .. Len(q)
    BY <1>2
  <2> QED
    BY <1>1, <1>3, <1>4, <2>1, <2>2
<1>6. (w \o q2)[Len(w) + Len(q) + 1] = r
  <2>1. /\ Len(w) + Len(q) + 1 \in 1 .. Len(w) + Len(q2)
        /\ ~(Len(w) + Len(q) + 1 <= Len(w)) /\ Len(w) + Len(q) + 1 - Len(w) = Len(q) + 1
    BY <1>1, <1>2
  <2> QED
    BY <1>1, <1>4, <2>1
<1> QED
  BY <1>1, <1>2, <1>3, <1>4, <1>5, <1>6

LEMMA SayReplies ==
  ASSUME Typed, NEW kind \in Kinds, NEW ids \in SUBSET Int, Say(kind, ids),
         written' = written, cur' = cur
  PROVE  /\ \A c \in Conns : c # cur => Replies(c)' = Replies(c)
         /\ Len(Replies(cur)') = Len(Replies(cur)) + 1 /\ Len(Replies(cur)) \in Nat
         /\ \A k \in 1 .. Len(Replies(cur)) : Replies(cur)'[k] = Replies(cur)[k]
         /\ Replies(cur)'[Len(Replies(cur)) + 1] = [to |-> Number, kind |-> kind, ids |-> ids]
<1> DEFINE r == [to |-> Number, kind |-> kind, ids |-> ids]
<1>1. r \in Reply
  BY DEF Reply, Number, Typed, TypeOK
<1>2. queue[cur] \in Seq(Reply) /\ written[cur] \in Seq(Reply) /\ cur \in Conns
  BY DEF Typed, TypeOK
<1>3. queue'[cur] = Append(queue[cur], r) /\ \A c \in Conns : c # cur => queue'[c] = queue[c]
  BY DEF Say, Typed, TypeOK
<1> HIDE DEF r
<1>4. Replies(cur) = written[cur] \o queue[cur] /\ Replies(cur)' = written[cur] \o Append(queue[cur], r)
  BY <1>3 DEF Replies
<1>5. \A c \in Conns : c # cur => Replies(c)' = Replies(c)
  BY <1>3 DEF Replies
<1>6. ASSUME NEW before, before = Replies(cur), NEW after, after = Replies(cur)',
             NEW w, w = written[cur], NEW q, q = queue[cur]
      PROVE  /\ Len(after) = Len(before) + 1 /\ Len(before) \in Nat
             /\ \A k \in 1 .. Len(before) : after[k] = before[k]
             /\ after[Len(before) + 1] = r
  <2>1. before = w \o q /\ after = w \o Append(q, r)
    BY <1>4, <1>6
  <2>2. w \in Seq(Reply) /\ q \in Seq(Reply)
    BY <1>2, <1>6
  <2> QED
    BY <1>1, <2>1, <2>2, ConcatAppend
<1> QED
  BY <1>5, <1>6 DEF r

LEMMA DoneTyped ==
  ASSUME Typed, Done, pc # "loop"
  PROVE  /\ done' \in [Conns -> Nat] /\ done'[cur] = done[cur] + 1
         /\ \A c \in Conns : done'[c] <= read[c] /\ (c # cur => done'[c] = done[c])
         /\ pc' \in {"loop", "frame"} /\ (pc' # "loop" => done'[cur] < read[cur])
BY DEF Typed, TypeOK, Done

LEMMA AnswerTyped ==
  ASSUME Typed, NEW kind \in Kinds, NEW ids \in SUBSET Int, Answer(kind, ids), pc # "loop"
  PROVE  Typed'
<1>1. queue' \in [Conns -> Seq(Reply)]
  BY SayTyped DEF Answer
<1> QED
  BY <1>1, DoneTyped DEF Answer, Typed, TypeOK

(* The handler of a frame either replies to it and is done with it, or      *)
(* replies and is not, or is done having replied, or does neither.          *)
LEMMA Replying ==
  ASSUME Typed, AtHand, Handle
  PROVE  \/ \E kind \in Kinds, ids \in SUBSET Int :
              /\ Say(kind, ids) /\ Done /\ pc \notin {"loop", "cleanup"}
              /\ Fits(This, [to |-> Number, kind |-> kind, ids |-> ids])
              /\ conn' \in {conn, [conn EXCEPT ![cur] = "closing"]}
              /\ UNCHANGED <<server, sent, read, cur, written>>
         \/ \E ids \in SUBSET Int :
              /\ Say("ids", ids) /\ pc = "frame" /\ pc' = "cleanup" /\ This.op = "docid"
              /\ Fits(This, [to |-> Number, kind |-> "ids", ids |-> ids])
              /\ UNCHANGED <<server, conn, sent, read, done, cur, written>>
         \/ Done /\ pc = "cleanup" /\ UNCHANGED <<server, conn, sent, read, cur, queue, written>>
         \/ /\ pc = "frame"
            /\ \/ pc' = "document" /\ This.op = "document" /\ This.id \in Int
               \/ pc' = "unwind" /\ This.op = "docid"
               \/ pc' = "query" /\ This.op = "query"
               \/ pc' = "submit" /\ This.op = "submit"
            /\ UNCHANGED <<server, conn, sent, read, done, cur, queue, written>>
         \/ /\ server' \in {"hung", "ended"} /\ server = "up"
            /\ UNCHANGED <<conn, sent, read, done, pc, cur, queue, written>>
<1> USE DEF Fits, Takes, Goes, Answer, Kinds
<1>1. CASE Reject \/ DocumentFails \/ DocidFails \/ SubmitFails
  <2>1. /\ Say("error", {}) /\ Done /\ pc = "frame"
        /\ This.op \in {"garbage", "array", "nameless", "unknown", "document", "docid", "submit"}
        /\ UNCHANGED <<server, conn, sent, read, cur, written>>
    BY <1>1 DEF Reject, DocumentFails, DocidFails, SubmitFails
  <2> QED
    BY <2>1
<1>2. CASE AckClose
  <2>1. /\ Say("close", {}) /\ Done /\ pc = "frame" /\ This.op = "close"
        /\ conn' = [conn EXCEPT ![cur] = "closing"]
        /\ UNCHANGED <<server, sent, read, cur, written>>
    BY <1>2 DEF AckClose
  <2> QED
    BY <2>1
<1>3. CASE Leaderboard
  <2>1. /\ Say("null", {}) /\ Done /\ pc = "frame" /\ This.op = "leaderboard"
        /\ UNCHANGED <<server, conn, sent, read, cur, written>>
    BY <1>3 DEF Leaderboard
  <2> QED
    BY <2>1
<1>4. CASE DocumentReply
  <2>1. /\ Done /\ pc = "document" /\ This.op = "document"
        /\ UNCHANGED <<server, conn, sent, read, cur, written>>
    BY <1>4 DEF DocumentReply, AtHand
  <2>2. \/ Say("error", {})
        \/ Say("text", {This.id}) /\ This.form = "raw" /\ InRange
        \/ Say("bow", {This.id}) /\ This.form = "bow" /\ InRange
    BY <1>4 DEF DocumentReply
  <2>3. {This.id} \in SUBSET Int
    BY <2>1 DEF AtHand
  <2> QED
    BY <2>1, <2>2, <2>3
<1>5. CASE Docid
  <2>1. {This.id} \cap Known \in SUBSET Int
    BY BoundsKnown DEF Known
  <2> QED
    BY <1>5, <2>1 DEF Docid
<1>6. CASE Document \/ DocidThrows \/ Query \/ Submit
  BY <1>6 DEF Document, DocidThrows, Query, Submit
<1>7. CASE DocidReturns
  BY <1>7 DEF DocidReturns
<1>8. CASE DocidCaught
  BY <1>8 DEF DocidCaught, AtHand
<1>9. CASE QueryReply \/ SubmitReply
  <2>1. /\ Done /\ pc \in {"query", "submit"} /\ UNCHANGED <<server, conn, sent, read, cur, written>>
        /\ \/ Say("results", {}) /\ This.op = "query"
           \/ Say("scores", {}) /\ This.op = "submit"
           \/ Say("error", {}) /\ This.op \in {"query", "submit"}
    BY <1>9 DEF QueryReply, SubmitReply, AtHand
  <2> QED
    BY <2>1
<1>10. CASE DocumentAborts \/ DeletedTwice \/ QueryDies \/ QueryHangs
  BY <1>10 DEF DocumentAborts, DeletedTwice, QueryDies, QueryHangs
<1> QED
  BY <1>1, <1>2, <1>3, <1>4, <1>5, <1>6, <1>7, <1>8, <1>9, <1>10 DEF Handle

LEMMA FitsFrame == \A f, r, s : s.kind = r.kind /\ s.ids = r.ids /\ Fits(f, r) => Fits(f, s)
BY DEF Fits

LEMMA TypedNext == Typed /\ AtHand /\ [Next]_vars => Typed'
<1> SUFFICES ASSUME Typed, AtHand, [Next]_vars PROVE Typed'
  OBVIOUS
<1>1. ASSUME NEW c \in Conns, Send(c) PROVE Typed'
  <2>1. PICK f \in Frame : sent' = [sent EXCEPT ![c] = Append(@, f)]
    BY <1>1 DEF Send
  <2>2. sent[c] \in Seq(Frame)
    BY DEF Typed, TypeOK
  <2>3. Append(sent[c], f) \in Seq(Frame) /\ Len(Append(sent[c], f)) = Len(sent[c]) + 1
        /\ Len(sent[c]) \in Nat
    BY <2>2, AppendProperties, LenProperties
  <2>4. sent' \in [Conns -> Seq(Frame)]
    BY <2>1, <2>3 DEF Typed, TypeOK
  <2>5. \A d \in Conns : read[d] <= Len(sent'[d])
    BY <2>1, <2>3 DEF Typed, TypeOK
  <2> QED
    BY <1>1, <2>4, <2>5 DEF Send, Typed, TypeOK
<1>2. ASSUME NEW c \in Conns, Accept(c) \/ Drop(c) PROVE Typed'
  <2>1. <<>> \in Seq(Reply)
    BY EmptySeq
  <2> QED
    BY <1>2, <2>1 DEF Accept, Drop, Free, Typed, TypeOK
<1>3. ASSUME NEW c \in Conns, Read(c) PROVE Typed'
  <2>1. PICK k \in read[c] + 1 .. Len(sent[c]) : read' = [read EXCEPT ![c] = k]
    BY <1>3 DEF Read
  <2>2. Len(sent[c]) \in Nat /\ read[c] \in Nat /\ done[c] \in Nat /\ done[c] <= read[c]
    BY LenProperties DEF Typed, TypeOK
  <2>3. k \in Nat /\ read[c] < k /\ k <= Len(sent[c]) /\ done[c] < k
    BY <2>2
  <2> QED
    BY <1>3, <2>1, <2>3 DEF Read, Move, Typed, TypeOK
<1>4. ASSUME NEW c \in Conns, Write(c) PROVE Typed'
  <2>1. written[c] \o queue[c] \in Seq(Reply) /\ <<>> \in Seq(Reply)
    BY ConcatProperties, EmptySeq DEF Typed, TypeOK
  <2> QED
    BY <1>4, <2>1 DEF Write, Free, Typed, TypeOK
<1>5. CASE Handle
  <2>1. ASSUME NEW kind \in Kinds, NEW ids \in SUBSET Int, Say(kind, ids), Done,
               pc \notin {"loop", "cleanup"},
               conn' \in {conn, [conn EXCEPT ![cur] = "closing"]},
               UNCHANGED <<server, sent, read, cur, written>>
        PROVE  Typed'
    BY <2>1, SayTyped, DoneTyped DEF Typed, TypeOK
  <2>2. ASSUME NEW ids \in SUBSET Int, Say("ids", ids), pc = "frame", pc' = "cleanup",
               UNCHANGED <<server, conn, sent, read, done, cur, written>>
        PROVE  Typed'
    <3>1. queue' \in [Conns -> Seq(Reply)]
      BY <2>2, SayTyped DEF Kinds
    <3> QED
      BY <2>2, <3>1 DEF Typed, TypeOK
  <2>3. ASSUME Done, pc = "cleanup", UNCHANGED <<server, conn, sent, read, cur, queue, written>>
        PROVE  Typed'
    BY <2>3, DoneTyped DEF Typed, TypeOK
  <2>4. ASSUME pc = "frame", pc' \in {"document", "unwind", "query", "submit"},
               UNCHANGED <<server, conn, sent, read, done, cur, queue, written>>
        PROVE  Typed'
    BY <2>4 DEF Typed, TypeOK
  <2>5. ASSUME server' \in {"hung", "ended"},
               UNCHANGED <<conn, sent, read, done, pc, cur, queue, written>>
        PROVE  Typed'
    BY <2>5 DEF Typed, TypeOK
  <2> QED
    BY <1>5, Replying, <2>1, <2>2, <2>3, <2>4, <2>5
<1>6. CASE Stop
  BY <1>6 DEF Stop, Typed, TypeOK
<1>7. CASE UNCHANGED vars
  BY <1>7 DEF vars, Typed, TypeOK
<1> QED
  BY <1>1, <1>2, <1>3, <1>4, <1>5, <1>6, <1>7 DEF Next

(* The frame at hand stays the same until the thread is done with it.      *)
LEMMA SendKeepsFrames ==
  ASSUME Typed, NEW c \in Conns, Send(c)
  PROVE  \A d \in Conns : \A k \in 1 .. Len(sent[d]) : sent'[d][k] = sent[d][k]
<1>1. PICK f \in Frame : sent' = [sent EXCEPT ![c] = Append(@, f)]
  BY DEF Send
<1>2. sent[c] \in Seq(Frame)
  BY DEF Typed, TypeOK
<1>3. \A k \in 1 .. Len(sent[c]) : Append(sent[c], f)[k] = sent[c][k]
  BY <1>2, AppendProperties
<1> QED
  BY <1>1, <1>3 DEF Typed, TypeOK

LEMMA AtHandNext == Typed /\ AtHand /\ [Next]_vars => AtHand'
<1> SUFFICES ASSUME Typed, AtHand, [Next]_vars PROVE AtHand'
  OBVIOUS
<1>1. ASSUME NEW c \in Conns, Send(c) PROVE AtHand'
  <2>1. CASE pc = "loop"
    BY <1>1, <2>1 DEF Send, AtHand
  <2>2. CASE pc # "loop"
    <3>1. Len(sent[cur]) \in Nat
      BY LenProperties DEF Typed, TypeOK
    <3>2. done[cur] + 1 \in 1 .. Len(sent[cur])
      BY <2>2, <3>1 DEF Typed, TypeOK
    <3>3. This' = This
      BY <1>1, <3>2, SendKeepsFrames DEF This, Send, Typed, TypeOK
    <3> QED
      BY <1>1, <3>3 DEF Send, AtHand
  <2> QED
    BY <2>1, <2>2
<1>2. ASSUME NEW c \in Conns, Accept(c) \/ Drop(c) \/ Write(c) \/ Read(c) PROVE AtHand'
  BY <1>2 DEF Accept, Drop, Write, Read, Free, Move, AtHand
<1>3. CASE Handle
  <2>1. CASE Done
    BY <2>1 DEF Done, AtHand
  <2>2. CASE ~Done
    BY <1>3, <2>2, Replying DEF AtHand, This
  <2> QED
    BY <2>1, <2>2
<1>4. CASE Stop \/ UNCHANGED vars
  BY <1>4 DEF Stop, vars, AtHand, This
<1> QED
  BY <1>1, <1>2, <1>3, <1>4 DEF Next

LEMMA AtHandInit == Init => AtHand
BY DEF Init, AtHand

(* Every variable of the server keeps its type, whatever clients send, and  *)
(* the thread never handles a frame it has not been handed, nor more        *)
(* frames than have come.                                                   *)
THEOREM ServerTypeCorrect == Spec => []TypeOK
<1>1. Typed => TypeOK
  BY DEF Typed
<1> QED
  BY TypedInit, TypedNext, AtHandInit, AtHandNext, <1>1, PTL DEF Spec

LEMMA RepliesKnown ==
  ASSUME Typed, NEW c \in Conns
  PROVE  Replies(c) \in Seq(Reply) /\ Len(Replies(c)) = Len(written[c]) + Len(queue[c])
         /\ Len(written[c]) \in Nat /\ Len(queue[c]) \in Nat
BY ConcatProperties, LenProperties DEF Typed, TypeOK, Replies

(* Write only moves replies, and Drop only loses queued ones.               *)
LEMMA WriteKeepsReplies ==
  ASSUME Typed, NEW c \in Conns, Write(c)
  PROVE  \A d \in Conns : Replies(d)' = Replies(d)
<1> SUFFICES ASSUME NEW d \in Conns PROVE Replies(d)' = Replies(d)
  OBVIOUS
<1>1. CASE d = c
  <2>1. written[c] \o queue[c] \in Seq(Reply)
    BY ConcatProperties DEF Typed, TypeOK
  <2>2. (written[c] \o queue[c]) \o <<>> = written[c] \o queue[c]
    BY <2>1, ConcatEmptySeq
  <2>3. written'[c] = written[c] \o queue[c] /\ queue'[c] = <<>>
    BY DEF Write, Typed, TypeOK
  <2> QED
    BY <1>1, <2>2, <2>3 DEF Replies
<1>2. CASE d # c
  BY <1>2 DEF Write, Replies, Typed, TypeOK
<1> QED
  BY <1>1, <1>2

LEMMA DropKeepsPrefix ==
  ASSUME Typed, NEW c \in Conns, Drop(c)
  PROVE  \A d \in Conns :
           /\ d # c => Replies(d)' = Replies(d)
           /\ Len(Replies(d)') <= Len(Replies(d))
           /\ \A k \in 1 .. Len(Replies(d)') : Replies(d)'[k] = Replies(d)[k]
<1> SUFFICES ASSUME NEW d \in Conns,
                    NEW before, before = Replies(d), NEW after, after = Replies(d)'
             PROVE  /\ d # c => after = before
                    /\ Len(after) <= Len(before)
                    /\ \A k \in 1 .. Len(after) : after[k] = before[k]
  OBVIOUS
<1>0. Len(written[d]) \in Nat /\ Len(queue[d]) \in Nat
  BY RepliesKnown
<1>1. Len(before) = Len(written[d]) + Len(queue[d])
  BY RepliesKnown
<1>2. CASE d # c
  <2>1. after = before
    BY <1>2 DEF Drop, Replies, Typed, TypeOK
  <2>2. Len(before) \in Nat
    BY <1>0, <1>1, Sums, Zenon
  <2>3. Len(after) <= Len(before)
    BY <2>1, <2>2
  <2> QED
    BY <1>2, <2>1, <2>3
<1>3. CASE d = c
  <2>1. written[d] \in Seq(Reply) /\ queue[d] \in Seq(Reply)
    BY DEF Typed, TypeOK
  <2>2. after = written[d] \o <<>>
    BY <1>3 DEF Drop, Replies, Typed, TypeOK
  <2>3. after = written[d]
    BY <2>1, <2>2, ConcatEmptySeq
  <2>4. ASSUME NEW k \in 1 .. Len(written[d]) PROVE after[k] = before[k]
    <3>1. k \in 1 .. Len(written[d]) + Len(queue[d]) /\ k <= Len(written[d])
      BY <1>0, Sums, Zenon
    <3>2. (written[d] \o queue[d])[k] = written[d][k]
      BY <2>1, <3>1, ConcatProperties
    <3> QED
      BY <2>3, <3>2 DEF Replies
  <2>5. Len(after) <= Len(before)
    BY <1>0, <1>1, <2>3, Sums, Zenon
  <2> QED
    BY <1>3, <2>3, <2>4, <2>5
<1> QED
  BY <1>2, <1>3

Counted == OneReplyEach /\ RepliesFit

LEMMA CountedInit == Init => Counted
<1>1. <<>> \o <<>> = <<>> /\ Len(<<>>) = 0
  BY ConcatEmptySeq, EmptySeq
<1> QED
  BY <1>1 DEF Init, Counted, OneReplyEach, RepliesFit, Replies

(* There is a frame for each reply.                                        *)
LEMMA RepliesAreAsked ==
  ASSUME Typed, OneReplyEach, NEW c \in Conns, conn[c] # "closed"
  PROVE  Len(Replies(c)) <= Len(sent[c])
<1>1. done[c] \in Nat /\ read[c] \in Nat /\ done[c] <= read[c] /\ read[c] <= Len(sent[c])
      /\ Len(sent[c]) \in Nat
  BY LenProperties DEF Typed, TypeOK
<1> QED
  BY <1>1 DEF OneReplyEach, Typed

LEMMA CountedReply ==
  ASSUME Typed, AtHand, Counted, NEW kind \in Kinds, NEW ids \in SUBSET Int, Say(kind, ids),
         pc \notin {"loop", "cleanup"}, cur' = cur, sent' = sent, written' = written,
         Fits(This, [to |-> Number, kind |-> kind, ids |-> ids]),
         conn' \in {conn, [conn EXCEPT ![cur] = "closing"]},
         \/ Done
         \/ pc' = "cleanup" /\ done' = done
  PROVE  Counted'
<1>1. cur \in Conns /\ done[cur] \in Nat /\ conn[cur] # "closed"
  BY DEF Typed, TypeOK
<1>2. Len(Replies(cur)) = done[cur]
  BY <1>1 DEF Counted, OneReplyEach
<1>3. /\ \A c \in Conns : c # cur => Replies(c)' = Replies(c)
      /\ Len(Replies(cur)') = done[cur] + 1
      /\ \A k \in 1 .. done[cur] : Replies(cur)'[k] = Replies(cur)[k]
      /\ Replies(cur)'[done[cur] + 1] = [to |-> done[cur] + 1, kind |-> kind, ids |-> ids]
  BY <1>2, SayReplies DEF Number
<1>4. \A c \in Conns : conn'[c] # "closed" => conn[c] # "closed"
  BY <1>1 DEF Typed, TypeOK
<1>5. ASSUME NEW c \in Conns, conn'[c] # "closed"
      PROVE  Len(Replies(c)') = done'[c] + (IF pc' = "cleanup" /\ cur' = c THEN 1 ELSE 0)
  <2>1. CASE c = cur
    BY <1>1, <1>3, <2>1 DEF Done, Typed, TypeOK
  <2>2. CASE c # cur
    BY <1>3, <1>4, <1>5, <2>2 DEF Done, Typed, TypeOK, Counted, OneReplyEach
  <2> QED
    BY <2>1, <2>2
<1>6. ASSUME NEW c \in Conns, NEW k \in 1 .. Len(Replies(c)')
      PROVE  Replies(c)'[k].to = k /\ Fits(sent'[c][k], Replies(c)'[k])
  <2>1. CASE c = cur /\ k = done[cur] + 1
    BY <1>3, <2>1 DEF This, Number
  <2>2. CASE c = cur /\ k # done[cur] + 1
    <3>1. k \in 1 .. done[cur]
      BY <1>1, <1>3, <1>6, <2>2
    <3> QED
      BY <1>1, <1>2, <1>3, <2>2, <3>1 DEF Counted, OneReplyEach, RepliesFit
  <2>3. CASE c # cur
    BY <1>3, <1>6, <2>3 DEF Counted, OneReplyEach, RepliesFit
  <2> QED
    BY <2>1, <2>2, <2>3
<1> QED
  BY <1>5, <1>6 DEF Counted, OneReplyEach, RepliesFit

LEMMA CountedNext == Typed /\ AtHand /\ Counted /\ [Next]_vars => Counted'
<1> SUFFICES ASSUME Typed, AtHand, Counted, [Next]_vars PROVE Counted'
  OBVIOUS
<1> USE DEF Counted, OneReplyEach, RepliesFit
<1>1. ASSUME NEW c \in Conns, Send(c) PROVE Counted'
  <2>1. \A d \in Conns : Replies(d)' = Replies(d)
    BY <1>1 DEF Send, Replies
  <2>2. UNCHANGED <<conn, done, pc, cur>> /\ conn[c] # "closed"
    BY <1>1 DEF Send
  <2>3. \A d \in Conns : \A k \in 1 .. Len(Replies(d)) : sent'[d][k] = sent[d][k]
    <3> SUFFICES ASSUME NEW d \in Conns, NEW k \in 1 .. Len(Replies(d))
                 PROVE  sent'[d][k] = sent[d][k]
      OBVIOUS
    <3>1. CASE d = c
      <4>1. Len(Replies(c)) <= Len(sent[c]) /\ Len(sent[c]) \in Nat /\ Len(Replies(c)) \in Nat
        BY <2>2, RepliesAreAsked, RepliesKnown, LenProperties DEF Typed, TypeOK
      <4>2. k \in 1 .. Len(sent[d])
        BY <3>1, <4>1
      <4> QED
        BY <1>1, <4>2, SendKeepsFrames
    <3>2. CASE d # c
      BY <1>1, <3>2 DEF Send, Typed, TypeOK
    <3> QED
      BY <3>1, <3>2
  <2> QED
    BY <2>1, <2>2, <2>3
<1>2. ASSUME NEW c \in Conns, Accept(c) \/ Read(c) PROVE Counted'
  <2>1. \A d \in Conns : Replies(d)' = Replies(d) /\ (conn'[d] # "closed" => conn[d] # "closed")
    BY <1>2 DEF Accept, Read, Replies, Typed, TypeOK
  <2>2. UNCHANGED <<sent, done>> /\ pc # "cleanup" /\ pc' # "cleanup"
    BY <1>2 DEF Accept, Read, Free, Move
  <2> QED
    BY <2>1, <2>2
<1>3. ASSUME NEW c \in Conns, Write(c) PROVE Counted'
  <2>1. \A d \in Conns : Replies(d)' = Replies(d) /\ (conn'[d] # "closed" => conn[d] # "closed")
    BY <1>3, WriteKeepsReplies DEF Write, Typed, TypeOK
  <2>2. UNCHANGED <<sent, done, pc, cur>>
    BY <1>3 DEF Write
  <2> QED
    BY <2>1, <2>2
<1>4. ASSUME NEW c \in Conns, Drop(c) PROVE Counted'
  <2>1. UNCHANGED <<sent, done, pc, cur>> /\ conn' = [conn EXCEPT ![c] = "closed"]
    BY <1>4 DEF Drop
  <2>2. ASSUME NEW d \in Conns, NEW k \in 1 .. Len(Replies(d)')
        PROVE  Replies(d)'[k].to = k /\ Fits(sent'[d][k], Replies(d)'[k])
    <3>1. Len(Replies(d)') <= Len(Replies(d)) /\ Replies(d)'[k] = Replies(d)[k]
      BY <1>4, <2>2, DropKeepsPrefix
    <3>2. Len(Replies(d)) \in Nat
      BY RepliesKnown, LenProperties
    <3>3. k \in 1 .. Len(Replies(d))
      <4> HIDE DEF Counted, OneReplyEach, RepliesFit
      <4> QED
        BY <2>2, <3>1, <3>2
    <3> QED
      BY <2>1, <3>1, <3>3
  <2>3. ASSUME NEW d \in Conns, conn'[d] # "closed"
        PROVE  Len(Replies(d)') = done'[d] + (IF pc' = "cleanup" /\ cur' = d THEN 1 ELSE 0)
    <3>1. d # c /\ conn[d] # "closed"
      BY <2>1, <2>3 DEF Typed, TypeOK
    <3>2. Replies(d)' = Replies(d)
      BY <1>4, <3>1, DropKeepsPrefix
    <3> QED
      BY <2>1, <3>1, <3>2
  <2> QED
    BY <2>2, <2>3
<1>5. CASE Handle
  <2>1. ASSUME NEW kind \in Kinds, NEW ids \in SUBSET Int, Say(kind, ids), Done,
               pc \notin {"loop", "cleanup"},
               Fits(This, [to |-> Number, kind |-> kind, ids |-> ids]),
               conn' \in {conn, [conn EXCEPT ![cur] = "closing"]},
               UNCHANGED <<server, sent, read, cur, written>>
        PROVE  Counted'
    BY <2>1, CountedReply
  <2>2. ASSUME NEW ids \in SUBSET Int, Say("ids", ids), pc = "frame", pc' = "cleanup",
               Fits(This, [to |-> Number, kind |-> "ids", ids |-> ids]),
               UNCHANGED <<server, conn, sent, read, done, cur, written>>
        PROVE  Counted'
    <3>1. "ids" \in Kinds /\ pc \notin {"loop", "cleanup"} /\ cur' = cur /\ sent' = sent
          /\ written' = written /\ conn' = conn /\ done' = done
      BY <2>2 DEF Kinds
    <3> QED
      BY <2>2, <3>1, CountedReply
  <2>3. ASSUME Done, pc = "cleanup", UNCHANGED <<server, conn, sent, read, cur, queue, written>>
        PROVE  Counted'
    <3>1. \A d \in Conns : Replies(d)' = Replies(d)
      BY <2>3 DEF Replies
    <3>2. pc' # "cleanup" /\ done'[cur] = done[cur] + 1 /\ done[cur] \in Nat
          /\ \A d \in Conns : d # cur => done'[d] = done[d]
      BY <2>3 DEF Done, Typed, TypeOK
    <3>3. conn' = conn /\ sent' = sent /\ cur' = cur /\ cur \in Conns /\ conn[cur] # "closed"
      BY <2>3 DEF Typed, TypeOK
    <3>4. ASSUME NEW d \in Conns, conn[d] # "closed" PROVE Len(Replies(d)) = done'[d]
      <4>1. Len(Replies(d)) = done[d] + (IF cur = d THEN 1 ELSE 0)
        BY <2>3, <3>4
      <4>2. CASE d = cur
        BY <3>2, <4>1, <4>2
      <4>3. CASE d # cur
        <5>1. done[d] \in Nat
          BY DEF Typed, TypeOK
        <5> QED
          BY <3>2, <4>1, <4>3, <5>1
      <4> QED
        BY <4>2, <4>3
    <3> QED
      BY <3>1, <3>2, <3>3, <3>4
  <2>4. ASSUME pc = "frame", pc' \in {"document", "unwind", "query", "submit"},
               UNCHANGED <<server, conn, sent, read, done, cur, queue, written>>
        PROVE  Counted'
    BY <2>4 DEF Replies
  <2>5. ASSUME UNCHANGED <<conn, sent, read, done, pc, cur, queue, written>>
        PROVE  Counted'
    BY <2>5 DEF Replies
  <2> QED
    BY <1>5, Replying, <2>1, <2>2, <2>3, <2>4, <2>5
<1>6. CASE Stop \/ UNCHANGED vars
  BY <1>6 DEF Stop, vars, Replies
<1> QED
  BY <1>1, <1>2, <1>3, <1>4, <1>5, <1>6 DEF Next

LEMMA CountedAlways == Spec => [](Typed /\ Counted)
BY TypedInit, TypedNext, AtHandInit, AtHandNext, CountedInit, CountedNext, PTL DEF Spec

(* Whatever a command is, and whatever throws, fails or stops, replies are  *)
(* queued and written in the order of the frames, one for each.             *)
THEOREM OneReplyToEach == Spec => []OneReplyEach
<1>1. Counted => OneReplyEach
  BY DEF Counted
<1> QED
  BY CountedAlways, <1>1, PTL

(* The reply of a frame is of the kind the frame asks for, or an error, and *)
(* about the document the frame names.                                      *)
THEOREM RepliesAreFit == Spec => []RepliesFit
<1>1. Counted => RepliesFit
  BY DEF Counted
<1> QED
  BY CountedAlways, <1>1, PTL

LEMMA ServiceNext ==
  Typed /\ Counted /\ [Next]_vars
    => \A c \in Conns : Service(c)!Next \/ UNCHANGED Service(c)!vars
<1> SUFFICES ASSUME Typed, Counted, [Next]_vars, NEW c \in Conns
             PROVE  Service(c)!Next \/ UNCHANGED Service(c)!vars
  OBVIOUS
<1> DEFINE gone == server = "ended" \/ conn[c] = "closed"
           ask == Len(sent'[c]) = Len(sent[c]) + 1 /\ written' = written /\ (gone' <=> gone)
           answer == /\ ~gone /\ sent' = sent
                     /\ Len(written'[c]) \in Len(written[c]) + 1 .. Len(sent[c])
           end == sent' = sent /\ written' = written /\ gone'
           none == sent'[c] = sent[c] /\ written'[c] = written[c] /\ (gone' <=> gone)
<1>1. ASSUME NEW d \in Conns, Send(d) PROVE ask \/ none
  <2>1. PICK f \in Frame : sent' = [sent EXCEPT ![d] = Append(@, f)]
    BY <1>1 DEF Send
  <2>2. sent[d] \in Seq(Frame)
    BY DEF Typed, TypeOK
  <2>3. Len(Append(sent[d], f)) = Len(sent[d]) + 1
    BY <2>2, AppendProperties
  <2> QED
    BY <1>1, <2>1, <2>3 DEF Send, Typed, TypeOK
<1>2. ASSUME NEW d \in Conns, Accept(d) \/ Read(d) PROVE none
  BY <1>2 DEF Accept, Read, Free, Move, Typed, TypeOK
<1>3. ASSUME NEW d \in Conns, Drop(d) PROVE end \/ none
  BY <1>3 DEF Drop, Typed, TypeOK
<1>4. ASSUME NEW d \in Conns, Write(d) PROVE answer \/ none
  <2>1. CASE d # c
    BY <1>4, <2>1 DEF Write, Free, Typed, TypeOK
  <2>2. CASE d = c
    <3>1. ~gone /\ sent' = sent
      BY <1>4, <2>2 DEF Write, Free
    <3>2. Len(Replies(c)) <= Len(sent[c]) /\ Len(sent[c]) \in Nat
      BY <3>1, RepliesAreAsked, LenProperties DEF Counted, Typed, TypeOK
    <3>3. queue[c] \in Seq(Reply) /\ queue[c] # <<>>
      BY <1>4, <2>2 DEF Write, Typed, TypeOK
    <3>4. Len(queue[c]) \in Nat \ {0}
      BY <3>3, EmptySeq
    <3>5. Len(written'[c]) = Len(Replies(c))
      BY <1>4, <2>2 DEF Write, Replies, Typed, TypeOK
    <3>6. Len(Replies(c)) = Len(written[c]) + Len(queue[c])
      BY RepliesKnown
    <3>8. Len(written[c]) \in Nat
      BY RepliesKnown
    <3>7. Len(written'[c]) \in Len(written[c]) + 1 .. Len(sent[c])
      <4> HIDE DEF gone
      <4> QED
        BY <3>2, <3>4, <3>5, <3>6, <3>8, Longer, Zenon
    <3> QED
      BY <3>1, <3>7
  <2> QED
    BY <2>1, <2>2
<1>5. ASSUME Handle PROVE end \/ none
  <2>1. sent' = sent /\ written' = written /\ (server' = "ended" \/ server' = server \/ server' = "hung")
        /\ (conn' = conn \/ conn' = [conn EXCEPT ![cur] = "closing"]) /\ server = "up"
    BY <1>5 DEF Handle, Answer, Takes, Goes, AckClose, Reject, Leaderboard, DocumentAborts,
       DocumentFails, Document, DocumentReply, DocidFails, Docid, DocidThrows, DocidReturns,
       DocidCaught, DeletedTwice, Query, QueryReply, QueryDies, QueryHangs, SubmitFails, Submit,
       SubmitReply
  <2>2. pc # "loop"
    BY <1>5 DEF Handle, Answer, Takes, Goes, AckClose, Reject, Leaderboard, DocumentAborts,
       DocumentFails, Document, DocumentReply, DocidFails, Docid, DocidThrows, DocidReturns,
       DocidCaught, DeletedTwice, Query, QueryReply, QueryDies, QueryHangs, SubmitFails, Submit,
       SubmitReply
  <2>3. conn[cur] # "closed" /\ cur \in Conns
    BY <2>2 DEF Typed, TypeOK
  <2>4. (conn[c] = "closed") = (conn'[c] = "closed")
    BY <2>1, <2>3 DEF Typed, TypeOK
  <2> QED
    BY <2>1, <2>4
<1>6. ASSUME Stop PROVE end
  BY <1>6 DEF Stop
<1>7. ASSUME UNCHANGED vars PROVE none
  BY <1>7 DEF vars
<1> HIDE DEF gone, ask, answer, end, none
<1>8. ask \/ answer \/ end \/ none
  BY <1>1, <1>2, <1>3, <1>4, <1>5, <1>6, <1>7 DEF Next
<1>9. CASE ask
  BY <1>9 DEF ask, gone, Service!Next, Service!Ask
<1>10. CASE answer
  BY <1>10 DEF answer, gone, Service!Next, Service!Answer, Service!End
<1>11. CASE end
  BY <1>11 DEF end, gone, Service!Next, Service!End
<1>12. CASE none
  BY <1>12 DEF none, gone, Service!vars
<1> QED
  BY <1>8, <1>9, <1>10, <1>11, <1>12

LEMMA ServiceInit == Init => \A c \in Conns : Service(c)!Init
BY EmptySeq DEF Init, Service!Init

(* To each of its clients the server is what CommandService promises, the   *)
(* other clients, failures and a signal notwithstanding.                    *)
THEOREM ServerServesEach == Spec => ServesEach
<1>1. Typed /\ Counted /\ [Next]_vars
        => [\A c \in Conns : Service(c)!Next \/ UNCHANGED Service(c)!vars]_vars
  BY ServiceNext
<1> QED
  BY CountedAlways, ServiceInit, <1>1, PTL DEF Spec, ServesEach
=============================================================================
