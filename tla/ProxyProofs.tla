---------------------------- MODULE ProxyProofs -----------------------------
(***************************************************************************)
(* Theorems about Proxy: for any requests, tokens and answers, and however *)
(* often lim is killed, each answer is recorded once, and charged what was *)
(* spent if llama-server reports it honestly.                              *)
(***************************************************************************)
EXTENDS Proxy, TLAPS, WellFoundedInduction, SequenceTheorems, FiniteSetTheorems

Below == {ss \in Nat \X Nat : ss[1] < ss[2]}

LEMMA LeastExists ==
  ASSUME NEW T \in SUBSET Nat, T # {}
  PROVE  \E x \in T : \A y \in T : ~ (y < x)
<1>1. IsWellFoundedOn(Below, Nat)
  BY NatLessThanWellFounded DEF OpToRel, Below
<1>2. \E x \in T : \A y \in T : ~ (<<y, x>> \in Below)
  BY <1>1, WFMin
<1> QED BY <1>2 DEF Below

\* A set of positions that is not empty has a last one.
LEMMA LastExists ==
  ASSUME NEW n \in Nat, NEW I \in SUBSET (1..n), I # {}
  PROVE  Max(I) \in I /\ \A i \in I : i <= Max(I)
<1> DEFINE Back == {n - i : i \in I}
<1>1. Back \in SUBSET Nat /\ Back # {}
  <2>1. \A i \in I : i \in Nat /\ n - i \in Nat
    OBVIOUS
  <2>2. \A b \in Back : b \in Nat
    BY <2>1
  <2>3. PICK i \in I : TRUE
    OBVIOUS
  <2>4. n - i \in Back
    OBVIOUS
  <2> QED BY <2>2, <2>4
<1>2. \E b \in Back : \A c \in Back : ~ (c < b)
  BY ONLY <1>1, LeastExists
<1>3. PICK i \in I : \A j \in I : ~ (n - j < n - i)
  BY <1>2
<1>4. \A j \in I : i >= j
  BY <1>3
<1> QED BY <1>4 DEF Max

\* The numbers of a stream are those of its last chunk that has any.
LEMMA SelectedLast ==
  ASSUME NEW body \in Seq(Chunk), \E i \in DOMAIN body : Carries(FromLlamaResp(body[i]))
  PROVE  \E i \in DOMAIN body :
           /\ ExtractStreamStats(body) = FromLlamaResp(body[i])
           /\ Carries(FromLlamaResp(body[i]))
           /\ \A j \in DOMAIN body : Carries(FromLlamaResp(body[j])) => j <= i
<1> DEFINE I == {i \in 1..Len(body) : Carries(FromLlamaResp(body[i]))}
           last == SelectLastInSeq(body, LAMBDA chunk : Carries(FromLlamaResp(chunk)))
<1>1. last = IF I # {} THEN Max(I) ELSE 0
  BY DEF SelectLastInSeq
<1>2. I # {}
  OBVIOUS
<1>3. I \in SUBSET (1..Len(body)) /\ Len(body) \in Nat
  OBVIOUS
<1>4. last = Max(I)
  BY <1>1, <1>2
<1>5. Max(I) \in I /\ \A i \in I : i <= Max(I)
  BY ONLY <1>2, <1>3, LastExists
<1>6. ExtractStreamStats(body) = FromLlamaResp(body[last])
  BY <1>4, <1>5 DEF ExtractStreamStats
<1>7. last \in DOMAIN body /\ Carries(FromLlamaResp(body[last]))
  <2>1. last \in I
    BY <1>4, <1>5
  <2>2. I \subseteq DOMAIN body /\ \A i \in I : Carries(FromLlamaResp(body[i]))
    OBVIOUS
  <2> HIDE DEF I, last
  <2> QED BY <2>1, <2>2
<1>8. ASSUME NEW j \in DOMAIN body, Carries(FromLlamaResp(body[j]))
      PROVE  j <= last
  <2>1. j \in I
    BY <1>8
  <2> HIDE DEF I, last
  <2> QED BY <1>4, <1>5, <2>1
<1> HIDE DEF I, last
<1> QED BY <1>6, <1>7, <1>8

LEMMA NothingSelected ==
  ASSUME NEW body \in Seq(Chunk), \A i \in DOMAIN body : ~Carries(FromLlamaResp(body[i]))
  PROVE  ExtractStreamStats(body) = NoStats
<1>1. {i \in 1..Len(body) : Carries(FromLlamaResp(body[i]))} = {}
  OBVIOUS
<1>2. SelectLastInSeq(body, LAMBDA chunk : Carries(FromLlamaResp(chunk))) = 0
  BY <1>1 DEF SelectLastInSeq
<1> QED BY <1>2 DEF ExtractStreamStats

LEMMA ChunkNumbers ==
  ASSUME NEW chunk \in Chunk
  PROVE  FromLlamaResp(chunk) \in Numbers
<1>1. chunk.usage # NoUsage => chunk.usage \in Usage
  BY DEF Chunk
<1> QED BY <1>1 DEF Chunk, Usage, Numbers, FromLlamaResp

LEMMA NoStatsAreNumbers == NoStats \in Numbers
BY DEF NoStats, Numbers

\* What is made of any part of an answer is three numbers.
LEMMA ExtractedNumbers ==
  ASSUME NEW stream \in BOOLEAN, NEW body \in Seq(Chunk)
  PROVE  ExtractStats(stream, body) \in Numbers
<1>1. ExtractStreamStats(body) \in Numbers
  <2>1. CASE \A i \in DOMAIN body : ~Carries(FromLlamaResp(body[i]))
    BY <2>1, NothingSelected, NoStatsAreNumbers
  <2>2. CASE \E i \in DOMAIN body : Carries(FromLlamaResp(body[i]))
    <3>1. PICK i \in DOMAIN body : ExtractStreamStats(body) = FromLlamaResp(body[i])
      BY <2>2, SelectedLast
    <3>2. body[i] \in Chunk
      OBVIOUS
    <3> QED BY <3>1, <3>2, ChunkNumbers
  <2> QED BY <2>1, <2>2
<1>2. ASSUME body # <<>>
      PROVE  FromLlamaResp(body[1]) \in Numbers
  <2>1. body[1] \in Chunk
    BY <1>2
  <2> QED BY <2>1, ChunkNumbers
<1> QED BY <1>1, <1>2 DEF ExtractStats

LEMMA AnswerTyped ==
  ASSUME TypeOK, NEW r \in Requests
  PROVE  answer[r] \in [stream : BOOLEAN, chunks : Seq(Chunk)]
<1>1. <<>> \in Seq(Chunk) /\ FALSE \in BOOLEAN
  OBVIOUS
<1>2. NoAnswer \in [stream : BOOLEAN, chunks : Seq(Chunk)]
  BY <1>1, Zenon DEF NoAnswer
<1>3. answer[r] \in Answers \cup {NoAnswer}
  BY DEF TypeOK
<1> QED BY <1>2, <1>3, ConstantsAreSane

\* So is what lim takes down of a request.
LEMMA StatsTyped ==
  ASSUME TypeOK, NEW r \in Requests, read[r] <= Len(answer[r].chunks)
  PROVE  StatsOf(r) \in Numbers
<1>1. answer[r] \in [stream : BOOLEAN, chunks : Seq(Chunk)]
  BY AnswerTyped
<1>2. read[r] \in Nat
  BY DEF TypeOK
<1>3. SubSeq(answer[r].chunks, 1, read[r]) \in Seq(Chunk)
  BY <1>1, <1>2, SubSeqProperties
<1> QED BY <1>1, <1>3, ExtractedNumbers DEF StatsOf

LEMMA InitEstablishesInv == Init => ProxyInv
<1> SUFFICES ASSUME Init PROVE ProxyInv
  OBVIOUS
<1>1. TypeOK
  BY ConstantsAreSane DEF Init, TypeOK, Serving, Recording
<1>2. \A r \in Requests : RequestInv(r)
  BY DEF Init, RequestInv, Serving, Recording, Written, NoAnswer
<1>3. \A r \in Requests : LoggedInv(r)
  BY DEF Init, LoggedInv
<1> QED BY <1>1, <1>2, <1>3 DEF ProxyInv

LEMMA MovesKeepTypes ==
  ASSUME TypeOK, NEW r \in Requests, NEW from, NEW to \in Serving,
         Refuse(r, from) \/ Proceed(r, from, to)
  PROVE  TypeOK'
<1> USE DEF Goto, sent, capture, books
<1>1. pc' \in [Requests -> {"unsent", "done", "killed"} \cup Serving \cup Recording]
  <2> DEFINE Places == {"unsent", "done", "killed"} \cup Serving \cup Recording
  <2>1. pc \in [Requests -> Places] /\ to \in Places /\ "done" \in Places
    BY DEF TypeOK
  <2>2. pc' = [pc EXCEPT ![r] = "done"] \/ pc' = [pc EXCEPT ![r] = to]
    BY DEF Refuse, Proceed
  <2> HIDE DEF Places
  <2>3. pc' \in [Requests -> Places]
    BY <2>1, <2>2
  <2> QED BY <2>3 DEF Places
<1>2. by' \in [Requests -> {"nobody", "lim", "instance"}]
  BY DEF TypeOK, Refuse, Proceed
<1>3. UNCHANGED <<token, sent, answer, read, once, books, kills>>
  BY DEF Refuse, Proceed
<1> QED BY <1>1, <1>2, <1>3 DEF TypeOK

\* A handler's step keeps every variable's type.
LEMMA HandleKeepsTypes ==
  ASSUME ProxyInv, NEW r \in Requests, Handle(r)
  PROVE  TypeOK'
<1> USE DEF Goto, sent, capture, books
<1>1. TypeOK /\ RequestInv(r)
  BY DEF ProxyInv
<1>2. CASE Authenticate(r)
  <2>1. CASE Refuse(r, "sent")
    BY <1>1, <2>1, MovesKeepTypes DEF Serving
  <2>2. CASE ~Refuse(r, "sent")
    <3>1. Lookup(r) \in Tokens \cup {NoToken}
      BY <1>1 DEF TypeOK, Lookup
    <3>2. /\ pc' = [pc EXCEPT ![r] = "routing"]
          /\ tokenID' = [tokenID EXCEPT ![r] = Lookup(r)]
          /\ UNCHANGED <<token, raw, capture, books, kills>>
      BY <1>2, <2>2 DEF Authenticate
    <3>3. tokenID' \in [Requests -> Tokens \cup {NoToken}]
      BY <1>1, <3>1, <3>2 DEF TypeOK
    <3>4. pc' \in [Requests -> {"unsent", "done", "killed"} \cup Serving \cup Recording]
      BY <1>1, <3>2 DEF TypeOK, Serving
    <3>5. TypeOK
      BY <1>1
    <3> QED BY ONLY <3>2, <3>3, <3>4, <3>5 DEF TypeOK, capture, books
  <2> QED BY <2>1, <2>2
<1>3. CASE Route(r) \/ EnsureReturns(r)
  BY <1>1, <1>3, MovesKeepTypes DEF Route, EnsureReturns, Serving
<1>4. CASE Forward(r)
  <2>1. CASE Refuse(r, "ready")
    BY <1>1, <2>1, MovesKeepTypes DEF Serving
  <2>2. CASE ~Refuse(r, "ready")
    <3>1. PICK a \in Answers :
            /\ Goto(r, "ready", "reading")
            /\ by' = [by EXCEPT ![r] = "instance"]
            /\ answer' = [answer EXCEPT ![r] = a]
            /\ UNCHANGED <<token, sent, read, once, books, kills>>
      BY <1>4, <2>2 DEF Forward
    <3>2. answer' \in [Requests -> Answers \cup {NoAnswer}]
      BY <1>1, <3>1 DEF TypeOK
    <3>3. by' \in [Requests -> {"nobody", "lim", "instance"}]
      BY <1>1, <3>1 DEF TypeOK
    <3>4. pc' \in [Requests -> {"unsent", "done", "killed"} \cup Serving \cup Recording]
      BY <1>1, <3>1 DEF TypeOK, Serving
    <3> QED BY <1>1, <3>1, <3>2, <3>3, <3>4 DEF TypeOK
  <2> QED BY <2>1, <2>2
<1>5. ASSUME NEW from, NEW next \in {"closing", "done"}, Finalize(r, from, next),
             UNCHANGED <<token, sent, by, answer, read, books, kills>>
      PROVE  TypeOK'
  BY <1>1, <1>5 DEF TypeOK, Finalize, Serving, Recording
<1>6. CASE Read(r)
  <2>1. CASE Proceed(r, "reading", "closing")
    BY <1>1, <2>1, MovesKeepTypes DEF Serving
  <2>2. CASE /\ Finalize(r, "reading", "closing")
             /\ UNCHANGED <<token, sent, by, answer, read, books, kills>>
    BY <1>5, <2>2
  <2>3. CASE /\ read' = [read EXCEPT ![r] = @ + 1]
             /\ UNCHANGED <<token, pc, sent, by, answer, once, books, kills>>
    <3>1. read' \in [Requests -> Nat]
      BY <1>1, <2>3 DEF TypeOK
    <3> QED BY <1>1, <2>3, <3>1 DEF TypeOK
  <2> QED BY <1>6, <2>1, <2>2, <2>3 DEF Read
<1>7. CASE Close(r)
  BY <1>5, <1>7 DEF Close
<1>8. StatsOf(r) \in Numbers
  BY <1>1, StatsTyped DEF RequestInv
<1>9. CASE Save(r)
  <2>1. rows \in [Requests -> Seq(Row)]
    BY <1>1 DEF TypeOK
  <2>2. Entry(r) \in Row
    BY <1>1, <1>8 DEF Entry, Row, TypeOK
  <2>3. Append(rows[r], Entry(r)) \in Seq(Row)
    BY <2>1, <2>2
  <2>4. rows' \in [Requests -> Seq(Row)]
    BY <1>9, <2>1, <2>3 DEF Save
  <2> QED BY <1>1, <1>9, <2>4 DEF TypeOK, Save, Recording
<1>10. CASE Publish(r)
  <2>1. pc' \in [Requests -> {"unsent", "done", "killed"} \cup Serving \cup Recording]
    BY <1>1, <1>10 DEF TypeOK, Publish, Proceed, Recording
  <2>2. UNCHANGED <<token, sent, capture, books, kills>>
    BY <1>10 DEF Publish, Proceed
  <2>3. TypeOK
    BY <1>1
  <2> QED BY ONLY <2>1, <2>2, <2>3 DEF TypeOK, sent, capture, books
<1>11. CASE Count(r)
  <2>1. StatsOf(r).promptN \in Nat /\ StatsOf(r).predictedN \in Nat
    BY <1>8 DEF Numbers
  <2>2. total.prompt \in Nat /\ total.predicted \in Nat
    BY <1>1 DEF TypeOK
  <2>3. total' \in [prompt : Nat, predicted : Nat] /\ counted' \in [Requests -> Nat]
    <3>1. total' = [prompt |-> total.prompt + StatsOf(r).promptN,
                    predicted |-> total.predicted + StatsOf(r).predictedN]
      BY <1>11 DEF Count, RecordRequest
    <3>2. counted' = [counted EXCEPT ![r] = @ + 1] /\ counted \in [Requests -> Nat]
      BY <1>1, <1>11 DEF Count, RecordRequest, TypeOK
    <3> QED BY <2>1, <2>2, <3>1, <3>2
  <2> QED BY <1>1, <1>11, <2>3 DEF TypeOK, Count, Serving
<1> QED BY <1>2, <1>3, <1>4, <1>6, <1>7, <1>9, <1>10, <1>11 DEF Handle

\* It keeps the invariant of its own request.
LEMMA HandleKeepsOwn ==
  ASSUME ProxyInv, NEW r \in Requests, Handle(r)
  PROVE  RequestInv(r)'
<1> USE DEF Serving, Recording, Goto, sent, capture, books, Written, RequestInv
<1>1. TypeOK /\ RequestInv(r)
  BY DEF ProxyInv
<1>2. answer[r].chunks \in Seq(Chunk)
  BY <1>1, AnswerTyped
<1>3. CASE Authenticate(r) \/ Route(r) \/ EnsureReturns(r)
  BY <1>1, <1>3 DEF TypeOK, Authenticate, Route, EnsureReturns, Proceed, Refuse
<1>4. CASE Forward(r)
  <2>1. \A a \in Answers : Len(a.chunks) \in Nat
    BY ConstantsAreSane
  <2> QED BY <1>1, <1>4, <2>1 DEF TypeOK, Forward, Refuse
<1>5. CASE Read(r)
  BY <1>1, <1>2, <1>5 DEF TypeOK, Read, Finalize, Proceed, Whole
<1>6. CASE Close(r)
  BY <1>1, <1>6 DEF TypeOK, Close, Finalize
<1>7. CASE Save(r)
  <2>1. rows[r] \in Seq(Row) /\ rows \in [Requests -> Seq(Row)]
    BY <1>1 DEF TypeOK
  <2>2. Len(rows[r]) = 0 /\ counted[r] = 0 /\ by[r] = "instance" /\ once[r]
    BY <1>1, <1>7 DEF Save
  <2>3. Len(rows'[r]) \in {0, 1} /\ (pc'[r] = "publish" => Len(rows'[r]) = 1)
    BY <1>1, <1>7, <2>1, <2>2 DEF Save, TypeOK
  <2>4. pc'[r] \in {"publish", "count"}
    BY <1>1, <1>7 DEF Save, TypeOK
  <2> QED BY <1>1, <1>7, <2>2, <2>3, <2>4 DEF Save
<1>8. CASE Publish(r)
  BY <1>1, <1>8 DEF TypeOK, Publish, Proceed
<1>9. CASE Count(r)
  BY <1>1, <1>9 DEF TypeOK, Count, RecordRequest
<1> QED BY <1>3, <1>4, <1>5, <1>6, <1>7, <1>8, <1>9 DEF Handle

\* What it has written stays what it would write.
LEMMA HandleKeepsLogged ==
  ASSUME ProxyInv, NEW r \in Requests, Handle(r)
  PROVE  LoggedInv(r)'
<1> USE DEF Goto, sent, capture, books
<1>1. TypeOK /\ RequestInv(r) /\ LoggedInv(r)
  BY DEF ProxyInv
<1>2. rows[r] \in Seq(Row) /\ rows \in [Requests -> Seq(Row)]
  BY <1>1 DEF TypeOK
<1>3. ASSUME UNCHANGED <<tokenID, answer, read>>
      PROVE  Entry(r)' = Entry(r)
  BY <1>3 DEF Entry, StatsOf
<1>4. CASE Save(r)
  <2>1. Len(rows[r]) = 0
    BY <1>1, <1>4 DEF Save, RequestInv, Written
  <2>2. rows'[r] # <<>> => rows'[r][1] = Entry(r)
    <3>1. rows[r] = <<>>
      BY <1>2, <2>1
    <3>2. rows'[r] = rows[r] \/ rows'[r] = Append(rows[r], Entry(r))
      BY <1>2, <1>4 DEF Save
    <3> QED BY <3>1, <3>2
  <2> QED BY <1>3, <1>4, <2>2 DEF Save, LoggedInv
<1>5. CASE Close(r) \/ Publish(r) \/ Count(r)
  BY <1>1, <1>3, <1>5 DEF Close, Publish, Proceed, Count, LoggedInv
<1>6. CASE Authenticate(r) \/ Route(r) \/ EnsureReturns(r) \/ Forward(r) \/ Read(r)
  <2>1. pc[r] \in Serving \ {"closing"}
    BY <1>6 DEF Authenticate, Route, EnsureReturns, Forward, Read, Refuse, Proceed, Finalize,
                Serving
  <2>2. Len(rows[r]) = 0
    BY <1>1, <2>1 DEF RequestInv, Written
  <2>3. rows' = rows
    BY <1>6 DEF Authenticate, Route, EnsureReturns, Forward, Read, Refuse, Proceed
  <2> QED BY <1>2, <2>2, <2>3 DEF LoggedInv
<1> QED BY <1>4, <1>5, <1>6 DEF Handle

\* A step of the handler of r leaves the other requests as they are.
LEMMA OthersStay ==
  ASSUME TypeOK, NEW r \in Requests, Handle(r), NEW q \in Requests, q # r
  PROVE  /\ <<pc[q], by[q], answer[q], read[q], once[q], rows[q], counted[q]>>'
            = <<pc[q], by[q], answer[q], read[q], once[q], rows[q], counted[q]>>
         /\ tokenID'[q] = tokenID[q]
BY DEF TypeOK, Handle, Authenticate, Route, EnsureReturns, Forward, Read, Close, Save, Publish,
       Count, Refuse, Proceed, Finalize, RecordRequest, Goto, sent, capture, books

LEMMA StepPreservesInv == ProxyInv /\ [Next]_vars => ProxyInv'
<1> SUFFICES ASSUME ProxyInv, [Next]_vars PROVE ProxyInv'
  OBVIOUS
<1>1. TypeOK /\ \A q \in Requests : RequestInv(q) /\ LoggedInv(q)
  BY DEF ProxyInv
<1>2. ASSUME NEW r \in Requests, Handle(r)
      PROVE  ProxyInv'
  <2>1. TypeOK' /\ RequestInv(r)' /\ LoggedInv(r)'
    BY <1>2, HandleKeepsTypes, HandleKeepsOwn, HandleKeepsLogged
  <2>2. ASSUME NEW q \in Requests, q # r
        PROVE  RequestInv(q)' /\ LoggedInv(q)'
    BY <1>1, <1>2, <2>2, OthersStay DEF RequestInv, Written, LoggedInv, Entry, StatsOf
  <2> QED BY <2>1, <2>2 DEF ProxyInv
<1>3. ASSUME UNCHANGED <<tokenID, capture, rows>>
      PROVE  \A q \in Requests : LoggedInv(q)'
  BY <1>1, <1>3 DEF LoggedInv, Entry, StatsOf, capture
<1>4. ASSUME NEW r \in Requests, NEW t \in Tokens \cup {NoToken}, Send(r, t)
      PROVE  ProxyInv'
  <2>1. TypeOK'
    BY <1>1, <1>4 DEF TypeOK, Send, Goto, Serving, Recording, capture, books
  <2>2. \A q \in Requests : RequestInv(q)'
    BY <1>1, <1>4 DEF TypeOK, Send, Goto, Serving, Recording, capture, books,
                      RequestInv, Written
  <2> QED BY <1>3, <1>4, <2>1, <2>2 DEF ProxyInv, Send, books
<1>5. ASSUME UNCHANGED <<pc, sent, capture, books>>, TypeOK'
      PROVE  ProxyInv'
  BY <1>1, <1>3, <1>5 DEF ProxyInv, RequestInv, Written, sent, capture, books
<1>6. ASSUME NEW t \in Tokens, CreateToken(t) \/ Revoke(t)
      PROVE  ProxyInv'
  <2>1. TypeOK'
    BY <1>1, <1>6 DEF TypeOK, CreateToken, Revoke, sent, capture, books
  <2> QED BY <1>5, <1>6, <2>1 DEF CreateToken, Revoke
<1>8. CASE Kill
  <2>1. TypeOK'
    BY <1>1, <1>8, ConstantsAreSane DEF TypeOK, Kill, sent, capture
  <2>2. \A q \in Requests : Len(rows[q]) \in {0, 1}
    BY <1>1 DEF TypeOK, RequestInv, Written, Serving, Recording
  <2>3. \A q \in Requests : RequestInv(q)'
    BY <1>1, <1>8, <2>2 DEF TypeOK, Kill, RequestInv, Written, Serving, Recording, capture
  <2> QED BY <1>3, <1>8, <2>1, <2>3 DEF ProxyInv, Kill, sent
<1>9. CASE UNCHANGED vars
  BY <1>1, <1>5, <1>9 DEF vars, TypeOK, sent, capture, books
<1> QED BY <1>2, <1>4, <1>6, <1>8, <1>9 DEF Next

\* However requests, kills and refusals of the database fall together, the
\* state of a request and its books are those of its handler's place.
THEOREM Invariance == Spec => []ProxyInv
BY InitEstablishesInv, StepPreservesInv, PTL DEF Spec

\* Every variable keeps its type: the numbers that are added up are numbers.
THEOREM TypeCorrect == Spec => []TypeOK
<1>1. ProxyInv => TypeOK
  BY DEF ProxyInv
<1> QED BY <1>1, Invariance, PTL

\* captureBody's once is enough: no answer is logged or counted twice.
THEOREM NothingTwice == Spec => []RecordedOnce
<1>1. ProxyInv => RecordedOnce
  <2> SUFFICES ASSUME ProxyInv, NEW r \in Requests
               PROVE  Len(rows[r]) <= 1 /\ counted[r] <= 1
    BY DEF RecordedOnce
  <2>1. Len(rows[r]) \in {0, 1} /\ counted[r] \in {0, 1}
    BY DEF ProxyInv, TypeOK, RequestInv, Written, Serving, Recording
  <2>2. \A n \in {0, 1} : n <= 1
    OBVIOUS
  <2> QED BY <2>1, <2>2
<1> QED BY <1>1, Invariance, PTL

\* Every answer of an instance is counted when its handler ends, whatever
\* cut it short, and no answer of lim's own is.
THEOREM NothingMissed == Spec => []AnswersAreCounted
<1>1. ProxyInv => AnswersAreCounted
  BY DEF ProxyInv, TypeOK, RequestInv, Written, AnswersAreCounted
<1> QED BY <1>1, Invariance, PTL

-----------------------------------------------------------------------------
\* What an honest chunk says, whether in timings or in usage.
LEMMA HonestChunk ==
  ASSUME NEW a \in Answers \cup {NoAnswer}, NEW i \in DOMAIN a.chunks
  PROVE  LET stats == FromLlamaResp(a.chunks[i]) IN
           /\ stats \in Numbers
           /\ Carries(stats) <=> Numbered(a.chunks[i])
           /\ stats.cacheN + stats.promptN <= Spent.cacheN + Spent.promptN
           /\ stats.predictedN <= Spent.predictedN
           /\ Numbered(a.chunks[i])
                /\ (\A j \in DOMAIN a.chunks : Numbered(a.chunks[j]) => j <= i) =>
                stats.promptN >= Spent.promptN /\ stats.predictedN = Spent.predictedN
<1> DEFINE chunk == a.chunks[i]
<1>1. a \in Answers
  BY DEF NoAnswer
<1>2. chunk \in Chunk
  BY <1>1, ConstantsAreSane
<1>3. Spent \in Numbers /\ Spent.promptN > 0
  BY AnswersAreHonest
<1>4. /\ IF Timed(chunk)
         THEN /\ chunk.cacheN = Spent.cacheN /\ chunk.promptN = Spent.promptN
              /\ chunk.predictedN <= Spent.predictedN
         ELSE chunk.cacheN = 0 /\ chunk.predictedN = 0
      /\ chunk.usage # NoUsage =>
           /\ chunk.usage.prompt = Spent.cacheN + Spent.promptN
           /\ chunk.usage.completion = Spent.predictedN
      /\ Timed(chunk) /\ (\A j \in DOMAIN a.chunks : Numbered(a.chunks[j]) => j <= i) =>
           chunk.predictedN = Spent.predictedN
  BY <1>1, AnswersAreHonest
<1> HIDE DEF chunk
<1>5. FromLlamaResp(chunk) \in Numbers
  BY <1>2, ChunkNumbers
<1>6. CASE Timed(chunk)
  <2>1. chunk.promptN \in Nat /\ chunk.promptN # 0
    BY <1>2, <1>6 DEF Timed, Chunk
  <2>2. FromLlamaResp(chunk) = [cacheN |-> Spent.cacheN, promptN |-> Spent.promptN,
                                predictedN |-> chunk.predictedN]
    BY <1>4, <1>6, <2>1 DEF FromLlamaResp
  <2> QED BY <1>3, <1>4, <1>5, <1>6, <2>2 DEF chunk, Carries, Numbered, Numbers
<1>7. CASE ~Timed(chunk) /\ chunk.usage # NoUsage
  <2>1. chunk.promptN = 0
    BY <1>2, <1>7 DEF Timed, Chunk
  <2>2. FromLlamaResp(chunk) = [cacheN |-> 0, promptN |-> Spent.cacheN + Spent.promptN,
                                predictedN |-> Spent.predictedN]
    BY <1>4, <1>7, <2>1 DEF FromLlamaResp
  <2> QED BY <1>3, <1>5, <1>7, <2>2 DEF chunk, Carries, Numbered, Numbers
<1>8. CASE ~Numbered(chunk)
  <2>1. ~Timed(chunk) /\ chunk.usage = NoUsage
    BY <1>8 DEF Numbered
  <2>2. chunk.promptN = 0
    BY <1>2, <2>1 DEF Timed, Chunk
  <2>3. FromLlamaResp(chunk) = [cacheN |-> 0, promptN |-> 0, predictedN |-> 0]
    BY <1>4, <2>1, <2>2 DEF FromLlamaResp
  <2> QED BY <1>3, <1>5, <1>8, <2>3 DEF chunk, Carries, Numbers
<1> QED BY <1>6, <1>7, <1>8 DEF Numbered

\* What is charged for as much of an answer as was read.
LEMMA HonestCharge ==
  ASSUME TypeOK, NEW r \in Requests, read[r] <= Len(answer[r].chunks)
  PROVE  LET stats == StatsOf(r) IN
           /\ stats.cacheN + stats.promptN <= Spent.cacheN + Spent.promptN
           /\ stats.predictedN <= Spent.predictedN
           /\ Whole(r) /\ HasNumbers(r) =>
                stats.promptN >= Spent.promptN /\ stats.predictedN = Spent.predictedN
<1> DEFINE a == answer[r]
           body == SubSeq(a.chunks, 1, read[r])
<1>1. a \in Answers \cup {NoAnswer} /\ a \in [stream : BOOLEAN, chunks : Seq(Chunk)]
  BY AnswerTyped DEF TypeOK
<1>2. read[r] \in Nat /\ read[r] <= Len(a.chunks)
  BY DEF TypeOK
<1> HIDE DEF a
<1>3. /\ body \in Seq(Chunk) /\ DOMAIN body = 1..read[r] /\ Len(body) = read[r]
      /\ \A i \in DOMAIN body : body[i] = a.chunks[i] /\ i \in DOMAIN a.chunks
  BY <1>1, <1>2, SubSeqProperties
<1> HIDE DEF body
<1>4. StatsOf(r) = ExtractStats(a.stream, body)
  BY DEF StatsOf, a, body
<1>5. CASE \A i \in DOMAIN body : ~Numbered(body[i])
  <2>1. \A i \in DOMAIN body : ~Carries(FromLlamaResp(body[i]))
    BY <1>1, <1>3, <1>5, HonestChunk
  <2>2. ExtractStreamStats(body) = NoStats
    BY <1>3, <2>1, NothingSelected
  <2>3. StatsOf(r).cacheN = 0 /\ StatsOf(r).promptN = 0 /\ StatsOf(r).predictedN = 0
    <3>1. CASE a.stream \/ body = <<>>
      BY <1>4, <2>2, <3>1 DEF ExtractStats, NoStats
    <3>2. CASE ~(a.stream \/ body = <<>>)
      <4>1. StatsOf(r) = FromLlamaResp(body[1]) /\ 1 \in DOMAIN body
        BY <1>3, <1>4, <3>2 DEF ExtractStats
      <4>2. FromLlamaResp(body[1]) \in Numbers /\ ~Carries(FromLlamaResp(body[1]))
        BY <1>3, <2>1, <4>1, ChunkNumbers
      <4> QED BY <4>1, <4>2 DEF Carries, Numbers
    <3> QED BY <3>1, <3>2
  <2>4. Whole(r) => \A j \in DOMAIN a.chunks : ~Numbered(a.chunks[j])
    BY <1>1, <1>3, <1>5 DEF Whole, HasNumbers, a
  <2> QED BY <2>3, <2>4, AnswersAreHonest DEF Numbers, HasNumbers, a
<1>6. ASSUME NEW i \in DOMAIN body, StatsOf(r) = FromLlamaResp(body[i]), Numbered(body[i]),
             \A j \in DOMAIN body : Numbered(body[j]) => j <= i
      PROVE  LET stats == StatsOf(r) IN
               /\ stats.cacheN + stats.promptN <= Spent.cacheN + Spent.promptN
               /\ stats.predictedN <= Spent.predictedN
               /\ Whole(r) => stats.promptN >= Spent.promptN /\ stats.predictedN = Spent.predictedN
  <2>1. i \in DOMAIN a.chunks /\ body[i] = a.chunks[i]
    BY <1>3
  <2>2. Whole(r) => \A j \in DOMAIN a.chunks : Numbered(a.chunks[j]) => j <= i
    BY <1>1, <1>3, <1>6 DEF Whole, HasNumbers, a
  <2> QED BY <1>1, <1>6, <2>1, <2>2, HonestChunk
<1>7. CASE \E i \in DOMAIN body : Numbered(body[i])
  <2>1. \A i \in DOMAIN body : Numbered(body[i]) <=> Carries(FromLlamaResp(body[i]))
    BY <1>1, <1>3, HonestChunk
  <2>2. CASE a.stream
    <3>1. \E i \in DOMAIN body :
            /\ ExtractStreamStats(body) = FromLlamaResp(body[i])
            /\ Carries(FromLlamaResp(body[i]))
            /\ \A j \in DOMAIN body : Carries(FromLlamaResp(body[j])) => j <= i
      BY <1>3, <1>7, <2>1, SelectedLast
    <3> QED BY <1>4, <1>6, <2>1, <2>2, <3>1 DEF ExtractStats
  <2>3. CASE ~a.stream
    <3>1. Len(a.chunks) <= 1 /\ Len(a.chunks) \in Nat
      BY <1>1, <2>3, AnswersAreHonest DEF NoAnswer
    <3>2. DOMAIN body = {1}
      BY <1>2, <1>3, <1>7, <3>1
    <3>3. body # <<>>
      <4>1. Len(body) # 0
        BY <1>2, <1>3, <1>7
      <4> QED BY <1>3, <4>1
    <3> QED BY <1>4, <1>6, <1>7, <2>3, <3>2, <3>3 DEF ExtractStats
  <2> QED BY <1>1, <2>2, <2>3
<1> QED BY <1>5, <1>6, <1>7 DEF HasNumbers, a

\* If llama-server counts right, no row charges more than was spent, nothing
\* is charged both as cached and as prompt, and no whole answer goes unpaid.
THEOREM ChargesAreRight == Spec => []ChargedRight
<1>1. ProxyInv => ChargedRight
  <2> SUFFICES ASSUME ProxyInv, NEW r \in Requests, NEW i \in DOMAIN rows[r]
               PROVE  LET stats == rows[r][i].stats IN
                        /\ stats.cacheN + stats.promptN <= Spent.cacheN + Spent.promptN
                        /\ stats.predictedN <= Spent.predictedN
                        /\ Whole(r) /\ HasNumbers(r) =>
                             stats.promptN >= Spent.promptN /\ stats.predictedN = Spent.predictedN
    BY DEF ChargedRight
  <2>1. rows[r] \in Seq(Row) /\ Len(rows[r]) \in {0, 1}
    BY DEF ProxyInv, TypeOK, RequestInv, Written, Serving, Recording
  <2>2. i = 1 /\ rows[r] # <<>>
    BY <2>1
  <2>3. rows[r][i].stats = StatsOf(r)
    <3>1. rows[r][1] = Entry(r)
      BY <2>2 DEF ProxyInv, LoggedInv
    <3> QED BY <2>2, <3>1 DEF Entry
  <2>4. TypeOK /\ read[r] <= Len(answer[r].chunks)
    BY DEF ProxyInv, RequestInv
  <2> QED BY <2>3, <2>4, HonestCharge
<1> QED BY <1>1, Invariance, PTL

\* Once a token is revoked and its requests are through, no handler gets in
\* with it again, and every row that is still to come is somebody else's.
THEOREM RevokedForGood ==
  Spec => [][\A t \in Tokens : Settled(t) =>
               /\ Settled(t)'
               /\ \A r \in Requests :
                    \/ rows'[r] = rows[r]
                    \/ rows'[r] = Append(rows[r], Entry(r)) /\ tokenID[r] # t]_vars
<1> DEFINE Kept(t) ==
      /\ Settled(t)'
      /\ \A r \in Requests :
           \/ rows'[r] = rows[r]
           \/ rows'[r] = Append(rows[r], Entry(r)) /\ tokenID[r] # t
<1>1. ASSUME TypeOK, Next, NEW t \in Tokens, Settled(t) PROVE Kept(t)
  <2> USE <1>1 DEF TypeOK, Settled, Goto
  <2>1. ASSUME NEW u \in Tokens, CreateToken(u) \/ Revoke(u) PROVE Kept(t)
    BY <2>1 DEF CreateToken, Revoke, sent, books
  <2>2. ASSUME NEW r \in Requests, NEW u \in Tokens \cup {NoToken}, Send(r, u) PROVE Kept(t)
    BY <2>2 DEF Send, books
  <2>3. ASSUME NEW r \in Requests, Handle(r) PROVE Kept(t)
    <3>1. CASE Authenticate(r)
      <4>1. token' = token /\ rows' = rows /\ pc[r] = "sent"
        BY <3>1 DEF Authenticate, Refuse, books
      <4>2. \A q \in Requests : tokenID'[q] = tokenID[q] \/ (q = r /\ tokenID'[q] # t)
        BY <3>1, ConstantsAreSane DEF Authenticate, Lookup, Refuse, sent
      <4>3. \A q \in Requests \ {r} : pc'[q] = pc[q]
        BY <3>1 DEF Authenticate, Refuse
      <4> QED
        BY <4>1, <4>2, <4>3
    <3>2. CASE Route(r) \/ EnsureReturns(r) \/ Forward(r) \/ Read(r) \/ Close(r) \/ Publish(r) \/ Count(r)
      <4>1. token' = token /\ rows' = rows /\ tokenID' = tokenID
        BY <3>2 DEF Route, EnsureReturns, Forward, Read, Close, Publish, Count, Proceed, Refuse,
           Finalize, sent, books
      <4>2. \A q \in Requests : pc[q] \in {"done", "killed"} => pc'[q] = pc[q]
        BY <3>2 DEF Route, EnsureReturns, Forward, Read, Close, Publish, Count, Proceed, Refuse,
           Finalize
      <4> QED
        BY <4>1, <4>2
    <3>3. CASE Save(r)
      <4>1. pc[r] = "save" /\ tokenID[r] # t
        BY <3>3 DEF Save
      <4>2. UNCHANGED <<token, tokenID>>
        BY <3>3 DEF Save, sent
      <4>3. \A q \in Requests : pc[q] \in {"done", "killed"} => pc'[q] = pc[q]
        BY <3>3 DEF Save
      <4>4. rows' = rows \/ rows' = [rows EXCEPT ![r] = Append(@, Entry(r))]
        BY <3>3 DEF Save
      <4>5. \A q \in Requests :
              rows'[q] = rows[q] \/ (rows'[q] = Append(rows[q], Entry(q)) /\ tokenID[q] # t)
        BY <4>1, <4>4
      <4> QED
        BY <4>2, <4>3, <4>5
    <3> QED
      BY <2>3, <3>1, <3>2, <3>3 DEF Handle
  <2>5. CASE Kill
    <3>1. UNCHANGED <<token, tokenID, rows>>
      BY <2>5 DEF Kill, sent
    <3>2. \A q \in Requests : pc[q] \in {"done", "killed"} => pc'[q] = "killed"
      BY <2>5 DEF Kill
    <3> QED
      BY <3>1, <3>2
  <2> QED
    BY <1>1, <2>1, <2>2, <2>3, <2>5 DEF Next
<1>2. TypeOK /\ [Next]_vars => [\A t \in Tokens : Settled(t) => Kept(t)]_vars
  BY <1>1
<1> QED
  BY <1>2, TypeCorrect, PTL DEF Spec

-----------------------------------------------------------------------------
(* Sums over finite sets. The induction is on the size of the set, by way  *)
(* of a smallest one for which the claim fails.                            *)
\* Of some finite sets one is the smallest.
LEMMA SmallestExists ==
  ASSUME NEW C, C # {}, \A S \in C : IsFiniteSet(S)
  PROVE  \E S \in C : \A T \in C : Cardinality(S) <= Cardinality(T)
<1> DEFINE Sizes == {Cardinality(S) : S \in C}
<1>1. \A S \in C : Cardinality(S) \in Nat
  BY FS_CardinalityType
<1>2. Sizes \in SUBSET Nat /\ Sizes # {}
  BY <1>1
<1>3. PICK n \in Sizes : \A m \in Sizes : ~ (m < n)
  BY ONLY <1>2, LeastExists
<1>4. PICK S \in C : n = Cardinality(S)
  BY <1>3
<1>5. \A T \in C : Cardinality(T) \in Sizes
  OBVIOUS
<1> HIDE DEF Sizes
<1> QED BY <1>1, <1>3, <1>4, <1>5

Chosen(s) == CHOOSE x \in s : TRUE

\* g is the function SumFunctionOnSet computes with over S
Sums(g, f, S) ==
  g = [s \in SUBSET S |-> IF s = {} THEN 0 ELSE f[Chosen(s)] + g[s \ {Chosen(s)}]]

\* SumFunctionOnSet, its recursion written out
LEMMA SumIs ==
  ASSUME NEW f, NEW S
  PROVE  SumFunctionOnSet(f, S) = (CHOOSE g : Sums(g, f, S))[S]
<1>1. SumFunctionOnSet(f, S)
        = (CHOOSE g : g = [s \in SUBSET S |->
             IF s = {} THEN 0
             ELSE f[CHOOSE x \in s : TRUE] + g[s \ {CHOOSE x \in s : TRUE}]])[S]
  BY SMT DEF SumFunctionOnSet, FoldFunctionOnSet, MapThenFoldSet
<1> QED BY <1>1 DEF Sums, Chosen

LEMMA WithoutChosen ==
  ASSUME NEW s, IsFiniteSet(s), s # {}
  PROVE  /\ Chosen(s) \in s
         /\ IsFiniteSet(s \ {Chosen(s)})
         /\ Cardinality(s) \in Nat
         /\ Cardinality(s \ {Chosen(s)}) = Cardinality(s) - 1
         /\ Cardinality(s \ {Chosen(s)}) \in Nat
<1>1. Chosen(s) \in s
  BY DEF Chosen
<1> QED BY <1>1, FS_RemoveElement, FS_CardinalityType

\* There is such a function, built up from the smaller sets to the larger.
LEMMA SumsExist ==
  ASSUME NEW f, NEW S, IsFiniteSet(S)
  PROVE  \E g : Sums(g, f, S)
<1> DEFINE Upto(n) == {s \in SUBSET S : Cardinality(s) <= n}
           Right(g, n) == g = [s \in Upto(n) |->
             IF s = {} THEN 0 ELSE f[Chosen(s)] + g[s \ {Chosen(s)}]]
           Bad == {n \in Nat : ~ \E g : Right(g, n)}
<1>1. \A s \in SUBSET S : IsFiniteSet(s) /\ Cardinality(s) \in Nat
  BY FS_Subset, FS_CardinalityType
<1>2. \A s \in SUBSET S : s # {} =>
        /\ s \ {Chosen(s)} \in SUBSET S
        /\ Cardinality(s \ {Chosen(s)}) = Cardinality(s) - 1
        /\ Cardinality(s \ {Chosen(s)}) \in Nat
  BY <1>1, WithoutChosen
<1>3. ASSUME NEW n \in Bad, \A m \in Bad : ~ (m < n)
      PROVE  FALSE
  <2>1. CASE n = 0
    <3>1. ASSUME NEW s \in Upto(0), s # {} PROVE FALSE
      <4>1. s \in SUBSET S /\ Cardinality(s) <= 0
        OBVIOUS
      <4>2. Cardinality(s) \in Nat /\ Cardinality(s) - 1 \in Nat
        BY <1>1, <1>2, <3>1, <4>1
      <4> QED BY <4>1, <4>2
    <3> DEFINE g == [s \in Upto(0) |-> 0]
    <3>2. Right(g, 0)
      BY <3>1
    <3> QED BY <1>3, <2>1, <3>2
  <2>2. CASE n > 0
    <3>1. n - 1 \in Nat /\ n - 1 < n /\ n \in Nat
      BY <2>2
    <3>2. PICK h : Right(h, n - 1)
      BY <1>3, <3>1
    <3> DEFINE g == [s \in Upto(n) |-> IF s = {} THEN 0 ELSE f[Chosen(s)] + h[s \ {Chosen(s)}]]
    <3>3. ASSUME NEW s \in Upto(n), s # {}
          PROVE  g[s \ {Chosen(s)}] = h[s \ {Chosen(s)}]
      <4> DEFINE u == s \ {Chosen(s)}
      <4>1. u \in Upto(n - 1) /\ u \in Upto(n)
        BY <1>1, <1>2, <3>1, <3>3
      <4>2. g[u] = IF u = {} THEN 0 ELSE f[Chosen(u)] + h[u \ {Chosen(u)}]
        BY <4>1
      <4>3. h[u] = IF u = {} THEN 0 ELSE f[Chosen(u)] + h[u \ {Chosen(u)}]
        <5> HIDE DEF u, Upto
        <5> QED BY <3>2, <4>1
      <4> QED BY <4>2, <4>3
    <3>4. Right(g, n)
      <4> HIDE DEF Upto
      <4> QED BY <3>3
    <3> QED BY <1>3, <3>4
  <2> QED BY <2>1, <2>2
<1>4. Bad = {}
  <2>1. Bad \in SUBSET Nat
    OBVIOUS
  <2> HIDE DEF Bad
  <2> QED BY <1>3, <2>1, LeastExists
<1>5. Cardinality(S) \in Nat /\ Upto(Cardinality(S)) = SUBSET S
  <2>1. \A s \in SUBSET S : Cardinality(s) <= Cardinality(S)
    BY FS_Subset
  <2> QED BY <1>1, <2>1
<1>6. PICK g : Right(g, Cardinality(S))
  BY <1>4, <1>5
<1> QED BY <1>5, <1>6 DEF Sums

\* Sums over S and over T say the same of what both have.
LEMMA SumsAgree ==
  ASSUME NEW f, NEW S, NEW T, NEW g, NEW h, IsFiniteSet(S), Sums(g, f, S), Sums(h, f, T)
  PROVE  \A U \in SUBSET (S \cap T) : g[U] = h[U]
<1> DEFINE Bad == {U \in SUBSET (S \cap T) : g[U] # h[U]}
<1>1. \A U \in Bad : IsFiniteSet(U)
  BY FS_Subset
<1>2. ASSUME NEW U \in Bad, \A V \in Bad : Cardinality(U) <= Cardinality(V)
      PROVE  FALSE
  <2>1. U \in SUBSET S /\ U \in SUBSET T
    OBVIOUS
  <2>2. /\ g[U] = IF U = {} THEN 0 ELSE f[Chosen(U)] + g[U \ {Chosen(U)}]
        /\ h[U] = IF U = {} THEN 0 ELSE f[Chosen(U)] + h[U \ {Chosen(U)}]
    BY <2>1 DEF Sums
  <2>3. U # {}
    BY <2>2
  <2>4. g[U \ {Chosen(U)}] = h[U \ {Chosen(U)}]
    <3>1. ~ Cardinality(U) <= Cardinality(U \ {Chosen(U)})
      BY <1>1, <2>3, WithoutChosen
    <3>2. U \ {Chosen(U)} \in SUBSET (S \cap T)
      OBVIOUS
    <3> QED BY <1>2, <3>1, <3>2
  <2> QED BY <2>2, <2>3, <2>4
<1>3. Bad = {}
  <2> HIDE DEF Bad
  <2> QED BY <1>1, <1>2, SmallestExists
<1> QED BY <1>3

LEMMA SumEmpty == ASSUME NEW f PROVE SumFunctionOnSet(f, {}) = 0
<1>1. IsFiniteSet({})
  BY FS_EmptySet
<1>2. Sums(CHOOSE g : Sums(g, f, {}), f, {})
  BY <1>1, SumsExist
<1> DEFINE g == CHOOSE g : Sums(g, f, {})
<1>3. Sums(g, f, {}) /\ SumFunctionOnSet(f, {}) = g[{}]
  BY <1>2, SumIs
<1> HIDE DEF g
<1> QED BY <1>3 DEF Sums

LEMMA SumChosen ==
  ASSUME NEW f, NEW S, IsFiniteSet(S), S # {}
  PROVE  SumFunctionOnSet(f, S) = f[Chosen(S)] + SumFunctionOnSet(f, S \ {Chosen(S)})
<1> DEFINE R == S \ {Chosen(S)}
           g == CHOOSE g : Sums(g, f, S)
           h == CHOOSE h : Sums(h, f, R)
<1>1. IsFiniteSet(R)
  BY WithoutChosen
<1>2. Sums(g, f, S) /\ Sums(h, f, R)
  BY <1>1, SumsExist
<1>3. SumFunctionOnSet(f, S) = g[S] /\ SumFunctionOnSet(f, R) = h[R]
  BY SumIs
<1>4. R \in SUBSET (S \cap R)
  OBVIOUS
<1> HIDE DEF g, h
<1>5. g[R] = h[R]
  BY <1>2, <1>4, SumsAgree
<1>6. g[S] = f[Chosen(S)] + g[R]
  BY <1>2 DEF Sums
<1> QED BY <1>3, <1>5, <1>6

\* The order in which the elements are added up makes no difference.
LEMMA SumRemove ==
  ASSUME NEW f, NEW S, IsFiniteSet(S), \A x \in S : f[x] \in Nat
  PROVE  /\ SumFunctionOnSet(f, S) \in Nat
         /\ \A x \in S : SumFunctionOnSet(f, S) = f[x] + SumFunctionOnSet(f, S \ {x})
<1> DEFINE Sum(T) == SumFunctionOnSet(f, T)
           Right(T) == Sum(T) \in Nat /\ \A x \in T : Sum(T) = f[x] + Sum(T \ {x})
           Bad == {T \in SUBSET S : ~Right(T)}
<1>1. \A T \in SUBSET S : IsFiniteSet(T) /\ Cardinality(T) \in Nat
  BY FS_Subset, FS_CardinalityType
<1>2. ASSUME NEW T \in Bad, \A U \in Bad : Cardinality(T) <= Cardinality(U)
      PROVE  FALSE
  <2>1. T \in SUBSET S /\ ~Right(T)
    OBVIOUS
  <2>2. T # {}
    <3>1. Sum({}) = 0
      BY SumEmpty
    <3>2. Right({})
      BY <3>1
    <3> QED BY <2>1, <3>2
  <2>3. ASSUME NEW x \in T PROVE Right(T \ {x})
    <3>1. Cardinality(T \ {x}) = Cardinality(T) - 1
      BY <1>1, <2>1, FS_RemoveElement
    <3>2. ~ Cardinality(T) <= Cardinality(T \ {x})
      BY <1>1, <2>1, <3>1
    <3>3. T \ {x} \in SUBSET S
      OBVIOUS
    <3> HIDE DEF Right
    <3> QED BY <1>2, <3>2, <3>3
  <2> DEFINE c == Chosen(T)
  <2>4. c \in T /\ Sum(T) = f[c] + Sum(T \ {c})
    BY <1>1, <2>1, <2>2, SumChosen, WithoutChosen
  <2> HIDE DEF c, Sum
  <2>5. Sum(T) \in Nat
    <3>1. Sum(T \ {c}) \in Nat /\ f[c] \in Nat
      BY <2>1, <2>3, <2>4
    <3> QED BY <2>4, <3>1
  <2>6. ASSUME NEW x \in T PROVE Sum(T) = f[x] + Sum(T \ {x})
    <3>1. CASE x = c
      BY <2>4, <3>1
    <3>2. CASE x # c
      <4>1. x \in T \ {c} /\ c \in T \ {x} /\ (T \ {c}) \ {x} = (T \ {x}) \ {c}
        BY <2>4, <3>2
      <4> DEFINE R == (T \ {c}) \ {x}
      <4>2. Sum(T \ {c}) = f[x] + Sum(R) /\ Sum(T \ {x}) = f[c] + Sum(R)
        BY <2>3, <2>4, <4>1
      <4>3. R = (T \ {x}) \ {c}
        BY <4>1
      <4>4. Right((T \ {c}) \ {x})
        <5>1. T \ {c} \in SUBSET S /\ T \ {x} \in SUBSET S /\ R \in SUBSET S
          BY <2>1
        <5>2. Cardinality(T \ {c}) = Cardinality(T) - 1
          BY <1>1, <2>1, <2>4, FS_RemoveElement
        <5>3. Cardinality(R) = Cardinality(T \ {c}) - 1
          BY <1>1, <4>1, <5>1, FS_RemoveElement
        <5>4. ~ Cardinality(T) <= Cardinality(R)
          BY <1>1, <2>1, <5>1, <5>2, <5>3
        <5> HIDE DEF Right, R
        <5> QED BY <1>2, <5>1, <5>4 DEF R
      <4>5. f[x] \in Nat /\ f[c] \in Nat /\ Sum(R) \in Nat
        BY <2>1, <2>4, <4>4
      <4> HIDE DEF R
      <4> QED BY <2>4, <4>2, <4>5
    <3> QED BY <3>1, <3>2
  <2> QED BY <2>1, <2>5, <2>6
<1>3. Bad = {}
  <2>1. \A T \in Bad : IsFiniteSet(T)
    BY <1>1
  <2> HIDE DEF Bad
  <2> QED BY <1>2, <2>1, SmallestExists
<1> QED BY <1>3

LEMMA SumAdd ==
  ASSUME NEW f, NEW S, IsFiniteSet(S), NEW x, x \notin S, \A y \in S \cup {x} : f[y] \in Nat
  PROVE  SumFunctionOnSet(f, S \cup {x}) = f[x] + SumFunctionOnSet(f, S)
<1>1. IsFiniteSet(S \cup {x})
  BY FS_AddElement
<1>2. (S \cup {x}) \ {x} = S
  OBVIOUS
<1> QED BY <1>1, <1>2, SumRemove

\* Numbers that are the same add up to the same, larger ones to no less.
LEMMA SumMonotone ==
  ASSUME NEW f, NEW g, NEW S, IsFiniteSet(S), \A x \in S : f[x] \in Nat /\ g[x] \in Nat
  PROVE  /\ (\A x \in S : f[x] <= g[x]) => SumFunctionOnSet(f, S) <= SumFunctionOnSet(g, S)
         /\ (\A x \in S : f[x] = g[x]) => SumFunctionOnSet(f, S) = SumFunctionOnSet(g, S)
<1> DEFINE Right(T) ==
      /\ (\A x \in T : f[x] <= g[x]) => SumFunctionOnSet(f, T) <= SumFunctionOnSet(g, T)
      /\ (\A x \in T : f[x] = g[x]) => SumFunctionOnSet(f, T) = SumFunctionOnSet(g, T)
           Bad == {T \in SUBSET S : ~Right(T)}
<1>1. \A T \in SUBSET S : IsFiniteSet(T) /\ Cardinality(T) \in Nat
  BY FS_Subset, FS_CardinalityType
<1>2. ASSUME NEW T \in Bad, \A U \in Bad : Cardinality(T) <= Cardinality(U)
      PROVE  FALSE
  <2>1. T \in SUBSET S /\ ~Right(T)
    OBVIOUS
  <2>2. T # {}
    <3>1. SumFunctionOnSet(f, {}) = 0 /\ SumFunctionOnSet(g, {}) = 0
      BY SumEmpty
    <3> QED BY <2>1, <3>1
  <2>3. PICK x \in T : TRUE
    BY <2>2
  <2> DEFINE R == T \ {x}
  <2>4. R \in SUBSET S /\ IsFiniteSet(R)
    BY <1>1, <2>1
  <2>5. Right(R)
    <3>1. Cardinality(R) = Cardinality(T) - 1
      BY <1>1, <2>1, <2>3, FS_RemoveElement
    <3>2. ~ Cardinality(T) <= Cardinality(R)
      BY <1>1, <2>1, <3>1
    <3> HIDE DEF Right, R
    <3> QED BY <1>2, <2>4, <3>2
  <2>6. /\ SumFunctionOnSet(f, T) = f[x] + SumFunctionOnSet(f, R)
        /\ SumFunctionOnSet(g, T) = g[x] + SumFunctionOnSet(g, R)
    <3>1. IsFiniteSet(T) /\ \A y \in T : f[y] \in Nat /\ g[y] \in Nat
      BY <1>1, <2>1
    <3> QED BY <2>3, <3>1, SumRemove
  <2>7. SumFunctionOnSet(f, R) \in Nat /\ SumFunctionOnSet(g, R) \in Nat
    <3>1. \A y \in R : f[y] \in Nat /\ g[y] \in Nat
      BY <2>4
    <3> HIDE DEF R
    <3> QED BY <2>4, <3>1, SumRemove
  <2>8. f[x] \in Nat /\ g[x] \in Nat /\ \A y \in R : y \in T
    BY <2>1, <2>3
  <2> HIDE DEF R
  <2>9. Right(T)
    BY <2>3, <2>5, <2>6, <2>7, <2>8
  <2> QED BY <2>1, <2>9
<1>3. Bad = {}
  <2>1. \A T \in Bad : IsFiniteSet(T)
    BY <1>1
  <2> HIDE DEF Bad
  <2> QED BY <1>2, <2>1, SmallestExists
<1> QED BY <1>3

\* Two sets that have nothing in common.
LEMMA SumUnion ==
  ASSUME NEW f, NEW S, NEW T, IsFiniteSet(S), IsFiniteSet(T), S \cap T = {},
         \A x \in S \cup T : f[x] \in Nat
  PROVE  SumFunctionOnSet(f, S \cup T) = SumFunctionOnSet(f, S) + SumFunctionOnSet(f, T)
<1> DEFINE Sum(U) == SumFunctionOnSet(f, U)
           Bad == {U \in SUBSET T : Sum(S \cup U) # Sum(S) + Sum(U)}
<1>1. \A U \in SUBSET T : IsFiniteSet(U) /\ Cardinality(U) \in Nat /\ IsFiniteSet(S \cup U)
  BY FS_Subset, FS_CardinalityType, FS_Union
<1>2. ASSUME NEW U \in Bad, \A V \in Bad : Cardinality(U) <= Cardinality(V)
      PROVE  FALSE
  <2>1. U \in SUBSET T
    OBVIOUS
  <2>2. U # {}
    <3>1. Sum({}) = 0 /\ S \cup {} = S /\ Sum(S) \in Nat
      BY SumEmpty, SumRemove
    <3>2. Sum(S \cup {}) = Sum(S) + Sum({})
      <4> HIDE DEF Sum
      <4> QED BY <3>1
    <3> QED BY <3>2
  <2>3. PICK x \in U : TRUE
    BY <2>2
  <2> DEFINE R == U \ {x}
  <2>4. R \in SUBSET T /\ IsFiniteSet(R) /\ IsFiniteSet(S \cup R)
    BY <1>1, <2>1
  <2>5. Sum(S \cup R) = Sum(S) + Sum(R)
    <3>1. Cardinality(R) = Cardinality(U) - 1
      BY <1>1, <2>1, <2>3, FS_RemoveElement
    <3>2. ~ Cardinality(U) <= Cardinality(R)
      BY <1>1, <2>1, <3>1
    <3> HIDE DEF Sum, R
    <3> QED BY <1>2, <2>4, <3>2
  <2>6. x \notin S \cup R /\ x \notin R /\ (S \cup R) \cup {x} = S \cup U /\ R \cup {x} = U
    BY <2>1, <2>3
  <2>7. \A y \in (S \cup R) \cup {x} : f[y] \in Nat
    BY <2>1, <2>3
  <2> HIDE DEF R
  <2>8. Sum(S \cup U) = f[x] + Sum(S \cup R)
    <3>1. SumFunctionOnSet(f, (S \cup R) \cup {x}) = f[x] + SumFunctionOnSet(f, S \cup R)
      BY ONLY <2>4, <2>6, <2>7, SumAdd
    <3> QED BY <2>6, <3>1
  <2>9. Sum(U) = f[x] + Sum(R)
    <3>1. \A y \in R \cup {x} : f[y] \in Nat
      BY <2>7
    <3>2. SumFunctionOnSet(f, R \cup {x}) = f[x] + SumFunctionOnSet(f, R)
      BY ONLY <2>4, <2>6, <3>1, SumAdd
    <3> QED BY <2>6, <3>2
  <2>10. Sum(S) \in Nat /\ Sum(R) \in Nat /\ f[x] \in Nat
    BY <2>4, <2>7, SumRemove
  <2>11. Sum(S \cup U) # Sum(S) + Sum(U)
    OBVIOUS
  <2> HIDE DEF Sum
  <2> QED BY <2>5, <2>8, <2>9, <2>10, <2>11
<1>3. Bad = {}
  <2>1. \A U \in Bad : IsFiniteSet(U)
    BY <1>1
  <2> HIDE DEF Bad
  <2> QED BY <1>2, <2>1, SmallestExists
<1>4. T \in SUBSET T
  OBVIOUS
<1> QED BY <1>3, <1>4

LEMMA SumOfPart ==
  ASSUME NEW f, NEW S, IsFiniteSet(S), \A x \in S : f[x] \in Nat, NEW T \in SUBSET S
  PROVE  SumFunctionOnSet(f, T) <= SumFunctionOnSet(f, S)
<1>1. IsFiniteSet(T) /\ IsFiniteSet(S \ T) /\ T \cap (S \ T) = {} /\ T \cup (S \ T) = S
  BY FS_Subset
<1>2. SumFunctionOnSet(f, S) = SumFunctionOnSet(f, T) + SumFunctionOnSet(f, S \ T)
  BY <1>1, SumUnion
<1>3. SumFunctionOnSet(f, T) \in Nat /\ SumFunctionOnSet(f, S \ T) \in Nat
  BY <1>1, SumRemove
<1> QED BY <1>2, <1>3

Where(S, key, K) == {x \in S : key[x] \in K}

\* What is summed up for each key adds up to the sum over all of them.
LEMMA SumByKey ==
  ASSUME NEW f, NEW S, NEW key, NEW g, NEW K, IsFiniteSet(S), IsFiniteSet(K),
         \A x \in S : f[x] \in Nat,
         \A k \in K : g[k] = SumFunctionOnSet(f, Where(S, key, {k}))
  PROVE  SumFunctionOnSet(g, K) = SumFunctionOnSet(f, Where(S, key, K))
<1> DEFINE Part(J) == Where(S, key, J)
           Bad == {J \in SUBSET K : SumFunctionOnSet(g, J) # SumFunctionOnSet(f, Part(J))}
<1>1. \A J \in SUBSET K : IsFiniteSet(J) /\ Cardinality(J) \in Nat
  BY FS_Subset, FS_CardinalityType
<1>2. \A T \in SUBSET S : IsFiniteSet(T) /\ SumFunctionOnSet(f, T) \in Nat
  BY FS_Subset, SumRemove
<1>3. \A k \in K : g[k] \in Nat
  <2> TAKE k \in K
  <2>1. Part({k}) \in SUBSET S
    BY DEF Where
  <2> QED BY <1>2, <2>1
<1>4. ASSUME NEW J \in Bad, \A I \in Bad : Cardinality(J) <= Cardinality(I)
      PROVE  FALSE
  <2>1. J \in SUBSET K /\ SumFunctionOnSet(g, J) # SumFunctionOnSet(f, Part(J))
    OBVIOUS
  <2>2. J # {}
    <3>1. Part({}) = {}
      BY DEF Where
    <3>2. SumFunctionOnSet(g, {}) = 0 /\ SumFunctionOnSet(f, {}) = 0
      BY SumEmpty
    <3> HIDE DEF Part
    <3> QED BY <2>1, <3>1, <3>2
  <2>3. PICK k \in J : TRUE
    BY <2>2
  <2> DEFINE R == J \ {k}
             Of == Part({k})
  <2>4. R \in SUBSET K /\ Cardinality(R) = Cardinality(J) - 1
    BY <1>1, <2>1, <2>3, FS_RemoveElement
  <2>5. SumFunctionOnSet(g, R) = SumFunctionOnSet(f, Part(R))
    <3>1. ~ Cardinality(J) <= Cardinality(R)
      BY <1>1, <2>1, <2>4
    <3> HIDE DEF Part, R
    <3> QED BY <1>4, <2>4, <3>1
  <2>6. SumFunctionOnSet(g, J) = g[k] + SumFunctionOnSet(g, R)
    <3>1. IsFiniteSet(J) /\ \A j \in J : g[j] \in Nat
      BY <1>1, <1>3, <2>1
    <3> QED BY <2>3, <3>1, SumRemove
  <2>7. /\ Of \in SUBSET S /\ Part(R) \in SUBSET S
        /\ Of \cap Part(R) = {} /\ Of \cup Part(R) = Part(J)
    BY <2>3 DEF Where
  <2>8. g[k] = SumFunctionOnSet(f, Of)
    BY <2>1, <2>3
  <2> HIDE DEF R, Of, Part
  <2>9. SumFunctionOnSet(f, Part(J)) = SumFunctionOnSet(f, Of) + SumFunctionOnSet(f, Part(R))
    <3>1. /\ IsFiniteSet(Of) /\ IsFiniteSet(Part(R))
          /\ \A x \in Of \cup Part(R) : f[x] \in Nat
      BY <1>2, <2>7
    <3>2. SumFunctionOnSet(f, Of \cup Part(R))
            = SumFunctionOnSet(f, Of) + SumFunctionOnSet(f, Part(R))
      BY ONLY <2>7, <3>1, SumUnion
    <3> QED BY <2>7, <3>2
  <2> QED BY <2>1, <2>5, <2>6, <2>8, <2>9
<1>5. Bad = {}
  <2>1. \A J \in Bad : IsFiniteSet(J)
    BY <1>1
  <2> HIDE DEF Bad
  <2> QED BY <1>4, <2>1, SmallestExists
<1>6. K \in SUBSET K
  OBVIOUS
<1> QED BY <1>5, <1>6

-----------------------------------------------------------------------------
(* The books. Every row is of a token that was created, and the counters   *)
(* are the sum of what the requests that were counted would still write.   *)
Charged     == {r \in Requests : counted[r] = 1} \X {1}
PromptOf    == [e \in Requests \X {1} |-> StatsOf(e[1]).promptN]
PredictedOf == [e \in Requests \X {1} |-> StatsOf(e[1]).predictedN]

AdmittedInv(r) ==
  /\ tokenID[r] # NoToken => token[tokenID[r]] # "none"
  /\ pc[r] \in (Serving \ {"sent"}) \cup Recording \/ rows[r] # <<>> => tokenID[r] # NoToken

BooksInv ==
  /\ IsFiniteSet({r \in Requests : pc[r] # "unsent"})
  /\ \A r \in Requests : AdmittedInv(r)
  /\ total.prompt = SumFunctionOnSet(PromptOf, Charged)
  /\ total.predicted = SumFunctionOnSet(PredictedOf, Charged)

LEMMA ChargedAre ==
  ASSUME ProxyInv, BooksInv
  PROVE  /\ IsFiniteSet(Charged)
         /\ \A e \in Requests \X {1} : PromptOf[e] \in Nat /\ PredictedOf[e] \in Nat
<1>1. {r \in Requests : counted[r] = 1} \in SUBSET {r \in Requests : pc[r] # "unsent"}
  BY DEF ProxyInv, TypeOK, RequestInv, Written, Serving, Recording
<1>2. IsFiniteSet({r \in Requests : counted[r] = 1}) /\ IsFiniteSet({1})
  BY <1>1, FS_Subset, FS_Singleton DEF BooksInv
<1>3. IsFiniteSet(Charged)
  BY <1>2, FS_Product DEF Charged
<1>4. \A r \in Requests : StatsOf(r) \in Numbers
  BY StatsTyped DEF ProxyInv, RequestInv
<1> QED BY <1>3, <1>4 DEF PromptOf, PredictedOf, Numbers

\* The answer of a request that was counted is not touched again.
LEMMA ChargesStay ==
  ASSUME ProxyInv, Next, NEW r \in Requests, counted[r] = 1
  PROVE  StatsOf(r)' = StatsOf(r)
<1> USE DEF Goto
<1>1. TypeOK /\ RequestInv(r)
  BY DEF ProxyInv
<1>2. ASSUME UNCHANGED <<answer[r], read[r]>> PROVE StatsOf(r)' = StatsOf(r)
  BY <1>2 DEF StatsOf
<1>3. pc[r] \in {"closing", "done"}
  BY <1>1 DEF TypeOK, RequestInv, Written, Serving, Recording
<1>4. ASSUME NEW q \in Requests, Handle(q) PROVE StatsOf(r)' = StatsOf(r)
  <2>1. CASE q # r
    BY <1>1, <1>2, <1>4, <2>1, OthersStay
  <2>2. CASE q = r
    <3>1. Close(r)
      BY <1>3, <1>4, <2>2 DEF Handle, Authenticate, Route, EnsureReturns, Forward, Read, Save,
         Publish, Count, Refuse, Proceed, Finalize
    <3> QED BY <1>2, <3>1 DEF Close
  <2> QED BY <2>1, <2>2
<1>5. CASE Kill
  BY <1>2, <1>5 DEF Kill, capture
<1>6. ASSUME NEW t \in Tokens, CreateToken(t) \/ Revoke(t) PROVE StatsOf(r)' = StatsOf(r)
  BY <1>2, <1>6 DEF CreateToken, Revoke, capture
<1>7. ASSUME NEW q \in Requests, NEW t \in Tokens \cup {NoToken}, Send(q, t)
      PROVE  StatsOf(r)' = StatsOf(r)
  BY <1>2, <1>7 DEF Send, capture
<1> QED BY <1>4, <1>5, <1>6, <1>7 DEF Next

\* Which steps count: one of Count's, and those that start from nothing.
LEMMA CountingSteps ==
  ASSUME ProxyInv, Next
  PROVE  \/ UNCHANGED <<counted, total>>
         \/ \E r \in Requests : Count(r)
         \/ Kill
BY DEF Next, Handle, CreateToken, Revoke, Send, Authenticate, Route, EnsureReturns, Forward, Read,
   Close, Save, Publish, Refuse, Proceed, capture, books

LEMMA TotalsStep ==
  ASSUME ProxyInv, BooksInv, Next
  PROVE  /\ total'.prompt = SumFunctionOnSet(PromptOf', Charged')
         /\ total'.predicted = SumFunctionOnSet(PredictedOf', Charged')
<1>1. /\ IsFiniteSet(Charged) /\ Charged \subseteq Requests \X {1}
      /\ \A e \in Requests \X {1} : PromptOf[e] \in Nat /\ PredictedOf[e] \in Nat
  BY ChargedAre DEF Charged
<1>2. \A e \in Charged : PromptOf'[e] = PromptOf[e] /\ PredictedOf'[e] = PredictedOf[e]
  <2> TAKE e \in Charged
  <2>1. e[1] \in Requests /\ counted[e[1]] = 1 /\ e \in Requests \X {1}
    BY DEF Charged
  <2>2. StatsOf(e[1])' = StatsOf(e[1])
    BY <2>1, ChargesStay
  <2> QED BY <2>1, <2>2 DEF PromptOf, PredictedOf
<1>3. /\ SumFunctionOnSet(PromptOf', Charged) = total.prompt
      /\ SumFunctionOnSet(PredictedOf', Charged) = total.predicted
  <2>1. \A e \in Charged : /\ PromptOf'[e] \in Nat /\ PromptOf[e] \in Nat
                           /\ PredictedOf'[e] \in Nat /\ PredictedOf[e] \in Nat
    BY <1>1, <1>2
  <2>2. /\ SumFunctionOnSet(PromptOf', Charged) = SumFunctionOnSet(PromptOf, Charged)
        /\ SumFunctionOnSet(PredictedOf', Charged) = SumFunctionOnSet(PredictedOf, Charged)
    BY <1>1, <1>2, <2>1, SumMonotone
  <2> QED BY <2>2 DEF BooksInv
<1>4. CASE UNCHANGED <<counted, total>>
  BY <1>3, <1>4 DEF Charged
<1>5. ASSUME NEW r \in Requests, Count(r)
      PROVE  /\ total'.prompt = SumFunctionOnSet(PromptOf', Charged')
             /\ total'.predicted = SumFunctionOnSet(PredictedOf', Charged')
  <2>1. TypeOK /\ counted[r] = 0 /\ read[r] <= Len(answer[r].chunks)
    BY <1>5 DEF ProxyInv, Count, Goto, RequestInv, Written
  <2>2. counted' = [counted EXCEPT ![r] = 1] /\ UNCHANGED capture
    BY <1>5, <2>1 DEF Count, RecordRequest, TypeOK
  <2>3. <<r, 1>> \notin Charged /\ Charged' = Charged \cup {<<r, 1>>}
    BY <2>1, <2>2 DEF Charged, TypeOK
  <2>4. PromptOf' = PromptOf /\ PredictedOf' = PredictedOf
    BY <2>2 DEF PromptOf, PredictedOf, StatsOf, capture
  <2>5. PromptOf[<<r, 1>>] = StatsOf(r).promptN /\ PredictedOf[<<r, 1>>] = StatsOf(r).predictedN
    BY DEF PromptOf, PredictedOf
  <2>6. \A e \in Charged \cup {<<r, 1>>} : PromptOf[e] \in Nat /\ PredictedOf[e] \in Nat
    BY <1>1
  <2>7. /\ SumFunctionOnSet(PromptOf, Charged \cup {<<r, 1>>})
             = PromptOf[<<r, 1>>] + SumFunctionOnSet(PromptOf, Charged)
        /\ SumFunctionOnSet(PredictedOf, Charged \cup {<<r, 1>>})
             = PredictedOf[<<r, 1>>] + SumFunctionOnSet(PredictedOf, Charged)
    BY ONLY <1>1, <2>3, <2>6, SumAdd
  <2>8. /\ total'.prompt = total.prompt + StatsOf(r).promptN
        /\ total'.predicted = total.predicted + StatsOf(r).predictedN
    BY <1>5 DEF Count, RecordRequest
  <2>9. StatsOf(r).promptN \in Nat /\ StatsOf(r).predictedN \in Nat
    BY <2>1, StatsTyped DEF Numbers
  <2>10. total.prompt \in Nat /\ total.predicted \in Nat
    BY <2>1 DEF TypeOK
  <2> QED BY <2>3, <2>4, <2>5, <2>7, <2>8, <2>9, <2>10 DEF BooksInv
<1>6. CASE Kill
  <2>1. Charged' = {} /\ total'.prompt = 0 /\ total'.predicted = 0
    BY <1>6 DEF Kill, Charged
  <2> QED BY <2>1, SumEmpty
<1> QED BY <1>4, <1>5, <1>6, CountingSteps

\* Only what has passed auth.Middleware is written to the log.
LEMMA AdmittedStep ==
  ASSUME ProxyInv, BooksInv, Next, NEW q \in Requests
  PROVE  AdmittedInv(q)'
<1> USE ConstantsAreSane DEF Goto, AdmittedInv, Serving, Recording
<1>1. TypeOK /\ RequestInv(q) /\ AdmittedInv(q)
  BY DEF ProxyInv, BooksInv
<1>2. ASSUME NEW t \in Tokens, CreateToken(t) \/ Revoke(t) PROVE AdmittedInv(q)'
  BY <1>1, <1>2 DEF CreateToken, Revoke, TypeOK, sent, capture, books
<1>3. ASSUME NEW r \in Requests, NEW t \in Tokens \cup {NoToken}, Send(r, t)
      PROVE  AdmittedInv(q)'
  BY <1>1, <1>3 DEF Send, TypeOK, capture, books
<1>4. CASE Kill
  BY <1>1, <1>4 DEF Kill, TypeOK, sent, capture, books
<1>5. ASSUME NEW r \in Requests, Handle(r) PROVE AdmittedInv(q)'
  <2>1. token' = token
    BY <1>5 DEF Handle, Authenticate, Route, EnsureReturns, Forward, Read, Close, Save, Publish,
       Count, Refuse, Proceed
  <2>2. CASE q # r
    BY <1>1, <1>5, <2>1, <2>2, OthersStay
  <2>3. CASE Authenticate(q)
    <3>1. rows' = rows
      BY <2>3 DEF Authenticate, Refuse, books
    <3>2. CASE Refuse(q, "sent")
      BY <1>1, <2>1, <3>1, <3>2 DEF Refuse, TypeOK, sent
    <3>3. CASE Lookup(q) # NoToken /\ tokenID' = [tokenID EXCEPT ![q] = Lookup(q)]
      <4>1. Lookup(q) = raw[q] /\ token[raw[q]] = "valid"
        BY <3>3 DEF Lookup
      <4>2. tokenID'[q] = raw[q] /\ tokenID'[q] # NoToken
        BY <1>1, <3>3, <4>1 DEF TypeOK
      <4> QED BY <2>1, <4>1, <4>2
    <3> QED BY <2>3, <3>2, <3>3 DEF Authenticate
  <2>4. CASE Save(q)
    BY <1>1, <2>1, <2>4 DEF Save, TypeOK, sent
  <2>5. CASE /\ q = r
             /\ \/ Route(q) \/ EnsureReturns(q) \/ Forward(q) \/ Read(q) \/ Close(q)
                \/ Publish(q) \/ Count(q)
    BY <1>1, <2>1, <2>5 DEF Route, EnsureReturns, Forward, Read, Close, Publish, Count, Refuse,
       Proceed, Finalize, TypeOK, sent, books
  <2> QED BY <1>5, <2>2, <2>3, <2>4, <2>5 DEF Handle
<1> QED BY <1>2, <1>3, <1>4, <1>5 DEF Next

\* A step sends one request at most.
LEMMA SentStep ==
  ASSUME TypeOK, IsFiniteSet({r \in Requests : pc[r] # "unsent"}), Next
  PROVE  IsFiniteSet({r \in Requests : pc'[r] # "unsent"})
<1> DEFINE Sent == {r \in Requests : pc[r] # "unsent"}
<1> USE DEF Goto
<1>1. \E q : {r \in Requests : pc'[r] # "unsent"} \in SUBSET (Sent \cup {q})
  <2> DEFINE OneMore == \E q : {r \in Requests : pc'[r] # "unsent"} \in SUBSET (Sent \cup {q})
  <2>1. ASSUME NEW q \in Requests, \A r \in Requests \ {q} : pc'[r] = pc[r] PROVE OneMore
    BY <2>1
  <2>2. ASSUME \A r \in Requests : pc'[r] # "unsent" => pc[r] # "unsent" PROVE OneMore
    BY <2>2
  <2> HIDE DEF OneMore
  <2>3. ASSUME NEW q \in Requests, NEW t \in Tokens \cup {NoToken}, Send(q, t) PROVE OneMore
    BY <2>1, <2>3 DEF Send, TypeOK
  <2>4. ASSUME NEW q \in Requests, Handle(q) PROVE OneMore
    BY <2>1, <2>4, OthersStay
  <2>5. ASSUME NEW t \in Tokens, CreateToken(t) \/ Revoke(t) PROVE OneMore
    BY <2>2, <2>5 DEF CreateToken, Revoke
  <2>6. CASE Kill
    BY <2>2, <2>6 DEF Kill
  <2> QED BY ONLY <2>3, <2>4, <2>5, <2>6, Next DEF Next, OneMore
<1>2. PICK q : {r \in Requests : pc'[r] # "unsent"} \in SUBSET (Sent \cup {q})
  BY <1>1
<1>3. IsFiniteSet(Sent \cup {q})
  BY FS_AddElement
<1> QED BY <1>2, <1>3, FS_Subset

LEMMA BooksStep == ProxyInv /\ BooksInv /\ [Next]_vars => BooksInv'
<1> SUFFICES ASSUME ProxyInv, BooksInv, [Next]_vars PROVE BooksInv'
  OBVIOUS
<1>1. CASE Next
  <2>1. IsFiniteSet({r \in Requests : pc'[r] # "unsent"})
    BY <1>1, SentStep DEF ProxyInv, BooksInv
  <2>2. \A q \in Requests : AdmittedInv(q)'
    BY <1>1, AdmittedStep
  <2>3. /\ total'.prompt = SumFunctionOnSet(PromptOf', Charged')
        /\ total'.predicted = SumFunctionOnSet(PredictedOf', Charged')
    BY <1>1, TotalsStep
  <2> QED BY <2>1, <2>2, <2>3 DEF BooksInv
<1>2. CASE UNCHANGED vars
  BY <1>2 DEF vars, BooksInv, AdmittedInv, PromptOf, PredictedOf, Charged, StatsOf
<1> QED BY <1>1, <1>2

LEMMA InitBooks == Init => BooksInv
<1> SUFFICES ASSUME Init PROVE BooksInv
  OBVIOUS
<1>1. {r \in Requests : pc[r] # "unsent"} = {} /\ Charged = {}
  BY DEF Init, Charged
<1>2. \A r \in Requests : AdmittedInv(r)
  BY DEF Init, AdmittedInv, Serving, Recording
<1>3. total.prompt = 0 /\ total.predicted = 0
  BY DEF Init
<1> QED BY <1>1, <1>2, <1>3, FS_EmptySet, SumEmpty DEF BooksInv

-----------------------------------------------------------------------------
\* A request has one row at most: what it would write. It is of a token that
\* was created, and there are finitely many.
LEMMA LogIs ==
  ASSUME ProxyInv, BooksInv
  PROVE  /\ IsFiniteSet(Log)
         /\ Log = {r \in Requests : rows[r] # <<>>} \X {1}
         /\ \A e \in Log : /\ Logged(e).stats = StatsOf(e[1])
                           /\ Logged(e).token \in Tokens
                           /\ token[Logged(e).token] # "none"
<1>1. \A r \in Requests : rows[r] \in Seq(Row) /\ Len(rows[r]) \in {0, 1}
  BY DEF ProxyInv, TypeOK, RequestInv, Written, Serving, Recording
<1>2. \A r \in Requests : DOMAIN rows[r] = IF rows[r] # <<>> THEN {1} ELSE {}
  BY <1>1
<1>3. Log = {r \in Requests : rows[r] # <<>>} \X {1}
  BY <1>2 DEF Log
<1>4. {r \in Requests : rows[r] # <<>>} \in SUBSET {r \in Requests : pc[r] # "unsent"}
  <2> SUFFICES ASSUME NEW r \in Requests, pc[r] = "unsent" PROVE rows[r] = <<>>
    OBVIOUS
  <2>1. Len(rows[r]) = 0
    BY DEF ProxyInv, RequestInv, Written, Serving
  <2> QED BY <1>1, <2>1
<1>5. IsFiniteSet(Log)
  <2>1. IsFiniteSet({r \in Requests : rows[r] # <<>>}) /\ IsFiniteSet({1})
    BY <1>4, FS_Subset, FS_Singleton DEF BooksInv
  <2> QED BY <1>3, <2>1, FS_Product
<1>6. ASSUME NEW e \in Log
      PROVE  /\ Logged(e).stats = StatsOf(e[1])
             /\ Logged(e).token \in Tokens
             /\ token[Logged(e).token] # "none"
  <2>1. e[1] \in Requests /\ rows[e[1]] # <<>> /\ e[2] = 1
    BY <1>3
  <2>2. Logged(e) = Entry(e[1])
    BY <2>1 DEF ProxyInv, LoggedInv, Logged
  <2>3. tokenID[e[1]] \in Tokens /\ token[tokenID[e[1]]] # "none"
    BY <2>1 DEF BooksInv, AdmittedInv, ProxyInv, TypeOK
  <2> QED BY <2>2, <2>3 DEF Entry
<1> QED BY <1>3, <1>5, <1>6

\* A column of the token page adds up to what is in the log, if it has the
\* tokens of all rows.
LEMMA ColumnsAddUp ==
  ASSUME ProxyInv, BooksInv, NEW T \in SUBSET Tokens, \A e \in Log : Logged(e).token \in T
  PROVE  LET table == [t \in T |-> StatsByToken(t)] IN
           /\ Total(table, "prompt") = SumFunctionOnSet(PromptOf, Log)
           /\ Total(table, "predicted") = SumFunctionOnSet(PredictedOf, Log)
<1> DEFINE table == [t \in T |-> StatsByToken(t)]
           key   == [e \in Log |-> Logged(e).token]
           prompt(t) == [e \in RowsOf(t) |-> Logged(e).stats["promptN"]]
           predicted(t) == [e \in RowsOf(t) |-> Logged(e).stats["predictedN"]]
<1>1. IsFiniteSet(Log) /\ Log \subseteq Requests \X {1} /\ IsFiniteSet(T)
  BY LogIs, FS_Subset, ConstantsAreSane
<1>2. \A e \in Log : PromptOf[e] \in Nat /\ PredictedOf[e] \in Nat
  BY <1>1, ChargedAre
<1>3. \A e \in Log : /\ PromptOf[e] = Logged(e).stats["promptN"]
                     /\ PredictedOf[e] = Logged(e).stats["predictedN"]
  BY <1>1, LogIs DEF PromptOf, PredictedOf
<1>4. \A t \in T : RowsOf(t) = Where(Log, key, {t}) /\ RowsOf(t) \subseteq Log
  BY DEF RowsOf, Where
<1>5. ASSUME NEW t \in T
      PROVE  /\ table[t]["prompt"] = SumFunctionOnSet(PromptOf, Where(Log, key, {t}))
             /\ table[t]["predicted"] = SumFunctionOnSet(PredictedOf, Where(Log, key, {t}))
  <2>1. /\ table[t]["prompt"] = SumByToken(t, "promptN")
        /\ table[t]["predicted"] = SumByToken(t, "predictedN")
    BY DEF StatsByToken
  <2>2. /\ SumByToken(t, "promptN") = SumFunctionOnSet(prompt(t), RowsOf(t))
        /\ SumByToken(t, "predictedN") = SumFunctionOnSet(predicted(t), RowsOf(t))
    <3>1. DOMAIN prompt(t) = RowsOf(t) /\ DOMAIN predicted(t) = RowsOf(t)
      OBVIOUS
    <3> QED BY <3>1 DEF SumByToken, SumFunction
  <2>3. /\ IsFiniteSet(RowsOf(t))
        /\ \A e \in RowsOf(t) : /\ prompt(t)[e] = PromptOf[e] /\ PromptOf[e] \in Nat
                                /\ predicted(t)[e] = PredictedOf[e] /\ PredictedOf[e] \in Nat
    BY <1>1, <1>2, <1>3, <1>4, FS_Subset
  <2> HIDE DEF prompt, predicted, table, key
  <2>4. /\ SumFunctionOnSet(prompt(t), RowsOf(t)) = SumFunctionOnSet(PromptOf, RowsOf(t))
        /\ SumFunctionOnSet(predicted(t), RowsOf(t)) = SumFunctionOnSet(PredictedOf, RowsOf(t))
    BY <2>3, SumMonotone
  <2> QED BY <1>4, <2>1, <2>2, <2>4
<1>6. Where(Log, key, T) = Log
  BY DEF Where
<1> DEFINE prompts == [t \in T |-> table[t]["prompt"]]
           predicteds == [t \in T |-> table[t]["predicted"]]
<1>7. /\ \A t \in T : prompts[t] = SumFunctionOnSet(PromptOf, Where(Log, key, {t}))
      /\ \A t \in T : predicteds[t] = SumFunctionOnSet(PredictedOf, Where(Log, key, {t}))
  BY <1>5
<1>8. /\ Total(table, "prompt") = SumFunctionOnSet(prompts, T)
      /\ Total(table, "predicted") = SumFunctionOnSet(predicteds, T)
  BY DEF Total, SumFunction
<1> HIDE DEF table, key, prompts, predicteds
<1>9. SumFunctionOnSet(prompts, T) = SumFunctionOnSet(PromptOf, Where(Log, key, T))
  BY ONLY <1>1, <1>2, <1>7, SumByKey
<1>10. SumFunctionOnSet(predicteds, T)
         = SumFunctionOnSet(PredictedOf, Where(Log, key, T))
  BY ONLY <1>1, <1>2, <1>7, SumByKey
<1> QED BY <1>6, <1>8, <1>9, <1>10 DEF table

\* The two sets of books agree: what the counters say is what is in the log,
\* and after a restart no more than that.
THEOREM BooksAreRight == Spec => []BooksAgree
<1>1. ProxyInv /\ BooksInv => BooksAgree
  <2> SUFFICES ASSUME ProxyInv, BooksInv PROVE BooksAgree
    OBVIOUS
  <2>1. /\ IsFiniteSet(Log) /\ Log = {r \in Requests : rows[r] # <<>>} \X {1}
        /\ \A e \in Log : Logged(e).token \in Tokens /\ token[Logged(e).token] # "none"
        /\ \A e \in Log : PromptOf[e] \in Nat /\ PredictedOf[e] \in Nat
    BY LogIs, ChargedAre
  <2>2. \A r \in Requests : /\ rows[r] \in Seq(Row) /\ Len(rows[r]) \in {0, 1}
                            /\ counted[r] \in {0, 1}
    BY DEF ProxyInv, TypeOK, RequestInv, Written, Serving, Recording
  <2>3. /\ total.prompt = SumFunctionOnSet(PromptOf, Charged)
        /\ total.predicted = SumFunctionOnSet(PredictedOf, Charged)
    BY DEF BooksInv
  <2>4. ASSUME \A r \in Requests : Len(rows[r]) = counted[r]
        PROVE  /\ Total(TokenRows, "prompt") = total.prompt
               /\ Total(TokenRows, "predicted") = total.predicted
    <3>1. \A r \in Requests : counted[r] = 1 <=> rows[r] # <<>>
      BY <2>2, <2>4
    <3>2. Log = Charged
      BY <2>1, <3>1 DEF Charged
    <3> DEFINE T == {u \in Tokens : token[u] # "none"}
    <3>3. T \in SUBSET Tokens /\ \A e \in Log : Logged(e).token \in T
      BY <2>1
    <3> HIDE DEF T
    <3>4. LET table == [t \in T |-> StatsByToken(t)] IN
            /\ Total(table, "prompt") = SumFunctionOnSet(PromptOf, Log)
            /\ Total(table, "predicted") = SumFunctionOnSet(PredictedOf, Log)
      BY ONLY <3>3, ProxyInv, BooksInv, ColumnsAddUp
    <3> QED BY <2>3, <3>2, <3>4 DEF TokenRows, T
  <2>5. ASSUME \A r \in Requests : Len(rows[r]) >= counted[r],
               \A t \in Tokens : token[t] # "revoked"
        PROVE  /\ Total(Collect, "prompt") >= total.prompt
               /\ Total(Collect, "predicted") >= total.predicted
    <3>1. \A r \in Requests : counted[r] = 1 => rows[r] # <<>>
      BY <2>2, <2>5
    <3>2. Charged \in SUBSET Log
      BY <2>1, <3>1 DEF Charged
    <3>3. /\ SumFunctionOnSet(PromptOf, Charged) <= SumFunctionOnSet(PromptOf, Log)
          /\ SumFunctionOnSet(PredictedOf, Charged) <= SumFunctionOnSet(PredictedOf, Log)
      BY <2>1, <3>2, SumOfPart
    <3> DEFINE T == {u \in Tokens : token[u] = "valid"}
    <3>4. T \in SUBSET Tokens /\ \A e \in Log : Logged(e).token \in T
      BY <2>1, <2>5 DEF ProxyInv, TypeOK
    <3> HIDE DEF T
    <3>5. LET table == [t \in T |-> StatsByToken(t)] IN
            /\ Total(table, "prompt") = SumFunctionOnSet(PromptOf, Log)
            /\ Total(table, "predicted") = SumFunctionOnSet(PredictedOf, Log)
      BY ONLY <3>4, ProxyInv, BooksInv, ColumnsAddUp
    <3>6. /\ SumFunctionOnSet(PromptOf, Log) \in Nat /\ SumFunctionOnSet(PredictedOf, Log) \in Nat
          /\ total.prompt \in Nat /\ total.predicted \in Nat
      BY <2>1, SumRemove DEF ProxyInv, TypeOK
    <3>7. Collect = [t \in T |-> StatsByToken(t)]
      BY DEF Collect, T
    <3> QED BY <2>3, <3>3, <3>5, <3>6, <3>7
  <2> QED BY <2>4, <2>5 DEF BooksAgree
<1> QED BY <1>1, InitBooks, BooksStep, Invariance, PTL DEF Spec

\* What the token page says of a token stays as it is once it is revoked and
\* its requests are through.
THEOREM RevocationIsFinal == Spec => RevocationSettles
<1>1. ASSUME TypeOK, NEW t \in Tokens,
             \A r \in Requests : \/ rows'[r] = rows[r]
                                 \/ rows'[r] = Append(rows[r], Entry(r)) /\ tokenID[r] # t
      PROVE  StatsByToken(t)' = StatsByToken(t)
  <2>1. \A r \in Requests : rows[r] \in Seq(Row)
    BY <1>1 DEF TypeOK
  <2>2. ASSUME NEW r \in Requests, NEW i
        PROVE  /\ i \in DOMAIN rows[r] => i \in DOMAIN rows'[r] /\ rows'[r][i] = rows[r][i]
               /\ i \in DOMAIN rows'[r] => \/ i \in DOMAIN rows[r]
                                           \/ rows'[r][i].token # t
    <3>1. CASE rows'[r] = rows[r]
      BY <3>1
    <3>2. CASE rows'[r] = Append(rows[r], Entry(r)) /\ tokenID[r] # t
      <4>1. Entry(r).token # t
        BY <3>2 DEF Entry
      <4>2. /\ DOMAIN rows'[r] = 1..Len(rows[r]) + 1 /\ DOMAIN rows[r] = 1..Len(rows[r])
            /\ Len(rows[r]) \in Nat
            /\ rows'[r][Len(rows[r]) + 1] = Entry(r)
            /\ \A j \in 1..Len(rows[r]) : rows'[r][j] = rows[r][j]
        BY <2>1, <3>2
      <4> QED BY <4>1, <4>2
    <3> QED BY <1>1, <3>1, <3>2
  <2>3. RowsOf(t)' = RowsOf(t)
    <3>1. ASSUME NEW e PROVE e \in RowsOf(t)' <=> e \in RowsOf(t)
      <4>1. e \in Log <=> \E r \in Requests : \E i \in DOMAIN rows[r] : e = <<r, i>>
        BY DEF Log
      <4>2. e \in Log' <=> \E r \in Requests : \E i \in DOMAIN rows'[r] : e = <<r, i>>
        BY DEF Log
      <4> QED BY <2>2, <4>1, <4>2 DEF RowsOf, Logged
    <3> QED BY <3>1
  <2>4. \A e \in RowsOf(t) : Logged(e)' = Logged(e)
    <3> TAKE e \in RowsOf(t)
    <3>1. PICK r \in Requests : \E i \in DOMAIN rows[r] : e = <<r, i>>
      BY DEF RowsOf, Log
    <3> QED BY <2>2, <3>1 DEF Logged
  <2>5. ASSUME NEW number PROVE SumByToken(t, number)' = SumByToken(t, number)
    <3>1. [e \in RowsOf(t) |-> Logged(e).stats[number]]'
            = [e \in RowsOf(t) |-> Logged(e).stats[number]]
      BY <2>3, <2>4
    <3> QED BY <3>1 DEF SumByToken
  <2> QED BY <2>3, <2>5 DEF StatsByToken
<1> DEFINE Kept(t) ==
      /\ Settled(t)'
      /\ \A r \in Requests :
           \/ rows'[r] = rows[r]
           \/ rows'[r] = Append(rows[r], Entry(r)) /\ tokenID[r] # t
<1>2. TypeOK /\ [\A t \in Tokens : Settled(t) => Kept(t)]_vars
        => [\A t \in Tokens :
              Settled(t) => Settled(t)' /\ StatsByToken(t)' = StatsByToken(t)]_vars
  BY <1>1
<1> QED BY <1>2, TypeCorrect, RevokedForGood, PTL DEF RevocationSettles
=============================================================================
