------------------------------- MODULE Proxy --------------------------------
(***************************************************************************)
(* A request to /v1 from the bearer token to the books it leaves behind:   *)
(* auth.Middleware looks the token up, OpenAI resolves the model, waits    *)
(* for Ensure and forwards the request; captureBody watches the answer go  *)
(* by and `record' saves it, publishes it and counts it. Meanwhile tokens  *)
(* are made and revoked on the web page, clients hang up, instances die in *)
(* the middle of an answer, and lim itself may be killed: the database     *)
(* survives that, the counters do not.                                     *)
(*                                                                         *)
(* What is published here arrives in Dashboard.tla.                        *)
(*                                                                         *)
(* Ensure is Manager.tla; here it is what OpenAI sees of it, an instance   *)
(* or an error, of which the proxy knows nothing more by the time it       *)
(* forwards. What the answers of llama-server look like is a constant.     *)
(***************************************************************************)
EXTENDS Stats, FiniteSets

CONSTANTS Requests,   \* the requests that may come in
          Tokens,     \* the tokens that may be created
          NoToken,    \* TokenID's nil
          Answers,    \* what llama-server answers: a stream or not, its chunks
          Spent,      \* what it says of every request it has done
          SaveFails,  \* whether the database may refuse a row
          MaxKills    \* how often lim is killed (a bound of the model)

ASSUME ConstantsAreSane ==
  /\ NoToken \notin Tokens
  /\ IsFiniteSet(Tokens)
  /\ Answers \subseteq [stream : BOOLEAN, chunks : Seq(Chunk)]
  /\ SaveFails \in BOOLEAN
  /\ MaxKills \in Nat

Timed(chunk)    == chunk.promptN > 0
Numbered(chunk) == Timed(chunk) \/ chunk.usage # NoUsage

\* llama-server always evaluates a part of the prompt, and counts right. A
\* chunk may come in the middle of it, the last one that has numbers has all.
ASSUME AnswersAreHonest ==
  /\ Spent \in Numbers /\ Spent.promptN > 0
  /\ \A a \in Answers : ~a.stream => Len(a.chunks) <= 1
  /\ \A a \in Answers : \A i \in DOMAIN a.chunks :
       LET chunk == a.chunks[i] IN
         /\ IF Timed(chunk)
            THEN /\ chunk.cacheN = Spent.cacheN /\ chunk.promptN = Spent.promptN
                 /\ chunk.predictedN <= Spent.predictedN
            ELSE chunk.cacheN = 0 /\ chunk.predictedN = 0
         /\ chunk.usage # NoUsage =>
              /\ chunk.usage.prompt = Spent.cacheN + Spent.promptN
              /\ chunk.usage.completion = Spent.predictedN
         /\ Timed(chunk) /\ (\A j \in DOMAIN a.chunks : Numbered(a.chunks[j]) => j <= i) =>
              chunk.predictedN = Spent.predictedN

NoAnswer == [stream |-> FALSE, chunks |-> <<>>]

VARIABLES
  token,   \* the api_tokens table
  pc,      \* where the handler of each request is
  raw,     \* the bearer token each request was sent with
  tokenID, \* the id auth put into the request's context
  by,      \* who answers the client: "nobody" yet, "lim" or the "instance"
  answer,  \* the answer of the instance
  read,    \* how many chunks of it captureBody has buffered
  once,    \* captureBody.once has been used
  rows,    \* the rows of each request in the request_logs table
  counted, \* how often lim_requests_total was raised for each request
  total,   \* lim_prompt_tokens_total and lim_tokens_generated_total
  kills

vars == <<token, pc, raw, tokenID, by, answer, read, once, rows, counted, total, kills>>

sent    == <<raw, tokenID>>
capture == <<by, answer, read, once>>
books   == <<rows, counted, total>>

Serving   == {"sent", "routing", "ensuring", "ready", "reading", "closing"}
Recording == {"save", "publish", "count"}
Row       == [token : Tokens \cup {NoToken}, stats : Numbers]

TypeOK ==
  /\ token \in [Tokens -> {"none", "valid", "revoked"}]
  /\ pc \in [Requests -> {"unsent", "done", "killed"} \cup Serving \cup Recording]
  /\ raw \in [Requests -> Tokens \cup {NoToken}]
  /\ tokenID \in [Requests -> Tokens \cup {NoToken}]
  /\ by \in [Requests -> {"nobody", "lim", "instance"}]
  /\ answer \in [Requests -> Answers \cup {NoAnswer}]
  /\ read \in [Requests -> Nat]
  /\ once \in [Requests -> BOOLEAN]
  /\ rows \in [Requests -> Seq(Row)]
  /\ counted \in [Requests -> Nat]
  /\ total \in [prompt : Nat, predicted : Nat]
  /\ kills \in 0..MaxKills

Init ==
  /\ token = [t \in Tokens |-> "none"]
  /\ pc = [r \in Requests |-> "unsent"]
  /\ raw = [r \in Requests |-> NoToken] /\ tokenID = raw
  /\ by = [r \in Requests |-> "nobody"]
  /\ answer = [r \in Requests |-> NoAnswer]
  /\ read = [r \in Requests |-> 0]
  /\ once = [r \in Requests |-> FALSE]
  /\ rows = [r \in Requests |-> <<>>]
  /\ counted = [r \in Requests |-> 0]
  /\ total = [prompt |-> 0, predicted |-> 0]
  /\ kills = 0

-----------------------------------------------------------------------------
(* The token page.                                                         *)
CreateToken(t) ==
  /\ token[t] = "none"
  /\ token' = [token EXCEPT ![t] = "valid"]
  /\ UNCHANGED <<pc, sent, capture, books, kills>>

Revoke(t) ==
  /\ token[t] = "valid"
  /\ token' = [token EXCEPT ![t] = "revoked"]
  /\ UNCHANGED <<pc, sent, capture, books, kills>>

-----------------------------------------------------------------------------
Goto(r, from, to) == pc[r] = from /\ pc' = [pc EXCEPT ![r] = to]

\* lim answers by itself: 400, 401, 404, 500, 502 or 503
Refuse(r, from) ==
  /\ Goto(r, from, "done")
  /\ by' = [by EXCEPT ![r] = "lim"]
  /\ UNCHANGED <<token, sent, answer, read, once, books, kills>>

\* A client sends a request, with a token it was given or without one.
Send(r, t) ==
  /\ t # NoToken => token[t] # "none"
  /\ Goto(r, "unsent", "sent")
  /\ raw' = [raw EXCEPT ![r] = t]
  /\ UNCHANGED <<token, tokenID, capture, books, kills>>

\* Mutant: the revoked flag is not part of the query.
Lookup_Revoked(r) == raw[r]

\* bearer and TokenStore.Lookup: the id of the token, if it is still good
Lookup(r) ==
  IF raw[r] # NoToken /\ token[raw[r]] = "valid" THEN raw[r] ELSE NoToken

\* auth.Middleware: 401 without a good token, 500 if the query fails
Authenticate(r) ==
  \/ /\ Lookup(r) # NoToken
     /\ Goto(r, "sent", "routing")
     /\ tokenID' = [tokenID EXCEPT ![r] = Lookup(r)]
     /\ UNCHANGED <<token, raw, capture, books, kills>>
  \/ (Lookup(r) = NoToken \/ raw[r] # NoToken) /\ Refuse(r, "sent")

Proceed(r, from, to) ==
  Goto(r, from, to) /\ UNCHANGED <<token, sent, capture, books, kills>>

\* OpenAI up to Ensure: no body or no model in it (400), no such model (404)
Route(r) == Proceed(r, "routing", "ensuring") \/ Refuse(r, "routing")

\* 503 if Ensure fails
EnsureReturns(r) == Proceed(r, "ensuring", "ready") \/ Refuse(r, "ensuring")

\* Mutant: the wrapped body is put in the way of the proxy's own 502 too.
Forward_WrapsErrors(r) ==
  \E a \in Answers \cup {NoAnswer} :
    /\ Goto(r, "ready", "reading")
    /\ by' = [by EXCEPT ![r] = IF a = NoAnswer THEN "lim" ELSE "instance"]
    /\ answer' = [answer EXCEPT ![r] = a]
    /\ UNCHANGED <<token, sent, read, once, books, kills>>

\* The answer's header arrives and ModifyResponse wraps the body; or the
\* instance is gone, or the client is, and ErrorHandler says so (502).
Forward(r) ==
  \/ \E a \in Answers :
       /\ Goto(r, "ready", "reading")
       /\ by' = [by EXCEPT ![r] = "instance"]
       /\ answer' = [answer EXCEPT ![r] = a]
       /\ UNCHANGED <<token, sent, read, once, books, kills>>
  \/ Refuse(r, "ready")

-----------------------------------------------------------------------------
(* captureBody.                                                            *)
Whole(r) == read[r] = Len(answer[r].chunks)

\* Mutant: finalize runs whenever the body ends, once or not.
Finalize_Again(r, from, next) == Goto(r, from, "save") /\ UNCHANGED once

\* done: the first time on to `record', else on to what comes next
Finalize(r, from, next) ==
  /\ Goto(r, from, IF once[r] THEN next ELSE "save")
  /\ once' = [once EXCEPT ![r] = TRUE]

\* Read: a chunk of the answer; at its end io.EOF. If the instance breaks
\* off or the client is gone the proxy is left with closing the body.
Read(r) ==
  \/ /\ pc[r] = "reading" /\ ~Whole(r)
     /\ read' = [read EXCEPT ![r] = @ + 1]
     /\ UNCHANGED <<token, pc, sent, by, answer, once, books, kills>>
  \/ /\ Whole(r) /\ Finalize(r, "reading", "closing")
     /\ UNCHANGED <<token, sent, by, answer, read, books, kills>>
  \/ Proceed(r, "reading", "closing")

Close(r) ==
  /\ Finalize(r, "closing", "done")
  /\ UNCHANGED <<token, sent, by, answer, read, books, kills>>

-----------------------------------------------------------------------------
(* record.                                                                 *)
StatsOf(r) == ExtractStats(answer[r].stream, SubSeq(answer[r].chunks, 1, read[r]))

\* Mutant: the row does not say whose request it was.
Entry_Nobodys(r) == [token |-> NoToken, stats |-> StatsOf(r)]

Entry(r) == [token |-> tokenID[r], stats |-> StatsOf(r)]

Save(r) ==
  /\ \/ Goto(r, "save", "publish") /\ rows' = [rows EXCEPT ![r] = Append(@, Entry(r))]
     \/ SaveFails /\ Goto(r, "save", "count") /\ UNCHANGED rows
  /\ UNCHANGED <<token, sent, capture, counted, total, kills>>

\* bus.Publish, of a row that is in the database
Publish(r) == Proceed(r, "publish", "count")

\* Mutant: an answer that brings no numbers is not counted.
RecordRequest_OnlyMetered(r) ==
  /\ counted' = [counted EXCEPT ![r] = @ + (IF Carries(StatsOf(r)) THEN 1 ELSE 0)]
  /\ total' = [prompt |-> total.prompt + StatsOf(r).promptN,
               predicted |-> total.predicted + StatsOf(r).predictedN]

\* RecordRequest: the counters of requests and of tokens
RecordRequest(r) ==
  /\ counted' = [counted EXCEPT ![r] = @ + 1]
  /\ total' = [prompt |-> total.prompt + StatsOf(r).promptN,
               predicted |-> total.predicted + StatsOf(r).predictedN]

\* the rest of record, and back to whoever called finalize: all that is left
\* is to close the body
Count(r) ==
  /\ Goto(r, "count", "closing")
  /\ RecordRequest(r)
  /\ UNCHANGED <<token, sent, capture, rows, kills>>

-----------------------------------------------------------------------------
(* lim is killed and started again.                                        *)
Kill ==
  /\ kills < MaxKills /\ kills' = kills + 1
  /\ pc' = [r \in Requests |-> IF pc[r] = "unsent" THEN "unsent" ELSE "killed"]
  /\ counted' = [r \in Requests |-> 0]
  /\ total' = [prompt |-> 0, predicted |-> 0]
  /\ UNCHANGED <<token, sent, capture, rows>>

-----------------------------------------------------------------------------
Handle(r) ==
  \/ Authenticate(r) \/ Route(r) \/ EnsureReturns(r) \/ Forward(r)
  \/ Read(r) \/ Close(r) \/ Save(r) \/ Publish(r) \/ Count(r)

Next ==
  \/ \E t \in Tokens : CreateToken(t) \/ Revoke(t)
  \/ \E r \in Requests, t \in Tokens \cup {NoToken} : Send(r, t)
  \/ \E r \in Requests : Handle(r)
  \/ Kill

Spec == Init /\ [][Next]_vars

-----------------------------------------------------------------------------
(* The inductive invariant: how far the capture and the books of a request *)
(* have come at each place of its handler.                                 *)
Written(r, logged, times) == Len(rows[r]) \in logged /\ counted[r] = times

RequestInv(r) ==
  /\ read[r] <= Len(answer[r].chunks)
  /\ pc[r] \in (Serving \ {"reading", "closing"}) \cup {"unsent"} => read[r] = 0
  /\ pc[r] \in (Serving \ {"closing"}) \cup {"unsent"} => ~once[r]
  /\ pc[r] \in Serving \cup {"unsent"} /\ ~once[r] => Written(r, {0}, 0)
  /\ pc[r] \in Recording => once[r]
  /\ pc[r] = "save" => Written(r, {0}, 0)
  /\ pc[r] = "publish" => Written(r, {1}, 0)
  /\ pc[r] = "count" => Written(r, {0, 1}, 0)
  /\ pc[r] = "closing" /\ once[r] => Written(r, {0, 1}, 1)
  /\ pc[r] \in {"reading", "closing"} \cup Recording => by[r] = "instance"
  /\ pc[r] = "done" =>
       \/ by[r] = "instance" /\ Written(r, {0, 1}, 1)
       \/ by[r] = "lim" /\ Written(r, {0}, 0)
  /\ pc[r] = "killed" => Written(r, {0, 1}, 0)

\* what was written is what would still be
LoggedInv(r) == rows[r] # <<>> => rows[r][1] = Entry(r)

ProxyInv == TypeOK /\ \A r \in Requests : RequestInv(r) /\ LoggedInv(r)

\* the rows of the log, and those of them that are of t
Log       == UNION {{r} \X DOMAIN rows[r] : r \in Requests}
Logged(e) == rows[e[1]][e[2]]
RowsOf(t) == {e \in Log : Logged(e).token = t}

SumByToken(t, number) == SumFunction([e \in RowsOf(t) |-> Logged(e).stats[number]])

StatsByToken(t) ==
  [requests  |-> Cardinality(RowsOf(t)),
   prompt    |-> SumByToken(t, "promptN"),
   predicted |-> SumByToken(t, "predictedN"),
   cache     |-> SumByToken(t, "cacheN")]

\* what the tokens page says of every token there is
TokenRows == [t \in {u \in Tokens : token[u] # "none"} |-> StatsByToken(t)]

\* the lim_token_* counters of a scrape: those that are revoked are left out
Collect == [t \in {u \in Tokens : token[u] = "valid"} |-> StatsByToken(t)]

\* one of the columns of such a table, added up
Total(table, number) == SumFunction([t \in DOMAIN table |-> table[t][number]])

(* captureBody runs "finalize exactly once": though both the end of the    *)
(* answer and the closing of the body call for it, no request is written   *)
(* to the log or counted twice.                                            *)
RecordedOnce == \A r \in Requests : Len(rows[r]) <= 1 /\ counted[r] <= 1

(* Whatever becomes of the client, the instance or the database, a request *)
(* the instance began to answer is counted before its handler ends, and    *)
(* one that lim answered itself is neither counted nor logged.             *)
AnswersAreCounted ==
  \A r \in Requests : pc[r] = "done" =>
    /\ counted[r] = IF by[r] = "instance" THEN 1 ELSE 0
    /\ by[r] = "lim" => rows[r] = <<>>

HasNumbers(r) == \E j \in DOMAIN answer[r].chunks : Numbered(answer[r].chunks[j])

(* In whatever form the answer brings its numbers, one document or a       *)
(* stream, timings or usage or both, together or in chunks of their own:   *)
(* no token is charged that was not spent, none both as cached and as      *)
(* prompt, and of an answer that was read to its end none is missing.      *)
ChargedRight ==
  \A r \in Requests : \A i \in DOMAIN rows[r] :
    LET stats == rows[r][i].stats
    IN /\ stats.cacheN + stats.promptN <= Spent.cacheN + Spent.promptN
       /\ stats.predictedN <= Spent.predictedN
       /\ Whole(r) /\ HasNumbers(r) =>
            stats.promptN >= Spent.promptN /\ stats.predictedN = Spent.predictedN

(* Two sets of books are kept, counters in memory and rows in the database.*)
(* When no request is halfway between them and both know the same requests *)
(* what the tokens page shows adds up to what lim has counted; and as long *)
(* as no row was refused and no token revoked the lim_token_* counters of  *)
(* a scrape "survive restarts" (tokenCollector): they never say less.      *)
BooksAgree ==
  (\A r \in Requests : pc[r] \notin Recording) =>
    /\ (\A r \in Requests : Len(rows[r]) = counted[r]) =>
         /\ Total(TokenRows, "prompt") = total.prompt
         /\ Total(TokenRows, "predicted") = total.predicted
    /\ (\A r \in Requests : Len(rows[r]) >= counted[r])
         /\ (\A t \in Tokens : token[t] # "revoked") =>
         /\ Total(Collect, "prompt") >= total.prompt
         /\ Total(Collect, "predicted") >= total.predicted

\* t is revoked, and no handler that let it in is running
Settled(t) ==
  token[t] = "revoked" /\ \A r \in Requests : tokenID[r] = t => pc[r] \in {"done", "killed"}

(* Requests let in before their token was revoked are served and charged   *)
(* to it, cold start included; once those are through no other follows,    *)
(* and what the token page says of it stays as it is.                      *)
RevocationSettles ==
  [][\A t \in Tokens :
       Settled(t) => Settled(t)' /\ StatsByToken(t)' = StatsByToken(t)]_vars
=============================================================================
