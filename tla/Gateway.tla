------------------------------ MODULE Gateway -------------------------------
(***************************************************************************)
(* How a request and a scrape reach the llama-server they mean: by nothing *)
(* but a port number. startLocked lets the system pick a free port and     *)
(* tells the server to open it; OpenAI and LlamaWebUI forward to the port  *)
(* of the instance Ensure returned, GET /metrics to the port of the        *)
(* instance it finds in the slot, and neither holds anything that keeps    *)
(* that instance alive. By the time they connect it may be stopped, its    *)
(* server may be gone though processes of its group go on, the port may    *)
(* have been given to its successor, or another program on the machine may *)
(* have opened it.                                                         *)
(*                                                                         *)
(* The manager is taken as what InstanceSlot promises of it, which         *)
(* ManagerProofs shows.                                                    *)
(***************************************************************************)
EXTENDS InstanceSlot, Relabel

CONSTANTS Models,
          Ports,     \* the ports the system picks from
          Requests,  \* the requests that are forwarded
          NoPort,
          Stranger,  \* another program that listens on a port
          Nobody     \* the connection is refused

ASSUME GatewayNamesApart ==
  /\ Nil \notin Instances
  /\ {Stranger, Nobody} \cap Instances = {} /\ Stranger # Nobody
  /\ NoPort \notin Ports

VARIABLES
  model,    \* Instance.Model
  port,     \* Instance.Port
  bound,    \* the processes that have opened their port
  taken,    \* the ports other programs have opened
  robbed,   \* history: the instances whose port another program opened while
            \* they were in the slot, before they did or after they left it
  closed,   \* the instances whose server has left its port, for good
  to,       \* the instance each request is to be forwarded to
  server,   \* who answered it
  scraped,  \* the instance in the snapshot of the scrape
  source,   \* who answered the scrape, and with what
  out       \* the relabelled lines

owners   == <<model, port>>
machine  == <<bound, taken, robbed, closed>>
requests == <<to, server>>
scrape   == <<scraped, source, out>>
gatewayVars == <<vars, owners, machine, requests, scrape>>

NoSource == [by |-> Nobody, text |-> <<>>]

GatewayTypeOK ==
  /\ model \in [Instances -> Models \cup {Nil}]
  /\ port \in [Instances -> Ports \cup {NoPort}]
  /\ bound \subseteq live
  /\ taken \subseteq Ports
  /\ robbed \subseteq used /\ closed \subseteq used
  /\ to \in [Requests -> Instances \cup {Nil}]
  /\ server \in [Requests -> Instances \cup {Stranger, Nobody}]
  /\ scraped \in Instances \cup {Nil}
  /\ source.by \in Instances \cup {Stranger, Nobody}

GatewayInit ==
  /\ Init
  /\ model = [i \in Instances |-> Nil]
  /\ port = [i \in Instances |-> NoPort]
  /\ bound = {} /\ taken = {} /\ robbed = {} /\ closed = {}
  /\ to = [r \in Requests |-> Nil]
  /\ server = [r \in Requests |-> Nobody]
  /\ scraped = Nil /\ source = NoSource /\ out = <<>>

\* who accepts a connection to port p
Listener(p) ==
  IF p \in taken THEN Stranger
  ELSE IF \E i \in bound : port[i] = p THEN CHOOSE i \in bound : port[i] = p
  ELSE Nobody

-----------------------------------------------------------------------------
(* The manager, with the ports.                                            *)

\* startLocked with freePort: nobody has the port open at this moment
Start(i, m, p) ==
  /\ Fill(i)
  /\ Listener(p) = Nobody
  /\ model' = [model EXCEPT ![i] = m]
  /\ port' = [port EXCEPT ![i] = p]
  /\ UNCHANGED <<machine, requests, scrape>>

\* Mutant: waitHealthy gives up in silence when the time is over.
Healthy_OrTimeout == TRUE

\* GET /health has been answered with 200, by whoever has the port open. If
\* the process dies before waitHealthy returns it is dead when it is Ready.
Healthy == Listener(port[slot]) # Nobody

MarkReady == Ready /\ Healthy /\ UNCHANGED <<owners, machine, requests, scrape>>

Stop == Drain /\ UNCHANGED <<owners, machine, requests, scrape>>

Exec == Spawn /\ UNCHANGED <<owners, machine, requests, scrape>>

\* the process opens its port; if it cannot, it exits (Exit)
Bind ==
  /\ \E i \in live \ (bound \cup closed) :
       port[i] \notin taken /\ bound' = bound \cup {i}
  /\ UNCHANGED <<vars, owners, taken, robbed, closed, requests, scrape>>

\* the server dies and leaves children behind, or it was sent SIGTERM and
\* stops listening before it exits: the group lives on without its port
StopListening ==
  /\ \E i \in live \ closed : bound' = bound \ {i} /\ closed' = closed \cup {i}
  /\ UNCHANGED <<vars, owners, taken, robbed, requests, scrape>>

\* the rest of the group
Exit ==
  /\ Die /\ bound' = {}
  /\ UNCHANGED <<owners, taken, robbed, closed, requests, scrape>>

Clear == Vacate /\ UNCHANGED <<owners, machine, requests, scrape>>

\* other programs come and go
Take(p) ==
  /\ Listener(p) = Nobody
  /\ taken' = taken \cup {p}
  /\ robbed' = robbed \cup {i \in used : i = slot /\ port[i] = p}
  /\ UNCHANGED <<vars, owners, bound, closed, requests, scrape>>

Leave(p) ==
  /\ p \in taken /\ taken' = taken \ {p}
  /\ UNCHANGED <<vars, owners, bound, robbed, closed, requests, scrape>>

-----------------------------------------------------------------------------
(* A request. Ensure returns the instance in the slot, Ready; later the    *)
(* proxy connects.                                                         *)
EnsureReturns(r) ==
  /\ to[r] = Nil /\ phase = "ready"
  /\ to' = [to EXCEPT ![r] = slot]
  /\ server' = [server EXCEPT ![r] = Nobody]
  /\ UNCHANGED <<vars, owners, machine, scrape>>

\* Mutant: the address is that of the instance that is in the slot now.
BaseURL_Current(i) == IF slot = Nil THEN port[i] ELSE port[slot]

BaseURL(i) == port[i]

Forward(r) ==
  /\ to[r] # Nil
  /\ server' = [server EXCEPT ![r] = Listener(BaseURL(to[r]))]
  /\ UNCHANGED <<vars, owners, machine, to, scrape>>

Finish(r) ==
  /\ to[r] # Nil
  /\ to' = [to EXCEPT ![r] = Nil]
  /\ server' = [server EXCEPT ![r] = Nobody]
  /\ UNCHANGED <<vars, owners, machine, scrape>>

-----------------------------------------------------------------------------
(* GET /metrics: current() takes a snapshot, in whatever phase the         *)
(* instance is, and fetchInstance asks at its port.                        *)
ScrapeCurrent ==
  /\ scraped = Nil /\ slot # Nil
  /\ scraped' = slot
  /\ UNCHANGED <<vars, owners, machine, requests, source, out>>

\* an answer is relabelled, an error becomes a comment
ScrapeFetch ==
  /\ scraped # Nil /\ source = NoSource
  /\ LET by == Listener(BaseURL(scraped)) IN
       /\ by # Nobody
       /\ \E text \in Texts :
            /\ source' = [by |-> by, text |-> text]
            /\ out' = RelabelText(WrittenText(text), model[scraped])
  /\ UNCHANGED <<vars, owners, machine, requests, scraped>>

ScrapeEnd ==
  /\ scraped # Nil
  /\ scraped' = Nil /\ source' = NoSource /\ out' = <<>>
  /\ UNCHANGED <<vars, owners, machine, requests>>

-----------------------------------------------------------------------------
GatewayNext ==
  \/ \E i \in Instances, m \in Models, p \in Ports : Start(i, m, p)
  \/ MarkReady \/ Stop \/ Exec \/ Bind \/ StopListening \/ Exit \/ Clear
  \/ \E p \in Ports : Take(p) \/ Leave(p)
  \/ \E r \in Requests : EnsureReturns(r) \/ Forward(r) \/ Finish(r)
  \/ ScrapeCurrent \/ ScrapeFetch \/ ScrapeEnd

GatewaySpec == GatewayInit /\ [][GatewayNext]_gatewayVars

-----------------------------------------------------------------------------
(* The inductive invariant. An instance that is not in the slot any more   *)
(* never comes back; one that was Ready has opened its port and keeps it   *)
(* until its server leaves it, unless the port was stolen before.          *)
SlotIsSane ==
  /\ slot \in used \cup {Nil} /\ used \subseteq Instances
  /\ live \subseteq {slot} /\ Nil \notin live
  /\ slot = Nil => phase = "empty"

Gone(i) == i \in used /\ i # slot

Wrong(i, by) == by \in used \ {i} /\ Gone(i) /\ port[by] = port[i]

RequestIsSane(r) ==
  /\ to[r] \in used \cup {Nil}
  /\ to[r] = slot => phase # "starting"
  /\ server[r] \in {to[r], Stranger, Nobody} \/ Wrong(to[r], server[r])
  /\ to[r] \in live \ (robbed \cup closed) => to[r] \in bound

GatewayInv ==
  /\ GatewayTypeOK
  /\ SlotIsSane
  /\ \A i \in bound : port[i] \notin taken
  /\ slot # Nil /\ port[slot] \in taken => slot \in robbed
  /\ phase = "ready" /\ slot \in live \ (robbed \cup closed) => slot \in bound
  /\ \A r \in Requests : RequestIsSane(r)
  /\ scraped \in used \cup {Nil}
  /\ source.by \in {scraped, Stranger, Nobody} \/ Wrong(scraped, source.by)

\* who may answer at instance i's port when i is asked for
MayAnswer(i, by) ==
  by \in Instances => by = i \/ (i \notin live /\ port[by] = port[i])

(* "The returned instance is safe to proxy to" (Ensure), as far as that    *)
(* goes: a request forwarded while a process of its instance is alive      *)
(* never reaches another instance; it is refused only if the server has    *)
(* left its port or had it stolen, and it reaches another program only if  *)
(* that one opened the port before the server did, or after it left.  The  *)
(* slot stays Ready in both cases, because reap waits for the whole group. *)
SafeToProxy ==
  \A r \in Requests :
    to[r] \in live =>
      LET by == Listener(BaseURL(to[r])) IN
        /\ by \in {to[r], Stranger, Nobody}
        /\ by = Nobody => to[r] \in robbed \cup closed
        /\ by = Stranger => to[r] \in robbed

(* A request or a scrape is answered by another instance of lim than the   *)
(* one it was meant for only if that one is dead and its port was given to *)
(* the other; as long as the numbers differ no prompt reaches, and no      *)
(* sample is taken from, a model that was not asked for.                   *)
AnswersAreOwn ==
  /\ \A r \in Requests : to[r] # Nil => MayAnswer(to[r], server[r])
  /\ scraped # Nil => MayAnswer(scraped, source.by)

(* However llama-server writes its samples, each has the label of the      *)
(* model that was asked for as its last, when the model has been swapped   *)
(* out since too, and comments are left alone. Only a closing brace in a   *)
(* value is taken for the end of the labels.                               *)
SamplesAreLabelled ==
  source # NoSource =>
    /\ DOMAIN out = DOMAIN source.text
    /\ \A i \in DOMAIN out :
         ~BraceInValue(source.text[i]) =>
           out[i] = Written(source.text[i], <<<<model[scraped]>>>>)
=============================================================================
